------------------------------ MODULE Backends ------------------------------
(***************************************************************************)
(* The event loops built on io_uring and on kqueue, each with its peers    *)
(* and the threads that hand over connections and ask for the shutdown.    *)
(* A behaviour belongs to one of them.                                     *)
(***************************************************************************)
EXTENDS UringMultiplexer, KqueueMultiplexer

vars == <<baseVars, inflight, filters, events>>

Init ==
    /\ BaseInit
    /\ \/ backend = "uring"
          /\ UringInit /\ filters = [h \in Handle |-> NoFilter] /\ events = <<>>
       \/ backend = "kqueue" /\ KqueueInit /\ inflight = <<>>

Peers ==
    \/ RequestShutdown
    \/ \E c \in Conn : PeerSend(c) \/ PeerClose(c)

Uring == backend = "uring" /\ UringNext /\ UNCHANGED <<filters, events>>

Kqueue == backend = "kqueue" /\ KqueueNext /\ UNCHANGED inflight

Next ==
    \/ Uring \/ Kqueue
    \/ Peers /\ UNCHANGED <<inflight, filters, events>>
    \/ LoopExit /\ UNCHANGED <<inflight, filters, events>>

(* The loop runs on a thread of its own.  The kernel delivers what is       *)
(* ready; it reports filters in turns, so that none is left out for ever.   *)
Fairness ==
    /\ WF_vars(LoopExit /\ UNCHANGED <<inflight, filters, events>>)
    /\ WF_vars(backend = "kqueue" /\ KqueueLoop /\ UNCHANGED inflight)
    /\ SF_vars(backend = "kqueue" /\ Poll /\ UNCHANGED inflight
               /\ \E k \in DOMAIN events' : events'[k].h = Updater)
    /\ WF_vars(backend = "uring" /\ Enter /\ UNCHANGED <<filters, events>>)
    /\ WF_vars(backend = "uring" /\ UNCHANGED <<filters, events>>
               /\ \E k \in DOMAIN inflight : UpdaterCompletes(k))

Spec == Init /\ [][Next]_vars /\ Fairness

-----------------------------------------------------------------------------
(* Properties.                                                              *)

(* What a manager is registered for is known to the kernel, or will be with *)
(* the next poll_once(): no event that a manager waits for gets lost.       *)
MaskIsArmed ==
    \A h \in mpx.managers : \A op \in mpx.mask[h] :
       IF backend = "uring"
       THEN \E k \in DOMAIN (mpx.queue \o inflight) :
              LET s == (mpx.queue \o inflight)[k]
              IN  s.mgr = h /\ s.op \in {op, IF op = "read" THEN "poll_read" ELSE "poll_write"}
       ELSE LET Tells(k) == mpx.queue[k].h = h /\ mpx.queue[k].op = op
            IN  \/ filters[h][op] = "on" /\ \A k \in DOMAIN mpx.queue : ~Tells(k)
                \/ \E k \in DOMAIN mpx.queue :
                      /\ Tells(k) /\ mpx.queue[k].flag = "ENABLE"
                      /\ \A j \in DOMAIN mpx.queue : j > k => ~Tells(j)

(* The transport reads into one buffer: with the completions of whatever    *)
(* was submitted before and after an error, at most one submission of a     *)
(* manager reads or waits for input.                                        *)
OneReader ==
    backend = "uring" =>
      LET subs == mpx.queue \o inflight
          Reads(k) == subs[k].op \in {"read", "poll_read", "accept"}
      IN  \A j, k \in DOMAIN subs :
            Reads(j) /\ Reads(k) /\ subs[j].mgr = subs[k].mgr => j = k

(* shutdown() on any thread reaches the loop, and ends it unless there are  *)
(* connections that still have something to write.                          *)
ShutdownEndsLoop ==
    /\ asked ~> mpx.shutting_down \/ exited
    /\ (mpx.shutting_down /\ mpx.managers \cap Conn = {}) ~> exited

(* A manager that another thread hands over is added, unless the loop ends  *)
(* first.                                                                   *)
HandedOverIsAdded ==
    \A c \in HandedOver :
       (\E k \in DOMAIN pipe : pipe[k] = c)
         ~> (c \in mpx.managers \/ mpx.shutting_down \/ exited)
=============================================================================
