-------------------------- MODULE UringMultiplexer --------------------------
(***************************************************************************)
(* net::detail::uring_multiplexer with the io_uring variants of the        *)
(* pollset_updater, the acceptor and the stream transport.  An operation   *)
(* of a manager is a submission; the kernel gets the submissions with the  *)
(* next poll_once() and completes them in any order.  A submission holds a *)
(* reference to its manager, which lives on until the last one completes.  *)
(***************************************************************************)
EXTENDS MultiplexerBase

VARIABLE
    inflight   \* the submissions the kernel works on, in no order

uringVars == <<baseVars, inflight>>

Submitted(m) == m.queue \o inflight

(* The managers that somebody still refers to. *)
Living(m, subs) ==
    m.managers \cup InPipe \cup {subs[k].mgr : k \in DOMAIN subs}

-----------------------------------------------------------------------------
(* prepare_submission() and the submit_*(): nothing is submitted when the   *)
(* submission queue is full.                                                *)
HasRoom(m) == Len(m.queue) < RingDepth

Submit(m, h, op) ==
    IF HasRoom(m) THEN [m EXCEPT !.queue = Append(@, [mgr |-> h, op |-> op])] ELSE m

(* enable(): the manager's own enable() submits the operation; the bit is   *)
(* taken back when it cannot.                                               *)
UringEnable(m, h, op) ==
    IF op \in m.mask[h] \/ ~HasRoom(m) THEN m
    ELSE Submit([m EXCEPT !.mask[h] = @ \cup {op}], h, op)

(* disable() removes through the base's del(socket), whatever the state of  *)
(* the shutdown; submissions that are in flight stay there.                 *)
UringDisable(m, h, op, remove) ==
    LET masked == [m EXCEPT !.mask[h] = @ \ {op}]
    IN  IF op \notin m.mask[h] THEN m
        ELSE IF remove /\ masked.mask[h] = {} THEN BaseDel(masked, h) ELSE masked

(* Mutant: a manager is added without anything to do. *)
UringAddIdle(m, h, initial) == BaseAdd(m, h)

(* add() on the loop thread. *)
UringAdd(m, h, initial) ==
    UringEnable(BaseAdd(m, h), h, initial)

(* Mutant: del(it) asks for the opposite, as kqueue's does. *)
UringShutdownWaits(m) ==
    [BaseShutdown(m) EXCEPT !.running = @ /\ BaseShutdown(m).managers # {}]

(* shutdown() on the loop thread: del(it) stops the loop while managers are *)
(* left, and the updater always is.                                         *)
UringShutdown(m) ==
    [BaseShutdown(m) EXCEPT
       !.running = @ /\ \A h \in Retired(m) : m.managers = {h}]

(* Mutant: the operation is retried although a poll has been submitted. *)
UringResultRetries(m, h, op, res) ==
    CASE res = "ok"              -> m
      [] res = "error"           -> BaseDel(m, h)
      [] res = "temporary_error" -> Submit(m, h, op)
      [] OTHER                   -> UringDisable(m, h, op, TRUE)

(* handle_events(): what a completion for `op` that came to `res` leads to. *)
UringResult(m, h, op, res) ==
    CASE res = "ok"    -> m
      [] res = "error" -> BaseDel(m, h)
      [] OTHER         -> UringDisable(m, h, op, TRUE)   \* done, temporary_error

-----------------------------------------------------------------------------
UringInit ==
    /\ mpx = UringAdd(UringAdd(Blank, Updater, "read"), Acceptor, "accept")
    /\ inflight = <<>>

(* io_uring_submit() at the start of poll_once(). *)
Enter ==
    /\ ~exited /\ mpx.running /\ mpx.queue # <<>>
    /\ inflight' = inflight \o mpx.queue
    /\ mpx' = [mpx EXCEPT !.queue = <<>>]
    /\ UNCHANGED <<backend, pipe, asked, exited, backlog, conn, faults>>

(* The k-th submission completes, for operation `op` of manager h, and is   *)
(* freed.                                                                   *)
Completes(k, h, op) ==
    /\ ~exited
    /\ inflight[k] = [mgr |-> h, op |-> op]
    /\ inflight' = RemoveAt(inflight, k)

(* Managers nobody refers to any more are destroyed. *)
Cleanup(m, cs) == Closed(Living(m, m.queue \o inflight'), cs)

(* The updater's readv(): the message is handled, and the next one read     *)
(* after an add.                                                            *)
UpdaterCompletes(k) ==
    /\ Completes(k, Updater, "read") /\ pipe # <<>>
    /\ pipe' = Tail(pipe)
    /\ mpx' = IF Head(pipe) = "shutdown"
              THEN UringResult(UringShutdown(mpx), Updater, "read", "done")
              ELSE LET added == UringAdd(mpx, Head(pipe), "read")
                   IN  IF HasRoom(added) THEN Submit(added, Updater, "read")
                       ELSE UringResult(added, Updater, "read", "error")
    /\ conn' = Cleanup(mpx', conn)
    /\ UNCHANGED <<backend, asked, exited, backlog, faults>>

(* A multishot accept stays with the kernel. *)
AcceptCompletes(k) ==
    /\ ~exited /\ inflight[k] = [mgr |-> Acceptor, op |-> "accept"]
    /\ backlog = 1 /\ backlog' = 0
    /\ \E c \in Conn \ Living(mpx, Submitted(mpx)) : mpx' = UringAdd(mpx, c, "read")
    /\ UNCHANGED <<backend, inflight, pipe, asked, exited, conn, faults>>

(* accept() fails: handle_error() shuts the loop down, and the acceptor is  *)
(* removed, if that has not happened.                                       *)
AcceptFails(k) ==
    /\ "accept" \in MayFail /\ faults < MaxFaults /\ faults' = faults + 1
    /\ Completes(k, Acceptor, "accept")
    /\ mpx' = UringResult(UringShutdown(mpx), Acceptor, "accept", "error")
    /\ conn' = Cleanup(mpx', conn)
    /\ UNCHANGED <<backend, pipe, asked, exited, backlog>>

(* enqueue(): register_writing() submits the write at once. *)
UringAnswer(m, c) == UringEnable(m, c, "write")

(* handle_completion() of the stream transport for a read: what is consumed *)
(* may be answered, and the next read is submitted.                         *)
ReadCompletes(k, c) ==
    /\ Completes(k, c, "read")
    /\ \E out \in ReadOutcome(c) :
         LET answered == IF out.answers THEN UringAnswer(mpx, c) ELSE mpx
         IN  /\ mpx' = IF out.res = "ok" THEN Submit(answered, c, "read")
                       ELSE UringResult(answered, c, "read", out.res)
             /\ conn' = Cleanup(mpx', [conn EXCEPT ![c].input = out.left,
                                                   ![c].pending = @ \/ out.answers])
    /\ UNCHANGED <<backend, pipe, asked, exited, backlog, faults>>

(* For a write: what is left is submitted; "done" when nothing is.  A peer  *)
(* that has closed makes it fail.                                           *)
WriteCompletes(k, c) ==
    /\ Completes(k, c, "write")
    /\ \E res \in {"ok", "done"} \cup (IF conn[c].hup THEN {"error"} ELSE {}) :
         /\ mpx' = IF res = "ok" THEN Submit(mpx, c, "write")
                   ELSE UringResult(mpx, c, "write", res)
         /\ conn' = Cleanup(mpx', [conn EXCEPT ![c].pending = @ /\ res # "done"])
    /\ UNCHANGED <<backend, pipe, asked, exited, backlog, faults>>

(* An error taken for a temporary one: a poll is submitted, but the result  *)
(* is handled like "done" and disables the operation.                       *)
Temporary(k, c, op) ==
    /\ op \in MayFail /\ faults < MaxFaults /\ faults' = faults + 1
    /\ Completes(k, c, op)
    /\ mpx' = UringResult(Submit(mpx, c, IF op = "read" THEN "poll_read"
                                         ELSE "poll_write"),
                          c, op, "temporary_error")
    /\ conn' = Cleanup(mpx', conn)
    /\ UNCHANGED <<backend, pipe, asked, exited, backlog>>

(* The poll completes: the operation is submitted again.  Disabling a poll  *)
(* changes nothing.                                                         *)
PollCompletes(k, c) ==
    /\ \/ /\ Completes(k, c, "poll_read")
          /\ (conn[c].input > 0 \/ conn[c].hup)
          /\ mpx' = Submit(mpx, c, "read")
       \/ /\ Completes(k, c, "poll_write")
          /\ mpx' = IF conn[c].pending THEN Submit(mpx, c, "write") ELSE mpx
    /\ conn' = Cleanup(mpx', conn)
    /\ UNCHANGED <<backend, pipe, asked, exited, backlog, faults>>

Complete(k) ==
    \/ UpdaterCompletes(k) \/ AcceptCompletes(k)
    \/ \E c \in Conn : ReadCompletes(k, c) \/ WriteCompletes(k, c) \/ PollCompletes(k, c)

UringLoop == Enter \/ \E k \in DOMAIN inflight : Complete(k)

UringNext ==
    \/ UringLoop
    \/ \E k \in DOMAIN inflight :
         \/ AcceptFails(k)
         \/ \E c \in Conn, op \in {"read", "write"} : Temporary(k, c, op)
    \/ LET live == Living(mpx, Submitted(mpx))
       IN  /\ PeerConnect(live) \/ \E c \in Conn : HandOver(c, live)
           /\ UNCHANGED inflight
=============================================================================
