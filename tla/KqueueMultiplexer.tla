------------------------- MODULE KqueueMultiplexer -------------------------
(***************************************************************************)
(* net::detail::kqueue_multiplexer with the event_handler variants of the  *)
(* pollset_updater, the acceptor and the stream transport.  The wishes of  *)
(* the managers go to the kernel as a list of changes with the next        *)
(* kevent(); the kernel answers with the changes it could not make or,     *)
(* when it could make all of them, with the filters that are ready.        *)
(***************************************************************************)
EXTENDS MultiplexerBase

CONSTANT MaxEvents   \* max_events: the size of pollset_

ASSUME KqueueAssumption == MaxEvents \in Nat \ {0}

VARIABLES
    filters,   \* the kernel's filters of each descriptor: "none", "off", "on"
    events     \* what the last kevent() returned and is yet to be handled

kqueueVars == <<baseVars, filters, events>>

NoFilter == [op \in {"read", "write"} |-> "none"]

-----------------------------------------------------------------------------
(* mod(): both filters are changed by two entries; whatever is neither      *)
(* reading nor writing becomes the filter 0.                                *)
KqueueMod(m, h, flag, ops) ==
    LET Entry(op) == [h |-> h, op |-> op, flag |-> flag]
    IN  [m EXCEPT !.queue =
           @ \o CASE ops = {"read", "write"} -> <<Entry("read"), Entry("write")>>
                  [] ops \in {{"read"}, {"write"}} -> <<Entry(CHOOSE op \in ops : TRUE)>>
                  [] OTHER -> <<Entry("none")>>]

(* Mutant: the kernel is told of a manager's first operation only. *)
KqueueEnableFirst(m, h, op) ==
    IF m.mask[h] # {} THEN [m EXCEPT !.mask[h] = @ \cup {op}]
    ELSE KqueueMod([m EXCEPT !.mask[h] = {op}], h, "ENABLE", {op})

(* enable() switches on every filter of the mask. *)
KqueueEnable(m, h, op) ==
    IF op \in m.mask[h] THEN m
    ELSE KqueueMod([m EXCEPT !.mask[h] = @ \cup {op}], h, "ENABLE", m.mask[h] \cup {op})

(* del(): the last manager of a shutdown stops the loop. *)
KqueueDel(m, h) ==
    LET rest == KqueueMod(BaseDel(m, h), h, "DELETE", {"read", "write"})
    IN  [rest EXCEPT !.running = @ /\ ~(rest.shutting_down /\ rest.managers = {})]

(* disable(): what is not in the mask is not told to the kernel. *)
KqueueDisable(m, h, ops, remove) ==
    LET masked == KqueueMod([m EXCEPT !.mask[h] = @ \ ops], h, "DISABLE", ops)
    IN  IF m.mask[h] \cap ops = {} THEN m
        ELSE IF remove /\ masked.mask[h] = {} THEN KqueueDel(masked, h) ELSE masked

(* add() on the loop thread. *)
KqueueAdd(m, h, initial) ==
    KqueueEnable(KqueueMod(BaseAdd(m, h), h, "ADD", {"read", "write"}), h, initial)

(* shutdown() on the loop thread, one manager at a time. *)
KqueueStop(h, m) ==
    LET quiet == KqueueDisable(m, h, {"read", "accept"}, FALSE)
    IN  IF quiet.mask[h] = {} THEN KqueueDel(quiet, h) ELSE quiet

KqueueShutdown(m) ==
    FoldSet(KqueueStop, [m EXCEPT !.shutting_down = TRUE], Others(m))

(* handle_events(): what the result of a handler leads to. *)
KqueueResult(m, h, op, res) ==
    CASE res = "ok"   -> m
      [] res = "done" -> KqueueDisable(m, h, {op}, TRUE)
      [] OTHER        -> KqueueDel(m, h)

-----------------------------------------------------------------------------
(* The kernel: a filter can be added to an open descriptor, and changed or  *)
(* deleted while it exists; what cannot be changed is reported.             *)
Change(kernel, entry, open) ==
    LET h == entry.h
        known == entry.op # "none" /\ h \in open
                 /\ (entry.flag = "ADD" \/ kernel.filters[h][entry.op] # "none")
        to == CASE entry.flag = "ENABLE" -> "on" [] entry.flag = "DELETE" -> "none"
                [] OTHER -> "off"
    IN  IF known THEN [kernel EXCEPT !.filters[h][entry.op] = to]
        ELSE [kernel EXCEPT !.errors = Append(@, [h |-> h, op |-> entry.op, eof |-> FALSE])]

Changed(queue, fs, open) ==
    FoldLeft(LAMBDA kernel, entry : Change(kernel, entry, open),
             [filters |-> fs, errors |-> <<>>], queue)

(* Closing a descriptor takes its filters away. *)
Dropped(fs, open) == [h \in Handle |-> IF h \in open THEN fs[h] ELSE NoFilter]

Open(m) == m.managers \cup InPipe

(* What kevent() can report; the end of the stream is a flag of the filter. *)
Ready(fs) ==
    {[h |-> h, op |-> op, eof |-> h \in Conn /\ conn[h].hup] :
       h \in {g \in Handle : fs[g]["read"] = "on" /\
                CASE g = Updater -> pipe # <<>>
                  [] g = Acceptor -> backlog > 0
                  [] OTHER -> conn[g].input > 0 \/ conn[g].hup}, op \in {"read"}}
    \cup {[h |-> c, op |-> "write", eof |-> conn[c].hup] :
            c \in {d \in Conn : fs[d]["write"] = "on"}}

-----------------------------------------------------------------------------
(* init() ends with a poll_once() that does not block. *)
KqueueInit ==
    LET added == KqueueAdd(KqueueAdd(Blank, Updater, "read"), Acceptor, "read")
    IN  /\ mpx = [added EXCEPT !.queue = <<>>]
        /\ filters = Changed(added.queue, [h \in Handle |-> NoFilter], {Updater, Acceptor}).filters
        /\ events = <<>>

(* poll_once(): kevent() applies the changes and returns, in any order, as  *)
(* many entries as there is room for.                                       *)
Poll ==
    /\ ~exited /\ mpx.running /\ events = <<>>
    /\ LET kernel == Changed(mpx.queue, filters, Open(mpx))
           ready == Ready(kernel.filters)
           room == IF Cardinality(ready) < MaxEvents THEN Cardinality(ready) ELSE MaxEvents
       IN  /\ mpx.queue # <<>> \/ ready # {}
           /\ filters' = kernel.filters
           /\ IF kernel.errors # <<>>
              THEN events' = kernel.errors
              ELSE events' \in SetToAllKPermutations(ready) /\ Len(events') = room
    /\ mpx' = [mpx EXCEPT !.queue = <<>>]
    /\ UNCHANGED <<backend, pipe, asked, exited, backlog, conn, faults>>

(* The next entry of the batch is handled. *)
Handles(h, op, eof) ==
    /\ events # <<>>
    /\ Head(events) = [h |-> h, op |-> op, eof |-> eof]
    /\ events' = Tail(events)

(* Managers that have been removed are destroyed. *)
CloseRemoved(cs) ==
    /\ conn' = Closed(mpx'.managers \cup (ToSet(pipe') \cap Conn), cs)
    /\ filters' = Dropped(filters, mpx'.managers \cup (ToSet(pipe') \cap Conn))

(* EV_EOF removes the manager without a look at what is still to be read.   *)
EndOfFile(h, op) ==
    /\ Handles(h, op, TRUE)
    /\ mpx' = KqueueDel(mpx, h)
    /\ UNCHANGED <<backend, pipe, asked, exited, backlog, faults>>
    /\ CloseRemoved(conn)

(* No manager for the descriptor, a change of the filter 0 that failed, or  *)
(* the writing of a descriptor that only reads.                             *)
Ignored(h, op) ==
    /\ Handles(h, op, FALSE)
    /\ ~HasManager(mpx, h) \/ op = "none" \/ (op = "write" /\ h \notin Conn)
    /\ UNCHANGED <<baseVars, filters>>

(* The updater's handle_read_event(); an entry for a failed change may find *)
(* the pipe empty, which is an error to it.                                 *)
UpdaterReads ==
    /\ Handles(Updater, "read", FALSE) /\ HasManager(mpx, Updater) /\ pipe # <<>>
    /\ pipe' = Tail(pipe)
    /\ mpx' = IF Head(pipe) = "shutdown"
              THEN KqueueResult(KqueueShutdown(mpx), Updater, "read", "done")
              ELSE KqueueAdd(mpx, Head(pipe), "read")
    /\ UNCHANGED <<backend, asked, exited, backlog, faults>>
    /\ CloseRemoved(conn)

(* The acceptor's. *)
AcceptorReads ==
    /\ Handles(Acceptor, "read", FALSE) /\ HasManager(mpx, Acceptor)
    /\ backlog = 1 /\ backlog' = 0
    /\ \E c \in Conn \ Open(mpx) : mpx' = KqueueAdd(mpx, c, "read")
    /\ UNCHANGED <<backend, pipe, asked, exited, conn, faults, filters>>

(* The stream transport's handle_read_event(): what is consumed may be      *)
(* answered.  Nothing to read is a temporary error, "ok" to it.             *)
ConnReads(c) ==
    /\ Handles(c, "read", FALSE) /\ HasManager(mpx, c)
    /\ \E out \in ReadOutcome(c) \cup {[res |-> "ok", left |-> conn[c].input, answers |-> FALSE]} :
         /\ mpx' = KqueueResult(IF out.answers THEN KqueueEnable(mpx, c, "write") ELSE mpx,
                                c, "read", out.res)
         /\ UNCHANGED <<backend, pipe, asked, exited, backlog, faults>>
         /\ CloseRemoved([conn EXCEPT ![c].input = out.left,
                                      ![c].pending = @ \/ out.answers])

(* handle_write_event(). *)
ConnWrites(c, res) ==
    /\ Handles(c, "write", FALSE) /\ HasManager(mpx, c)
    /\ res = "ok" => conn[c].pending
    /\ res = "error" => conn[c].hup
    /\ mpx' = KqueueResult(mpx, c, "write", res)
    /\ UNCHANGED <<backend, pipe, asked, exited, backlog, faults>>
    /\ CloseRemoved([conn EXCEPT ![c].pending = @ /\ res # "done"])

KqueueLoop ==
    \/ Poll \/ UpdaterReads \/ AcceptorReads
    \/ \E h \in Handle :
         \/ \E op \in {"read", "write"} : EndOfFile(h, op)
         \/ \E op \in {"read", "write", "none"} : Ignored(h, op)
    \/ \E c \in Conn : ConnReads(c) \/ \E res \in {"ok", "done", "error"} : ConnWrites(c, res)

KqueueNext ==
    \/ KqueueLoop
    \/ /\ PeerConnect(Open(mpx)) \/ \E c \in Conn : HandOver(c, Open(mpx))
       /\ UNCHANGED <<filters, events>>
=============================================================================
