------------------------------ MODULE TlsLayer ------------------------------
(***************************************************************************)
(* net::tls on both ends of a connection: a layer between a stream         *)
(* transport and an application that passes the bytes of the transport to  *)
(* OpenSSL and back through two memory BIOs.  The protocol itself is       *)
(* OpenSSL's: a handshake of flights that the two sides send in an order   *)
(* both know, then records.  A message (flight, ticket or record) takes    *)
(* two units of the connection, so that it may arrive in part; a byte of   *)
(* the application is its position in what that application sends.         *)
(***************************************************************************)
EXTENDS Integers, Sequences, FiniteSetsExt, SequencesExt

CONSTANTS
    Handshakes,     \* the orders of flights: sequences of sides
    Tickets,        \* how many tickets the server sends after the handshake
    Chunks,         \* how many bytes an application enqueues at once
    MaxProduced,    \* bound: chunks each application has to produce
    MaxReplies,     \* bound: chunks each application enqueues of its own accord
    MayFail         \* the sides that may reject what they receive

Side == {"client", "server"}

ASSUME TlsAssumption ==
    /\ \A h \in Handshakes : h \in Seq(Side) /\ Len(h) > 1 /\ h[1] = "client"
    /\ Tickets \in Nat /\ Chunks \subseteq Nat \ {0}
    /\ MaxProduced \in Nat /\ MaxReplies \in Nat /\ MayFail \subseteq Side

VARIABLES
    flights,    \* the handshake that the two sides will have
    state,      \* "new", "up", "failed", or "removed" when the other side is gone
    steps,      \* how many of the flights a side has sent or taken
    rbio,       \* units from the connection that OpenSSL has not yet used
    wbio,       \* units of OpenSSL that the layer has not yet enqueued
    encrypting, \* encrypt_buf_
    left,       \* chunks the application has still to produce
    replies,    \* chunks it has enqueued of its own accord
    offered,    \* how many bytes it has enqueued in all
    delivered,  \* what its consume() was given
    writing,    \* the transport is registered for writing
    unsent,     \* the transport's write buffer
    wire        \* units on their way from a side to the other one

appVars == <<encrypting, left, replies, offered>>
connVars == <<writing, unsent, wire>>
vars == <<flights, state, steps, rbio, wbio, appVars, delivered, connVars>>

Other(s) == IF s = "client" THEN "server" ELSE "client"

-----------------------------------------------------------------------------
(* OpenSSL. *)

Message(data) ==
    <<[data |-> data, last |-> FALSE], [data |-> data, last |-> TRUE]>>

Empty(n) == FlattenSeq([k \in 1..n |-> Message(<<>>)])

(* How many messages are complete, and a BIO without its first ones. *)
Whole(bio) == Len(bio) \div 2
After(bio, n) == SubSeq(bio, 2 * n + 1, Len(bio))

Finished(s) == steps[s] = Len(flights)

(* SSL_do_handshake(): sends the flights that are due, and takes those that *)
(* have arrived, as far as it gets.                                         *)
FlightsOf(from, s, n) == {k \in (steps[s] + 1)..n : flights[k] = from}

Reached(s, bio) ==
    Max({n \in steps[s]..Len(flights) :
           Cardinality(FlightsOf(Other(s), s, n)) <= Whole(bio)})

Handshake(s, bio) ==
    LET n == Reached(s, bio)
        tickets == IF s = "server" /\ n = Len(flights) /\ ~Finished(s) THEN Tickets ELSE 0
    IN  [steps |-> n,
         rbio |-> After(bio, Cardinality(FlightsOf(Other(s), s, n))),
         wbio |-> Empty(Cardinality(FlightsOf(s, s, n)) + tickets)]

(* SSL_read() until it returns nothing: what the messages decrypt to. *)
Decrypted(bio) == FlattenSeq([k \in 1..Whole(bio) |-> bio[2 * k].data])

-----------------------------------------------------------------------------
Init ==
    /\ flights \in Handshakes
    /\ state = [s \in Side |-> "new"] /\ steps = [s \in Side |-> 0]
    /\ rbio = [s \in Side |-> <<>>] /\ wbio = [s \in Side |-> <<>>]
    /\ encrypting = [s \in Side |-> <<>>]
    /\ left = [s \in Side |-> MaxProduced] /\ replies = [s \in Side |-> 0]
    /\ offered = [s \in Side |-> 0] /\ delivered = [s \in Side |-> <<>>]
    /\ writing = [s \in Side |-> FALSE] /\ unsent = [s \in Side |-> <<>>]
    /\ wire = [s \in Side |-> <<>>]

(* read_all_from_ssl(): what OpenSSL has written goes to the transport,     *)
(* which is registered for writing.                                         *)
ReadAllFromSsl(s, written, registered) ==
    /\ wbio' = [wbio EXCEPT ![s] = <<>>]
    /\ unsent' = [unsent EXCEPT ![s] = @ \o written]
    /\ writing' = [writing EXCEPT ![s] = @ \/ written # <<>> \/ registered]
    /\ UNCHANGED wire

(* The application enqueues n bytes. *)
Chunk(s, n) == [k \in 1..n |-> offered[s] + k]

Enqueue(s, n) ==
    /\ encrypting' = [encrypting EXCEPT ![s] = @ \o Chunk(s, n)]
    /\ offered' = [offered EXCEPT ![s] = @ + n]

(* An application that enqueues outside of produce() registers for writing. *)
Replies(s) ==
    /\ replies[s] < MaxReplies
    /\ replies' = [replies EXCEPT ![s] = @ + 1]
    /\ \E n \in Chunks : Enqueue(s, n)
    /\ UNCHANGED left

-----------------------------------------------------------------------------
(* init(): the client starts the handshake; the application above is        *)
(* initialised, and may enqueue something.                                  *)
Start(s) ==
    /\ state[s] = "new"
    /\ state' = [state EXCEPT ![s] = "up"]
    /\ LET hs == Handshake(s, <<>>)
           sent == IF s = "client" THEN hs.wbio ELSE <<>>
       IN  /\ steps' = [steps EXCEPT ![s] = IF s = "client" THEN hs.steps ELSE @]
           /\ \/ ReadAllFromSsl(s, sent, FALSE) /\ UNCHANGED appVars
              \/ ReadAllFromSsl(s, sent, TRUE) /\ Replies(s)
    /\ UNCHANGED <<flights, rbio, delivered>>

(* Mutant: encrypt_buf_ is emptied before the handshake is done. *)
EncryptAlways(s, plain) ==
    /\ encrypting' = [encrypting EXCEPT ![s] = <<>>]
    /\ ReadAllFromSsl(s, IF Finished(s) /\ plain # <<>> THEN wbio[s] \o Message(plain)
                         ELSE wbio[s], FALSE)

(* encrypt(): nothing until the handshake is done.  SSL_write() makes a     *)
(* record of all there is.                                                  *)
Encrypt(s, plain) ==
    IF Finished(s)
    THEN /\ encrypting' = [encrypting EXCEPT ![s] = <<>>]
         /\ ReadAllFromSsl(s, IF plain = <<>> THEN wbio[s] ELSE wbio[s] \o Message(plain),
                           FALSE)
    ELSE /\ encrypting' = [encrypting EXCEPT ![s] = plain]
         /\ UNCHANGED <<wbio, connVars>>

(* produce(): the application enqueues a chunk if it has one. *)
Produce(s) ==
    /\ state[s] = "up" /\ writing[s]
    /\ \/ /\ left[s] > 0 /\ left' = [left EXCEPT ![s] = @ - 1]
          /\ \E n \in Chunks :
               /\ offered' = [offered EXCEPT ![s] = @ + n]
               /\ Encrypt(s, encrypting[s] \o Chunk(s, n))
       \/ left[s] = 0 /\ Encrypt(s, encrypting[s]) /\ UNCHANGED <<left, offered>>
    /\ UNCHANGED <<flights, state, steps, rbio, replies, delivered>>

(* Mutant: only the application above is asked. *)
NextHasMore(s) == left[s] > 0

HasMoreData(s) == encrypting[s] # <<>> \/ left[s] > 0

(* The transport below has called produce() as often as it wants to; it     *)
(* writes what there is, and is done when there is nothing more to come.    *)
Write(s) ==
    /\ state[s] = "up" /\ writing[s]
    /\ unsent[s] # <<>> \/ ~HasMoreData(s)
    /\ wire' = [wire EXCEPT ![s] = @ \o unsent[s]]
    /\ unsent' = [unsent EXCEPT ![s] = <<>>]
    /\ writing' = [writing EXCEPT ![s] = HasMoreData(s)]
    /\ UNCHANGED <<flights, state, steps, rbio, wbio, appVars, delivered>>

-----------------------------------------------------------------------------
(* consume(): the handshake goes on; when it is done, whatever has been     *)
(* received is decrypted, and what OpenSSL wants to send is passed on.      *)
Arriving(s, n) ==
    /\ state[s] = "up"
    /\ n \in 1..Len(wire[Other(s)])

Received(s, n) == rbio[s] \o SubSeq(wire[Other(s)], 1, n)

Consume(s) ==
    \E n \in 1..Len(wire[Other(s)]) :
      LET hs == Handshake(s, Received(s, n))
          open == hs.steps = Len(flights)
      IN  /\ Arriving(s, n)
          /\ steps' = [steps EXCEPT ![s] = hs.steps]
          /\ rbio' = [rbio EXCEPT ![s] = IF open THEN After(hs.rbio, Whole(hs.rbio))
                                         ELSE hs.rbio]
          /\ LET data == IF open THEN Decrypted(hs.rbio) ELSE <<>>
                 written == wbio[s] \o hs.wbio
             IN  /\ delivered' = [delivered EXCEPT ![s] = @ \o data]
                 /\ wbio' = [wbio EXCEPT ![s] = <<>>]
                 /\ unsent' = [unsent EXCEPT ![s] = @ \o written]
                 /\ \/ /\ writing' = [writing EXCEPT ![s] = @ \/ written # <<>>]
                       /\ UNCHANGED appVars
                    \/ /\ data # <<>> /\ Replies(s)
                       /\ writing' = [writing EXCEPT ![s] = TRUE]
          /\ wire' = [wire EXCEPT ![Other(s)] = SubSeq(@, n + 1, Len(@))]
          /\ UNCHANGED <<flights, state>>

(* OpenSSL rejects a message: the error removes the manager, and the alert  *)
(* that OpenSSL has written for the other side stays in wbio_.  Records     *)
(* before the rejected one have been consumed.                              *)
ConsumeFails(s) ==
    \E n \in 1..Len(wire[Other(s)]) :
      LET all == Received(s, n)
      IN  /\ Arriving(s, n) /\ s \in MayFail /\ Whole(all) > 0
          /\ \E k \in 0..(Whole(all) - 1) :
               LET hs == Handshake(s, SubSeq(all, 1, 2 * k))
               IN  delivered' = [delivered EXCEPT ![s] =
                                   IF hs.steps = Len(flights) THEN @ \o Decrypted(hs.rbio)
                                   ELSE @]
          /\ state' = [state EXCEPT ![s] = "failed"]
          /\ wbio' = [wbio EXCEPT ![s] = @ \o Message(<<>>)]
          /\ UNCHANGED <<flights, steps, rbio, appVars, connVars>>

(* The other side has closed the connection; nothing tells whether it had   *)
(* sent all it wanted to, since nobody calls SSL_shutdown().                *)
EndOfStream(s) ==
    /\ state[s] = "up" /\ wire[Other(s)] = <<>>
    /\ state[Other(s)] \in {"failed", "removed"}
    /\ state' = [state EXCEPT ![s] = "removed"]
    /\ UNCHANGED <<flights, steps, rbio, wbio, appVars, delivered, connVars>>

(* handle_timeout() of the application, which may enqueue something. *)
HandleTimeout(s) ==
    /\ state[s] = "up" /\ Replies(s)
    /\ writing' = [writing EXCEPT ![s] = TRUE]
    /\ UNCHANGED <<flights, state, steps, rbio, wbio, delivered, unsent, wire>>

Next ==
    \E s \in Side :
      \/ Start(s) \/ Produce(s) \/ Write(s)
      \/ Consume(s) \/ ConsumeFails(s) \/ EndOfStream(s)
      \/ HandleTimeout(s)

(* The loop of each side calls the handlers of what is ready. *)
Spec ==
    /\ Init /\ [][Next]_vars
    /\ \A s \in Side :
         WF_vars(Start(s)) /\ WF_vars(Produce(s)) /\ WF_vars(Write(s)) /\ WF_vars(Consume(s))

-----------------------------------------------------------------------------
(* Properties.                                                              *)

(* Refinement, once for each direction: what the applications enqueue, in   *)
(* their init(), in produce() or later, before the handshake is done or     *)
(* after it, is consumed on the other side, in order and once.              *)
ToServer == INSTANCE ByteStream WITH
              offered <- offered["client"], delivered <- delivered["server"]
ToClient == INSTANCE ByteStream WITH
              offered <- offered["server"], delivered <- delivered["client"]

PlainInOrder == ToServer!Spec /\ ToClient!Spec

(* Unless a side fails, the handshake comes to its end on both sides, and   *)
(* from then on everything enqueued arrives, whoever enqueued it first and  *)
(* however the units of the connection are cut into reads: no side waits    *)
(* for a flight that the other one holds back.                              *)
Broken == \E s \in Side : state[s] \in {"failed", "removed"}

EverythingArrives ==
    /\ <>(Broken \/ \A s \in Side : Finished(s))
    /\ \A s \in Side :
         Len(delivered[Other(s)]) < offered[s]
           ~> Broken \/ Len(delivered[Other(s)]) = offered[s]
=============================================================================
