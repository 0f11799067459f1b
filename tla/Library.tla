------------------------------ MODULE Library ------------------------------
(***************************************************************************)
(* The parts of the library that do not need an event loop.  They share no *)
(* state: a behaviour belongs to one of them.                              *)
(***************************************************************************)
EXTENDS Ownership, SocketGuards, BinaryCodec, CommandLine, ConfigFile, Addresses

VARIABLE part

vars == <<part, ownershipVars, guardVars, codecVars, cliVars, configVars, addressVars>>

Init ==
    /\ part \in {"ownership", "guards", "codec", "options", "config", "addresses"}
    /\ OwnershipInit /\ GuardsInit /\ CliInit /\ ConfigInit
    /\ IF part = "codec" THEN CodecInit
       ELSE /\ buf = <<>> /\ free = 0 /\ overrun = FALSE /\ written = <<>>
            /\ reader = [bytes |-> <<>>, got |-> <<>>, state |-> "none", less |-> FALSE]
    /\ IF part = "addresses" THEN AddressesInit
       ELSE origin = <<>> /\ form = "none" /\ thing = <<>> /\ given = <<>> /\ hops = 0

Next ==
    \/ /\ part = "ownership" /\ OwnershipNext
       /\ UNCHANGED <<part, guardVars, codecVars, cliVars, configVars, addressVars>>
    \/ /\ part = "guards" /\ GuardsNext
       /\ UNCHANGED <<part, ownershipVars, codecVars, cliVars, configVars, addressVars>>
    \/ /\ part = "codec" /\ CodecNext
       /\ UNCHANGED <<part, ownershipVars, guardVars, cliVars, configVars, addressVars>>
    \/ /\ part = "options" /\ CliNext
       /\ UNCHANGED <<part, ownershipVars, guardVars, codecVars, configVars, addressVars>>
    \/ /\ part = "config" /\ ConfigNext
       /\ UNCHANGED <<part, ownershipVars, guardVars, codecVars, cliVars, addressVars>>
    \/ /\ part = "addresses" /\ AddressesNext
       /\ UNCHANGED <<part, ownershipVars, guardVars, codecVars, cliVars, configVars>>

Spec == Init /\ [][Next]_vars
=============================================================================
