----------------------------- MODULE Addresses -----------------------------
(***************************************************************************)
(* net::ip::v4_address and v4_endpoint, net::uri, and the sockets that use *)
(* them: the way of an endpoint from a text into the program, through the  *)
(* socket API, and back.  A text is the sequence of its tokens; one is a   *)
(* delimiter, a word, or a number: -1 if from_chars() does not take it.    *)
(***************************************************************************)
EXTENDS Integers, Sequences, SequencesExt, Positions

CONSTANTS
    Octets,     \* the octets of addresses
    Ports,      \* the ports, and the other numbers in a text
    Words,      \* the paths, the queries and the fragments of URIs
    MaxHops     \* bound: the conversions that an endpoint goes through

(* The limits of std::uint8_t and std::uint16_t. *)
MaxOctet == 255
MaxPort == 65535

ASSUME AddressAssumption ==
    /\ Octets \subseteq 0..MaxOctet /\ Ports \subseteq 0..MaxPort /\ MaxHops \in Nat
    /\ \A words \in Words : words \in Seq(Range(words))

VARIABLES
    origin,    \* the text at the start
    form,      \* "text", "endpoint", "sockaddr", "uri text", "uri", "bound", "error"
    thing,     \* what the origin has become
    given,     \* the parts that a URI has been composed of
    hops       \* the conversions so far

addressVars == <<origin, form, thing, given, hops>>

Number(n) == [token |-> "number", is |-> n]
Word(w) == [token |-> "word", is |-> w]
Delim(d) == [token |-> d, is |-> 0]

-----------------------------------------------------------------------------
(* to_string(). *)
AddressText(a) ==
    <<Number(a[1]), Delim("."), Number(a[2]), Delim("."),
      Number(a[3]), Delim("."), Number(a[4])>>

Text(ep) == AddressText(ep.address) \o <<Delim(":"), Number(ep.port)>>

(* split(): the texts between the delimiters. *)
Cuts(text, d) == {0, Len(text) + 1} \cup {i \in DOMAIN text : text[i].token = d}

Split(text, d) ==
    LET cut == [k \in 1..Cardinality(Cuts(text, d)) |-> Nth(Cuts(text, d), k)]
    IN  [k \in 1..(Cardinality(Cuts(text, d)) - 1) |-> SubSeq(text, cut[k] + 1, cut[k + 1] - 1)]

(* Mutant: the number may be too large for the type. *)
IsNumberAtAll(text, max) == Len(text) = 1 /\ text[1].token = "number" /\ text[1].is >= 0

(* util::parse(): a number of the type, and nothing else.  (It takes zeros  *)
(* in front of a number, too; numbers here have none.)                      *)
IsNumber(text, max) ==
    Len(text) = 1 /\ text[1].token = "number" /\ text[1].is \in 0..max

(* parse_v4_address(): exactly four octets. *)
IsAddress(text) ==
    LET parts == Split(text, ".")
    IN  Len(parts) = 4 /\ \A i \in 1..4 : IsNumber(parts[i], MaxOctet)

(* parse_v4_endpoint(): exactly an address and a port. *)
IsEndpoint(text) ==
    LET parts == Split(text, ":")
    IN  Len(parts) = 2 /\ IsAddress(parts[1]) /\ IsNumber(parts[2], MaxPort)

EndpointOf(text) ==
    LET parts == Split(text, ":")
        octets == Split(parts[1], ".")
    IN  [address |-> [i \in 1..4 |-> octets[i][1].is], port |-> parts[2][1].is]

(* htons() and ntohs() where the low byte comes first; an address is kept   *)
(* in the order of the network.                                             *)
Swapped(port) == (port % 256) * 256 + port \div 256

AnyAddress == <<0, 0, 0, 0>>

ToSockaddr(ep) == [address |-> ep.address, port |-> Swapped(ep.port)]
FromSockaddr(saddr) == [address |-> saddr.address, port |-> Swapped(saddr.port)]

-----------------------------------------------------------------------------
(* One token of a text is replaced, left out or doubled. *)
Damaged(text) ==
    UNION {{ReplaceAt(text, i, Number(n)) : n \in {-1, 256} \cup Ports}
           \cup {ReplaceAt(text, i, Delim(":")), RemoveAt(text, i), InsertAt(text, i, text[i])}
           : i \in DOMAIN text}

AddressesInit ==
    /\ \E a \in [1..4 -> Octets], p \in Ports :
         LET text == Text([address |-> a, port |-> p])
         IN  origin \in {text} \cup Damaged(text)
    /\ form = "text" /\ thing = origin /\ given = <<>> /\ hops = 0

Converts(from, to) ==
    /\ form = from /\ form' = to
    /\ hops < MaxHops /\ hops' = hops + 1
    /\ UNCHANGED origin

ParseEndpoint ==
    /\ IF form = "text" /\ IsEndpoint(thing)
       THEN Converts("text", "endpoint") /\ thing' = EndpointOf(thing)
       ELSE Converts("text", "error") /\ thing' = <<>>
    /\ UNCHANGED given

ToText == Converts("endpoint", "text") /\ thing' = Text(thing) /\ UNCHANGED given

(* bind(), connect() and sendto(); and the source that recvfrom() reports.  *)
PassToKernel ==
    Converts("endpoint", "sockaddr") /\ thing' = ToSockaddr(thing) /\ UNCHANGED given

ReceiveFromKernel ==
    Converts("sockaddr", "endpoint") /\ thing' = FromSockaddr(thing) /\ UNCHANGED given

(* port_of(): getsockname() and ntohs(). *)
PortOf(saddr) == FromSockaddr(saddr).port

(* What bind() may bind to: for port 0 the kernel picks one.                *)
BoundTo(saddr) ==
    IF saddr.port # 0 THEN {saddr}
    ELSE {ToSockaddr([address |-> saddr.address, port |-> p]) : p \in Ports \ {0}}

(* make_udp_datagram_socket(port): passes htons(port) to bind(), which      *)
(* swaps it again; port_of() reports what it has been bound to.             *)
BindUdp ==
    /\ Converts("endpoint", "bound") /\ UNCHANGED given
    /\ \E saddr \in BoundTo(ToSockaddr([address |-> AnyAddress, port |-> Swapped(thing.port)])) :
         thing' = [asked |-> thing.port, inKernel |-> saddr.port, reported |-> PortOf(saddr)]

-----------------------------------------------------------------------------
(* A URI is composed around the text of an endpoint. *)
Parts(delim, words) ==
    [i \in 1..(2 * Len(words)) |->
       IF i % 2 = 1 THEN Delim(delim) ELSE Word(words[i \div 2])]

ComposeUri ==
    /\ Converts("text", "uri text")
    /\ \E path, queries, fragments \in Words :
         /\ given' = [path |-> path, queries |-> queries, fragments |-> fragments]
         /\ thing' = <<Word("scheme"), Delim("://")>> \o thing \o Parts("/", path)
                     \o Parts("?", queries) \o Parts("#", fragments)

TextsOf(parts) == [i \in 1..(Len(parts) - 1) |-> parts[i + 1][1].is]

(* The constructor: extract_parts() from the back, then the authority. *)
ParseUri ==
    LET fragments == Split(Last(Split(thing, "://")), "#")
        queries == Split(fragments[1], "?")
        path == Split(queries[1], "/")
    IN  /\ IF form = "uri text" /\ Len(Split(thing, "://")) <= 2 /\ IsEndpoint(path[1])
           THEN /\ Converts("uri text", "uri")
                /\ thing' = [auth |-> EndpointOf(path[1]), path |-> TextsOf(path),
                             queries |-> TextsOf(queries), fragments |-> TextsOf(fragments)]
           ELSE Converts("uri text", "error") /\ thing' = <<>>
        /\ UNCHANGED given

Authority == Converts("uri", "endpoint") /\ thing' = thing.auth /\ UNCHANGED given

AddressesNext ==
    \/ ParseEndpoint \/ ToText \/ PassToKernel \/ ReceiveFromKernel \/ BindUdp
    \/ ComposeUri \/ ParseUri \/ Authority

AddressesSpec == AddressesInit /\ [][AddressesNext]_addressVars

-----------------------------------------------------------------------------
(* Properties.                                                              *)

(* Exactly the texts that name an endpoint are accepted, alone or in a URI; *)
(* whatever way the endpoint then takes, it stays the one that the text     *)
(* named; the parts of a URI are those it was composed of; and what is sent *)
(* to the port that is reported for a datagram socket arrives where it is   *)
(* bound, also if the kernel has picked the port.                           *)
EndpointKept ==
    /\ form = "endpoint" =>
         /\ origin = Text(thing)
         /\ thing.address \in [1..4 -> 0..MaxOctet] /\ thing.port \in 0..MaxPort
    /\ form = "error" => \A a \in [1..4 -> Octets], p \in Ports :
                            origin # Text([address |-> a, port |-> p])
    /\ form = "uri" =>
         /\ origin = Text(thing.auth)
         /\ [path |-> thing.path, queries |-> thing.queries, fragments |-> thing.fragments] = given
    /\ form = "bound" =>
         /\ thing.reported # 0
         /\ ToSockaddr([address |-> AnyAddress, port |-> thing.reported]).port = thing.inKernel

(* "The port number to bind to (0 for automatic assignment)", says          *)
(* udp_datagram_socket.hpp:39 of the parameter of the function.             *)
BoundAsAsked == form = "bound" /\ thing.asked # 0 => thing.reported = thing.asked
=============================================================================
