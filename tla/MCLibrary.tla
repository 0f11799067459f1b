----------------------------- MODULE MCLibrary -----------------------------
(* Instances of the library's parts for TLC. *)
EXTENDS Library

(* Serializer: a number, texts, and texts in pairs in a list; each list     *)
(* also as a container with room for one element.                           *)
MCByte == [kind |-> "flat", depth |-> 0, size |-> 1]
MCShort == [kind |-> "flat", depth |-> 0, size |-> 2]
List(type, room) == [kind |-> "list", depth |-> type.depth + 1, of |-> type, room |-> room]
MCText == List(MCByte, -1)
MCPair == [kind |-> "tuple", depth |-> 2, of |-> <<MCShort, MCText>>]
MCPairs == List(MCPair, -1)
MCTypes == {MCByte, MCShort, MCText, List(MCByte, 1), MCPair, MCPairs, List(MCPair, 1)}
Arg(type, value) == [type |-> type, value |-> value]
MCCalls ==
    { <<>>,
      << Arg(MCShort, <<1, 2>>) >>,
      << Arg(MCText, <<>>), Arg(MCByte, <<3>>) >>,
      << Arg(MCText, << <<4>>, <<5>> >>) >>,
      << Arg(MCPairs, << << <<6, 7>>, << <<8>> >> >>, << <<9, 10>>, <<>> >> >>) >> }
WithMembers(S) == S \cup UNION {Range(Members(x)) : x \in {y \in S : y.type.kind # "flat"}}
MCThings == WithMembers(WithMembers(WithMembers(UNION {Range(c) : c \in MCCalls})))
MCOldBytes == {0, 1, 3}

(* Command line: two names of which one starts with the other, options      *)
(* without a name or without a character, values.                           *)
Option(id, long, short, value) == [id |-> id, long |-> long, short |-> short, value |-> value]
MCKnown ==
    { Option("all", <<"a">>, "a", FALSE), Option("abs", <<"a", "b">>, "b", FALSE),
      Option("out", <<"o">>, "o", TRUE), Option("in", <<"i">>, "none", TRUE),
      Option("quiet", <<>>, "q", FALSE), Option("formless", <<>>, "none", FALSE) }
LongArg(name, vals) == [form |-> "long", text |-> name, values |-> vals]
OtherArg(kind, chars) == [form |-> kind, text |-> chars, values |-> <<>>]
MCArgs ==
    { LongArg(<<"a">>, <<>>), LongArg(<<"o">>, << <<"x">> >>), LongArg(<<"i">>, <<>>),
      OtherArg("short", <<"a", "o">>), OtherArg("short", <<"o", "x">>),
      OtherArg("short", <<"q", "o", "a">>), OtherArg("word", <<"x">>) }
MCNames == {OtherArg("word", <<"x">>), LongArg(<<"a">>, <<>>)}
MCLines == UNION {[1..n -> MCArgs] : n \in 0..3}

(* Configuration: every file of two lines, and some with scopes. *)
Mark(kind, name) ==
    [kind |-> kind, name |-> name, form |-> "none", fits |-> TRUE, value |-> "none"]
Entry(name, shape, fits, value) ==
    [kind |-> "entry", name |-> name, form |-> shape, fits |-> fits, value |-> value]
OpenX == Mark("open", "x")
OpenY == Mark("open", "y")
Close == Mark("close", "none")
One == Entry("x", "digits", TRUE, "1")
Negative == Entry("x", "text", TRUE, "-1")
MCFileLines ==
    { Mark("blank", "none"), OpenX, OpenY, Close, Mark("malformed", "none"), One, Negative,
      Entry("y", "digits and a dot", FALSE, "."), Entry("y", "true or false", TRUE, "true") }
MCFiles ==
    UNION {[1..n -> MCFileLines] : n \in 0..2} \cup
    { <<OpenX, OpenY, Close, One>>,
      <<OpenX, OpenY, Close, One, Close, One>>,
      <<OpenX, One, Close, OpenX, Negative, Mark("blank", "none"), One>>,
      <<OpenY, Negative, OpenX, One, Close, Close, Close, One>> }
MCAdded ==
    { [key |-> <<"x">>, type |-> "bool", value |-> "true"],
      [key |-> <<"x", "y">>, type |-> "string", value |-> "text"] }

(* Addresses. *)
MCOctets == {0, 255}
MCPorts == {0, 80, 65535}
MCWords == {<<>>, <<"a">>, <<"a", "b">>}
=============================================================================
