---------------------------- MODULE CommandLine ----------------------------
(***************************************************************************)
(* util::cli_parser: the program registers options and parses a command    *)
(* line.  An argument is a long form, --name=value=..., a short form,      *)
(* -chars, or a word; names and words are sequences of letters.            *)
(***************************************************************************)
EXTENDS Integers, Sequences, SequencesExt, Positions

CONSTANTS
    Known,        \* the options there are: id, long, short, value
    NoShort,      \* no_shortform; no_longform is the empty name
    Names,        \* the first arguments, taken for the name of the program
    Lines,        \* the arguments after the first one
    MaxOptions    \* bound: the options registered

(* With not_equal_to as its order, the set compares an option with the path *)
(* that leads to its place only: with all of them up to the third option.   *)
ASSUME CliAssumption ==
    /\ MaxOptions \in 0..3
    /\ \A l \in Lines :
         /\ l \in Seq(Range(l))
         /\ \A k \in DOMAIN l : /\ l[k].text \in Seq(Range(l[k].text))
                                /\ NoShort \notin Range(l[k].text)

VARIABLES
    options,   \* options_ in the order of iteration
    program,   \* program_name_: the first argument, whatever it is
    line,      \* the arguments after it
    args,      \* the arguments that remain
    parsed,    \* parsed_: the values by the id of the option
    stage      \* "register", "parse", "done", "threw"

cliVars == <<options, program, line, args, parsed, stage>>

CliInit ==
    /\ options = <<>> /\ program = <<>> /\ line = <<>> /\ args = <<>>
    /\ parsed = [id \in {} |-> <<>>] /\ stage = "register"

-----------------------------------------------------------------------------
(* operator== of two options. *)
Same(o, p) ==
    \/ o.id = p.id
    \/ o.long = p.long /\ o.long # <<>>
    \/ o.short = p.short /\ o.short # NoShort

(* An option without any form cannot be constructed. *)
HasForm(o) == o.long # <<>> \/ o.short # NoShort

ConstructFails(o) ==
    /\ stage = "register" /\ ~HasForm(o)
    /\ stage' = "threw"
    /\ UNCHANGED <<options, program, line, args, parsed>>

(* register_option(): whatever is not the same goes before everything.      *)
Register(o) ==
    /\ stage = "register" /\ Len(options) < MaxOptions /\ HasForm(o)
    /\ ~ \E k \in DOMAIN options : Same(o, options[k])
    /\ options' = <<o>> \o options
    /\ UNCHANGED <<program, line, args, parsed, stage>>

(* register_option() of one that is contained already throws. *)
RegisterAgain(o) ==
    /\ stage = "register" /\ HasForm(o)
    /\ \E k \in DOMAIN options : Same(o, options[k])
    /\ stage' = "threw"
    /\ UNCHANGED <<options, program, line, args, parsed>>

(* Both parse(argc, argv) and parse(args) drop the first argument.          *)
StartParse ==
    /\ stage = "register" /\ stage' = "parse"
    /\ program' \in Names /\ line' \in Lines /\ args' = line'
    /\ UNCHANGED <<options, parsed>>

(* emplace(): an option that was there before keeps its values. *)
Noted(p, o) == IF o.id \in DOMAIN p THEN p
               ELSE [id \in DOMAIN p \cup {o.id} |-> IF id = o.id THEN <<>> ELSE p[id]]
WithValue(p, o, v) == [Noted(p, o) EXCEPT ![o.id] = Append(@, v)]

(* Mutant: the name may be the start of that of the option. *)
MatchesAbbreviation(o, name) == IsPrefix(name, o.long)

(* longform.starts_with(opt.longform_). *)
Matches(o, name) == IsPrefix(o.long, name)

(* std::find_if() over options_; the first one found counts. *)
FoundLong(name) == {k \in DOMAIN options : Matches(options[k], name)}
FoundShort(c) == {k \in DOMAIN options : options[k].short = c}
FirstOf(found) == options[Nth(found, 1)]

(* parse_longform_opt(). *)
ParseLong ==
    /\ stage = "parse" /\ args # <<>> /\ Head(args).form = "long"
    /\ LET arg == Head(args)
           found == FoundLong(arg.text)
           o == FirstOf(found)
       IN  CASE found = {} -> UNCHANGED <<parsed, stage>>
             [] found # {} /\ ~o.value -> parsed' = Noted(parsed, o) /\ UNCHANGED stage
             [] found # {} /\ o.value /\ Len(arg.values) = 1 ->
                  parsed' = WithValue(parsed, o, arg.values[1]) /\ UNCHANGED stage
             [] found # {} /\ o.value /\ Len(arg.values) # 1 ->
                  parsed' = Noted(parsed, o) /\ stage' = "threw"
    /\ args' = Tail(args)
    /\ UNCHANGED <<options, program, line>>

(* One turn of the loop of parse_shortform_opt(): a value is the rest of    *)
(* the characters, which are options as well, or the next argument.         *)
ShortTurn(chars, acc, i) ==
    LET found == FoundShort(chars[i])
        o == FirstOf(found)
    IN  CASE acc.stop \/ found = {} -> [acc EXCEPT !.stop = TRUE]
          [] ~acc.stop /\ found # {} /\ ~o.value -> [acc EXCEPT !.parsed = Noted(@, o)]
          [] ~acc.stop /\ found # {} /\ o.value /\ i < Len(chars) ->
               [acc EXCEPT !.parsed = WithValue(@, o, SubSeq(chars, i + 1, Len(chars)))]
          [] ~acc.stop /\ found # {} /\ o.value /\ i = Len(chars) ->
               IF Len(acc.args) < 2 \/ acc.args[2].form # "word"
               THEN [acc EXCEPT !.parsed = Noted(@, o), !.threw = TRUE]
               ELSE [acc EXCEPT !.parsed = WithValue(@, o, acc.args[2].text),
                                !.args = Tail(@)]

AfterTurns(chars) ==
    LET turn[i \in 0..Len(chars)] ==
          IF i = 0 THEN [parsed |-> parsed, args |-> args, stop |-> FALSE, threw |-> FALSE]
          ELSE ShortTurn(chars, turn[i - 1], i)
    IN  turn[Len(chars)]

ParseShort ==
    /\ stage = "parse" /\ args # <<>> /\ Head(args).form = "short"
    /\ LET acc == AfterTurns(Head(args).text)
       IN  /\ parsed' = acc.parsed /\ args' = Tail(acc.args)
           /\ stage' = IF acc.threw THEN "threw" ELSE stage
    /\ UNCHANGED <<options, program, line>>

SkipWord ==
    /\ stage = "parse" /\ args # <<>> /\ Head(args).form = "word"
    /\ args' = Tail(args)
    /\ UNCHANGED <<options, program, line, parsed, stage>>

EndParse ==
    /\ stage = "parse" /\ args = <<>> /\ stage' = "done"
    /\ UNCHANGED <<options, program, line, args, parsed>>

(* What a program asks after parse(); option_values() of an option that is  *)
(* not contained throws.                                                    *)
ContainsOption(id) == id \in DOMAIN parsed
OptionValues(id) == parsed[id]

CliNext ==
    \/ StartParse \/ ParseLong \/ ParseShort \/ SkipWord \/ EndParse
    \/ \E o \in Known : ConstructFails(o) \/ Register(o) \/ RegisterAgain(o)

CliSpec == CliInit /\ [][CliNext]_cliVars

-----------------------------------------------------------------------------
(* Properties.                                                              *)

IsShort(opts, c) == \E o \in Range(opts) : o.short = c
TakesRest(opts, c) == \E o \in Range(opts) : o.short = c /\ o.value

(* The command line l can be read in one way only: no name starts with that *)
(* of another option, and nothing that is a value could be an option.       *)
Unambiguous(opts, l) ==
    /\ \A o, p \in Range(opts) : o # p => ~IsPrefix(o.long, p.long)
    /\ \A k \in DOMAIN l : l[k].form = "long" =>
         \A o \in Range(opts) : IsPrefix(o.long, l[k].text) => o.long = l[k].text
    /\ \A k \in DOMAIN l : l[k].form = "short" =>
         \A i, j \in DOMAIN l[k].text :
            i < j /\ TakesRest(opts, l[k].text[i]) => ~IsShort(opts, l[k].text[j])

(* Where, in its k-th argument, the command line names the option o. *)
NamedAt(opts, l, o, k) ==
    {i \in 0..Len(l[k].text) :
       \/ l[k].form = "long" /\ l[k].text = o.long /\ i = 0
       \/ /\ l[k].form = "short" /\ i # 0 /\ l[k].text[i] = o.short
          /\ \A j \in 1..(i - 1) : IsShort(opts, l[k].text[j])}

(* The value for o in the k-th argument, and those in the first n of them.  *)
ValueAt(opts, l, o, k) ==
    LET i == CHOOSE j \in NamedAt(opts, l, o, k) : TRUE
    IN  IF l[k].form = "long" THEN l[k].values[1]
        ELSE IF i = Len(l[k].text) THEN l[k + 1].text
        ELSE SubSeq(l[k].text, i + 1, Len(l[k].text))

GivenAt(opts, l, o, n) == {k \in 1..n : o.value /\ NamedAt(opts, l, o, k) # {}}

Given(opts, l, o, n) ==
    [m \in 1..Cardinality(GivenAt(opts, l, o, n)) |->
       ValueAt(opts, l, o, Nth(GivenAt(opts, l, o, n), m))]

(* When a command line that can be read in one way has been parsed, an      *)
(* option is contained exactly if it was given, and it has exactly the      *)
(* values that were given for it, in their order.                           *)
OptionsFound ==
    stage = "done" /\ Unambiguous(options, line) =>
      \A o \in Range(options) :
        /\ ContainsOption(o.id) <=> \E k \in DOMAIN line : NamedAt(options, line, o, k) # {}
        /\ ContainsOption(o.id) => OptionValues(o.id) = Given(options, line, o, Len(line))

(* "The arguments to parse (typically argv without program name)", says     *)
(* cli_parser.hpp:115 of parse(args): then the first one is an option, too. *)
FirstParsed ==
    \A o \in Range(options) :
      stage = "done" /\ program.form = "long" /\ program.text = o.long => ContainsOption(o.id)
=============================================================================
