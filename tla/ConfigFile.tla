----------------------------- MODULE ConfigFile -----------------------------
(***************************************************************************)
(* util::config: the entries of a program's configuration, which come from *)
(* a file, line by line, or are added one at a time.  An entry is known by *)
(* its type and its value; in the file a value has a form, and may not fit *)
(* the type that the form stands for.                                      *)
(***************************************************************************)
EXTENDS Integers, Sequences, SequencesExt, Positions

CONSTANTS
    FileLines,   \* the lines of files: kind, name, form, fits, value
    Files,       \* the files, sequences of such lines
    Added,       \* the entries the program adds: key, type, value
    MaxAdded,    \* bound: how many it adds before and after each file
    MaxParsed    \* bound: how many files replace what there was

LineKinds == {"blank", "open", "close", "entry", "malformed"}

ASSUME ConfigAssumption ==
    /\ \A l \in FileLines : l.kind \in LineKinds
    /\ \A f \in Files : f \in Seq(FileLines)
    /\ MaxAdded \in Nat /\ MaxParsed \in Nat

VARIABLES
    values,     \* config_values_: [type, value] by key
    file,       \* the file that is parsed, <<>> if none is
    at,         \* the line that is next, 0 if no file is parsed
    prefix,     \* the names of the scopes that are open
    dict,       \* the dictionary of parse_file()
    crashed,    \* a scope was closed that had not been opened: undefined
    history,    \* what values is made of: a file, and entries added to it
    earlier     \* what values was made of before, since each of the files

configVars == <<values, file, at, prefix, dict, crashed, history, earlier>>

NoEntries == [key \in {} |-> 0]

ConfigInit ==
    /\ values = NoEntries /\ file = <<>> /\ at = 0
    /\ prefix = <<>> /\ dict = NoEntries /\ crashed = FALSE
    /\ history = [file |-> <<>>, added |-> <<>>] /\ earlier = <<>>

-----------------------------------------------------------------------------
(* emplace(): the first entry of a key stays. *)
Emplace(d, key, entry) ==
    IF key \in DOMAIN d THEN d
    ELSE [k \in DOMAIN d \cup {key} |-> IF k = key THEN entry ELSE d[k]]

(* What is_bool(), is_double() and is_integer() make of a form. *)
TypeOf(form) ==
    CASE form = "true or false" -> "bool"
      [] form = "digits" -> "int64_t"
      [] form = "digits and a dot" -> "double"
      [] OTHER -> "string"

(* add_entry() throws if from_chars() does not take all of the value: it    *)
(* has too many digits, or none.                                            *)
Fits(l) == TypeOf(l.form) \in {"int64_t", "double"} => l.fits

(* config(path) and parse(path); the constructor and parse() differ only in *)
(* what there was before.                                                   *)
StartFile ==
    /\ at = 0 /\ ~crashed /\ Len(earlier) < MaxParsed
    /\ file' \in Files /\ at' = 1
    /\ UNCHANGED <<values, prefix, dict, crashed, history, earlier>>

Line == file[at]

Reads(kind) == at \in DOMAIN file /\ ~crashed /\ Line.kind = kind

SkipBlank ==
    /\ Reads("blank") /\ at' = at + 1
    /\ UNCHANGED <<values, file, prefix, dict, crashed, history, earlier>>

OpenScope ==
    /\ Reads("open") /\ at' = at + 1
    /\ prefix' = Append(prefix, Line.name)
    /\ UNCHANGED <<values, file, dict, crashed, history, earlier>>

(* Mutant: the brace closes all the scopes. *)
PoppedAll(p) == <<>>

(* The prefix shrinks by the length on top of the stack. *)
Popped(p) == Front(p)

CloseScope ==
    /\ Reads("close") /\ at' = at + 1
    /\ IF prefix = <<>> THEN crashed' = TRUE /\ UNCHANGED prefix
       ELSE prefix' = Popped(prefix) /\ UNCHANGED crashed
    /\ UNCHANGED <<values, file, dict, history, earlier>>

(* parse_line(). *)
ReadEntry ==
    /\ Reads("entry") /\ Fits(Line) /\ at' = at + 1
    /\ dict' = Emplace(dict, Append(prefix, Line.name),
                       [type |-> TypeOf(Line.form), value |-> Line.value])
    /\ UNCHANGED <<values, file, prefix, crashed, history, earlier>>

NoFile == at' = 0 /\ file' = <<>> /\ prefix' = <<>> /\ dict' = NoEntries

(* The exception leaves the object as it was. *)
Throw ==
    /\ Reads("malformed") \/ (Reads("entry") /\ ~Fits(Line))
    /\ NoFile
    /\ UNCHANGED <<values, crashed, history, earlier>>

(* The dictionary of the file is assigned: what there was before is gone.   *)
EndFile ==
    /\ at = Len(file) + 1 /\ ~crashed
    /\ values' = dict
    /\ history' = [file |-> file, added |-> <<>>] /\ earlier' = Append(earlier, history)
    /\ NoFile
    /\ UNCHANGED crashed

AddConfigEntry ==
    /\ at = 0 /\ Len(history.added) < MaxAdded
    /\ \E e \in Added :
         /\ values' = Emplace(values, e.key, [type |-> e.type, value |-> e.value])
         /\ history' = [history EXCEPT !.added = Append(@, e)]
    /\ UNCHANGED <<file, at, prefix, dict, crashed, earlier>>

ConfigNext ==
    \/ StartFile \/ SkipBlank \/ OpenScope \/ CloseScope \/ ReadEntry \/ Throw
    \/ EndFile \/ AddConfigEntry

ConfigSpec == ConfigInit /\ [][ConfigNext]_configVars

(* has_entry<T>(), and what get<T>() and get_or<T>() find.                  *)
HasEntry(type, key) == key \in DOMAIN values /\ values[key].type = type

TryGet(type, key, nothing) == IF HasEntry(type, key) THEN values[key].value ELSE nothing

-----------------------------------------------------------------------------
(* Properties.                                                              *)

(* The lines of the file f that open a scope around its line i: those whose *)
(* scope is not closed before i.                                            *)
Num(f, kind, j, k) == Cardinality({m \in j..k : f[m].kind = kind})
Around(f, i) ==
    {j \in 1..(i - 1) :
       /\ f[j].kind = "open"
       /\ \A k \in j..(i - 1) : Num(f, "open", j, k) > Num(f, "close", j, k)}

Scopes(f, i) == [n \in 1..Cardinality(Around(f, i)) |-> f[Nth(Around(f, i), n)].name]

InFile(f, i) == [key |-> Append(Scopes(f, i), f[i].name),
                 type |-> TypeOf(f[i].form), value |-> f[i].value]

(* The entries that were met, in their order: the lines of a file before i, *)
(* and what was added after that.                                           *)
MetIn(f, i) == [n \in {k \in 1..(i - 1) : f[k].kind = "entry"} |-> InFile(f, n)]
Met(h) ==
    LET f == h.file
        added == h.added
        lines == MetIn(f, Len(f) + 1)
    IN  [n \in DOMAIN lines \cup {Len(f) + k : k \in DOMAIN added} |->
           IF n \in DOMAIN f THEN lines[n] ELSE added[n - Len(f)]]

Keys(h) == {Met(h)[n].key : n \in DOMAIN Met(h)}

(* Every entry of the file that was parsed last, and every one added since  *)
(* then, is found under the names of the scopes around it, with the type of *)
(* its form and not with another one; the first of several entries of a key *)
(* counts; and no entry comes from elsewhere: what a file that cannot be    *)
(* parsed has in front of its fault is not found.                           *)
EntriesScoped ==
    /\ DOMAIN values \subseteq Keys(history) \cup UNION {Keys(h) : h \in Range(earlier)}
    /\ LET met == Met(history)
       IN  \A n \in DOMAIN met :
             (\A m \in DOMAIN met : m < n => met[m].key # met[n].key) =>
               \A type \in {"bool", "int64_t", "double", "string"} :
                 TryGet(type, met[n].key, "nothing")
                   = IF type = met[n].type THEN met[n].value ELSE "nothing"

(* "Parses a configuration file and adds entries to this instance", says    *)
(* config.hpp:60 of parse(): the entries that were there stay there.        *)
EntriesAdded == \A h \in Range(earlier) : Keys(h) \subseteq DOMAIN values
=============================================================================
