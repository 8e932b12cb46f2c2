------------------------------- MODULE YamlValue ------------------------------
(***************************************************************************)
(* suminuri's YAML values (suminuri-yaml/tree.rs).                         *)
(*                                                                         *)
(* A leaf is a scalar or a comment, each a text or a ciphertext, with the  *)
(* style go-yaml writes it in.  Texts are words; what a word resolves to   *)
(* comes from tables.  A collection is a sequence of items: comments,      *)
(* pairs of a mapping, elements of a list.                                 *)
(***************************************************************************)
EXTENDS Integers, Sequences, SequencesExt

CONSTANTS
    None,       \* not encrypted; no such node
    Ints,       \* plain words that parse as an i64 -> its decimal form
    Floats,     \* those that parse as an f64 only  -> its 'f' form
    Shown,      \* a float's 'f' form -> its 'g' form, as YAML shows it
    Lookalikes, \* words of the shape of a date or of a base-60 number
    Analyses    \* words that are not plain text of one line -> what they are

Nulls  == {"null", "Null", "NULL", "~"}
Trues  == {"true", "True", "TRUE"}
Falses == {"false", "False", "FALSE"}

Scalar(text, style) == [t |-> "scalar", text |-> text, style |-> style, enc |-> None]
Comment(text)       == [t |-> "comment", text |-> text, enc |-> None]
Missing             == Scalar("", "plain")

\* The decimal form of an i64 is an i64 and its own decimal form; a number is
\* neither a null nor a boolean.
ASSUME ScalarAssumption ==
    /\ \A w \in DOMAIN Ints : Ints[w] \in DOMAIN Ints /\ Ints[Ints[w]] = Ints[w]
    /\ (DOMAIN Ints \cup DOMAIN Floats) \cap (Nulls \cup Trues \cup Falses) = {}

\* ScalarAnalysis: the styles that can hold a word.
AnalysisOf(text) ==
    IF text \in DOMAIN Analyses THEN Analyses[text]
    ELSE [newline |-> FALSE, plain |-> TRUE, single |-> TRUE, block |-> text # ""]

(***************************************************************************)
(* go-yaml's choice of style for a string: a block for several lines,      *)
(* quoted when the word would not come back as a string, to YAML 1.1       *)
(* either, else plain; and libyaml's ladder when that cannot hold it.      *)
(***************************************************************************)
OldBools == {"y", "Y", "yes", "Yes", "YES", "on", "On", "ON",
             "n", "N", "no", "No", "NO", "off", "Off", "OFF"}

ResolvesAsNonString(text) ==
    text \in {""} \cup Nulls \cup Trues \cup Falses \cup OldBools
             \cup {"<<"} \cup DOMAIN Ints \cup DOMAIN Floats \cup Lookalikes

StyleForNewValue(text) ==
    LET a     == AnalysisOf(text)
        asked == IF a.newline THEN "literal"
                 ELSE IF ResolvesAsNonString(text) THEN "double" ELSE "plain"
    IN  IF asked = "plain" /\ a.plain THEN "plain"
        ELSE IF asked = "plain" /\ a.single THEN "single"
        ELSE IF asked = "literal" /\ a.block THEN "literal"
        ELSE "double"

New(text) == Scalar(text, StyleForNewValue(text))

IsNull(s) == s.style = "plain" /\ s.enc = None /\ s.text \in Nulls
-----------------------------------------------------------------------------
Pair(key, value)    == [t |-> "pair", key |-> key, value |-> value]
Elem(value)         == [t |-> "elem", value |-> value]
Mapping(items)      == [t |-> "map", items |-> items]
List(items)         == [t |-> "seq", items |-> items]
Error(why)          == [t |-> "error", why |-> why]

IsError(v) == v.t = "error"

\* Where the pairs of a mapping with a key are.
Named(v, key) == {k \in DOMAIN v.items : v.items[k].t = "pair" /\ v.items[k].key = key}

Get(v, key) ==
    IF v.t # "map" THEN None
    ELSE IF Named(v, key) = {} THEN None
    ELSE v.items[Min(Named(v, key))].value

\* remove(): the first pair of that key, and only it.
Without(v, key) ==
    IF Get(v, key) = None THEN v
    ELSE Mapping(RemoveAt(v.items, Min(Named(v, key))))
=============================================================================
