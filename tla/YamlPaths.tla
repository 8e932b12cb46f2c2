------------------------------ MODULE YamlPaths ------------------------------
(***************************************************************************)
(* Dotted paths in a decrypted sops file: yaml_get and yaml_set of cofre's *)
(* editor hook (backends.rs).                                              *)
(*                                                                         *)
(* A document is a function from paths, sequences of segments, to what     *)
(* stands there: Map, Absent, or a leaf.  A leaf is any node that is not a *)
(* mapping: a scalar, a sequence, or the null of "key:".                   *)
(***************************************************************************)
EXTENDS Sequences, SequencesExt

CONSTANTS
    Paths,      \* the dotted paths of the instance
    Absent,     \* no such node
    Map         \* a mapping

Nodes == Paths \cup {<<>>}

Segments == UNION {ToSet(q) : q \in Paths}

Strict(p, q) == IsStrictPrefix(p, q)

ASSUME PathsAssumption ==
    /\ Paths \subseteq Seq(Segments) \ {<<>>}
    /\ \A q \in Paths : \A k \in 1..Len(q) : SubSeq(q, 1, k) \in Paths
    /\ \A q \in Paths : \A k \in 2..Len(q) - 1 : RemoveAt(q, k) \in Paths
    /\ Absent # Map

IsLeaf(doc, q) == doc[q] \notin {Absent, Map}

\* What a parsed file can be: a node stands in a mapping.
WellFormed(doc) ==
    /\ doc[<<>>] # Absent
    /\ \A q \in Paths : doc[q] # Absent => doc[Front(q)] = Map

YamlGet(doc, path) == doc[path]

Present(doc, path) == YamlGet(doc, path) # Absent

\* Mutants: nothing is ever in the way; what is missing is in the way.
LandingExact(doc, path) == path

LandingMissing(doc, path) ==
    LET blocked == {k \in 1..Len(path) - 2 : doc[SubSeq(path, 1, k)] # Map}
    IN  IF blocked = {} THEN path
        ELSE RemoveAt(path, 1 + CHOOSE k \in blocked : TRUE)

(***************************************************************************)
(* Where yaml_set stores.  Its loop walks the path's segments but the      *)
(* last; a leaf reached before the last of them is replaced by a mapping   *)
(* and the segment at hand is then passed over without being entered, so   *)
(* the value lands under a path that lacks it.  A leaf at the root, or     *)
(* right above the last segment, is replaced and nothing is lost.          *)
(***************************************************************************)
Landing(doc, path) ==
    LET blocked == {k \in 1..Len(path) - 2 : IsLeaf(doc, SubSeq(path, 1, k))}
    IN  IF blocked = {} THEN path
        ELSE RemoveAt(path, 1 + CHOOSE k \in blocked : TRUE)

\* Mutants: no intermediate mapping is created; the mappings above the
\* value are rebuilt.
YamlSetNoParents(doc, path, v) == [doc EXCEPT ![path] = v]

YamlSetRebuilds(doc, path, v) ==
    LET at == Landing(doc, path) IN
    [q \in Nodes |-> IF q = at THEN v
                     ELSE IF Strict(q, at) THEN Map
                     ELSE IF q = <<>> THEN doc[q] ELSE Absent]

\* The value replaces whatever stood there, and what stood below it.
YamlSet(doc, path, v) ==
    LET at == Landing(doc, path) IN
    [q \in Nodes |-> IF q = at THEN v
                     ELSE IF Strict(q, at) THEN Map
                     ELSE IF Strict(at, q) THEN Absent
                     ELSE doc[q]]
=============================================================================
