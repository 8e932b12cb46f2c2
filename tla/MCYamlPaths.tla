----------------------------- MODULE MCYamlPaths -----------------------------
(***************************************************************************)
(* yaml_set on every document over the paths of one secret a.b.c.d and     *)
(* those its value may land on, set again and again.                       *)
(***************************************************************************)
EXTENDS YamlPaths, Integers

CONSTANTS Old, New      \* a value that was there, a value that is set

ASSUME ValuesAssumption == {Old, New} \cap {Absent, Map} = {}

VARIABLE doc

FourDeep == {<<"a">>, <<"a", "b">>, <<"a", "c">>, <<"a", "d">>,
             <<"a", "b", "c">>, <<"a", "b", "d">>, <<"a", "c", "d">>,
             <<"a", "b", "c", "d">>}

Init == doc \in {d \in [Nodes -> {Map, Absent, Old}] : WellFormed(d)}
Next == \E q \in Paths : doc' = YamlSet(doc, q, New)
Spec == Init /\ [][Next]_doc

(***************************************************************************)
(* yaml_set as its loop runs, one segment at a time.                       *)
(***************************************************************************)
Enter(s, part) ==
    IF IsLeaf(s.doc, s.cur)
    THEN [s EXCEPT !.doc[s.cur] = Map]
    ELSE LET next == Append(s.cur, part)
         IN  [doc |-> IF s.doc[next] = Absent THEN [s.doc EXCEPT ![next] = Map]
                                              ELSE s.doc,
              cur |-> next]

\* What it starts from: a leaf at the root is replaced by a mapping.
Start(d) == [doc |-> IF d[<<>>] = Map THEN d ELSE [d EXCEPT ![<<>>] = Map],
             cur |-> <<>>]

\* After its first k segments; the last one is not entered.
Walked(d, path) ==
    LET walk[k \in 0..Len(path) - 1] ==
            IF k = 0 THEN Start(d) ELSE Enter(walk[k - 1], path[k])
    IN  walk

Stepwise(d, path, v) ==
    LET s  == Walked(d, path)[Len(path) - 1]
        at == Append(s.cur, Last(path))
    IN  [q \in Nodes |-> IF q = at THEN v
                         ELSE IF q = s.cur THEN Map
                         ELSE IF Strict(at, q) THEN Absent
                         ELSE s.doc[q]]

\* The closed form YamlSet is what the loop of yaml_set computes.
StoresAsTheLoop ==
    \A q \in Paths : YamlSet(doc, q, New) = Stepwise(doc, q, New)

(***************************************************************************)
(* Where no value stands above the path, yaml_set stores at it, leaves     *)
(* every node that is neither above nor below alone, and keeps the         *)
(* document well formed ("nothing around the write moves").                *)
(***************************************************************************)
Open(q) == \A k \in 1..Len(q) - 2 : ~IsLeaf(doc, SubSeq(q, 1, k))

SetThenGet ==
    \A q \in Paths : LET d == YamlSet(doc, q, New) IN
      /\ WellFormed(d)
      /\ Open(q) => /\ YamlGet(d, q) = New
                    /\ \A r \in Paths : ~IsPrefix(q, r) /\ ~IsPrefix(r, q)
                         => d[r] = doc[r]

\* A value that landed elsewhere is in place after one more apply.
SecondSetHolds ==
    \A q \in Paths : Present(YamlSet(YamlSet(doc, q, New), q, New), q)
=============================================================================
