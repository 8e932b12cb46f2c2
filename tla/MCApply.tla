------------------------------- MODULE MCApply -------------------------------
(***************************************************************************)
(* Instances of CofreApply for TLC: plans over two Akeyless items, two     *)
(* sops files and the paths a, a.b, a.c, a.b.c and d.                      *)
(***************************************************************************)
EXTENDS CofreApply

Path_a   == <<"a">>
Path_ab  == <<"a", "b">>
Path_ac  == <<"a", "c">>
Path_abc == <<"a", "b", "c">>
Path_d   == <<"d">>

AllPaths == {Path_a, Path_ab, Path_ac, Path_abc, Path_d}

Akl(n, i, gen)     == [name |-> n, kind |-> "akeyless", item |-> i, gen |-> gen,
                       never |-> FALSE]
Sops(n, f, q, gen) == [name |-> n, kind |-> "sops", file |-> f, path |-> q,
                       gen |-> gen, never |-> FALSE]
Mock(n)            == [name |-> n, kind |-> "mock", item |-> n, gen |-> "ok",
                       never |-> FALSE]
Never(s)           == [s EXCEPT !.never = TRUE]

\* "mixed": an item between two entries of one file, one of them never to
\* be rotated, and a keypair in the item's place.  "partial": the hook fails half-way through f2, and a policy
\* nothing can generate.  "mocked": a mock target at the end.
MixedPlans ==
    [mixed |-> <<Sops("n1", "f1", Path_abc, "ok"), Akl("n2", "i1", "ok"),
                 Never(Sops("n3", "f1", Path_ac, "ok")),
                 Sops("n4", "f2", Path_a, "external"),
                 Akl("n5", "i1", "unimplemented")>>,
     partial |-> <<Akl("n2", "i1", "ok"), Sops("n1", "f1", Path_abc, "ok"),
                   Sops("n4", "f2", Path_d, "ok"),
                   Sops("n5", "f2", Path_a, "unimplemented"),
                   Akl("n3", "i2", "unimplemented")>>,
     mocked |-> <<Sops("n1", "f1", Path_abc, "ok"), Akl("n2", "i1", "ok"),
                  Mock("n6")>>]

NestedPlans == [nested |-> <<Sops("n1", "f1", Path_a, "ok"),
                             Sops("n2", "f1", Path_ab, "ok")>>]

DeepPlans == [deep |-> <<Sops("n1", "f1", Path_abc, "ok")>>]

MockPlans == [mocked |-> <<Sops("n1", "f1", Path_abc, "ok"), Mock("n2")>>]

Tree(nodes) == [q \in Nodes |-> IF q \in DOMAIN nodes THEN nodes[q]
                                ELSE IF q = <<>> THEN Map ELSE Absent]

EmptyDoc  == Tree(<<>>)
\* d is the operator's, and so may be a.b.c.
SparseDoc == Tree(Path_d :> Operator)
FullDoc   == Tree(Path_d :> Operator @@ Path_a :> Map @@ Path_ab :> Map
                    @@ Path_abc :> Operator)
\* "a:" with nothing under it is a null, not a mapping.
NullDoc   == Tree(Path_a :> Operator)

SparseDocs == {SparseDoc, FullDoc}
EmptyDocs  == {EmptyDoc}
NullDocs   == {NullDoc}
=============================================================================
