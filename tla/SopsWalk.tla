------------------------------- MODULE SopsWalk ------------------------------
(***************************************************************************)
(* The walk that encrypts or decrypts a sops tree (suminuri/walk.rs), in   *)
(* document order; what it does at one item is SopsLeaf's.                 *)
(***************************************************************************)
EXTENDS SopsLeaf

RECURSIVE Walk(_, _, _, _)

ItemStep(a, i, path, sets) ==
    WalkItem(a, i, path, sets,
             Walk(a.x, i.value, Inside(path, i), Append(sets, a.own)))

WalkAll(x, items, path, sets) ==
    LET upTo[k \in 0..Len(items)] ==
          IF k = 0 THEN Begun(x) ELSE ItemStep(upTo[k - 1], items[k], path, sets)
    IN  upTo[Len(items)]

Walk(x, v, path, sets) ==
    IF v.t = "scalar" THEN VisitScalar(x, v, path, sets)
    ELSE LET r == WalkAll(x, v.items, path, sets)
         IN  [v |-> [v EXCEPT !.items = r.items], x |-> r.x]
===============================================================================
