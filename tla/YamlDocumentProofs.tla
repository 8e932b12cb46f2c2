-------------------------- MODULE YamlDocumentProofs --------------------------
(***************************************************************************)
(* Theorems about a document that yaml_set changes again and again, for    *)
(* every set of paths and every document at first.                         *)
(***************************************************************************)
EXTENDS MCYamlPaths, YamlPathsProofs

WellTyped == doc \in [Nodes -> {Map, Absent, Old, New}] /\ WellFormed(doc)

LEMMA AlwaysWellTyped == Spec => []WellTyped
  <1>1. Init => WellTyped
    BY DEF Init, WellTyped
  <1>2. WellTyped /\ [Next]_doc => WellTyped'
    <2> SUFFICES ASSUME WellTyped, [Next]_doc PROVE WellTyped'
      OBVIOUS
    <2>1. CASE UNCHANGED doc
      BY <2>1 DEF WellTyped
    <2>2. CASE Next
      <3>1. PICK q \in Paths : doc' = YamlSet(doc, q, New)
        BY <2>2 DEF Next
      <3> QED BY <3>1, SetWellFormed, SetType DEF WellTyped
    <2> QED BY <2>1, <2>2
  <1> QED BY <1>1, <1>2, PTL DEF Spec

(***************************************************************************)
(* Where no value stands above the path, yaml_set stores at it, leaves     *)
(* every node that is neither above nor below alone, and keeps the         *)
(* document well formed.                                                   *)
(***************************************************************************)
THEOREM SetIsRead == Spec => []SetThenGet
  <1>1. WellTyped => SetThenGet
    <2> SUFFICES ASSUME WellTyped, NEW q \in Paths
                 PROVE  LET d == YamlSet(doc, q, New) IN
                        /\ WellFormed(d)
                        /\ Open(q) => /\ YamlGet(d, q) = New
                                      /\ \A r \in Paths :
                                           ~IsPrefix(q, r) /\ ~IsPrefix(r, q)
                                             => d[r] = doc[r]
      BY DEF SetThenGet
    <2>1. WellFormed(YamlSet(doc, q, New))
      BY SetWellFormed DEF WellTyped
    <2>2. ASSUME Open(q)
          PROVE  /\ YamlSet(doc, q, New)[q] = New
                 /\ \A r \in Nodes : ~Strict(q, r) /\ ~Strict(r, q) /\ r # q
                      => YamlSet(doc, q, New)[r] = doc[r]
      BY <2>2, SetThere DEF Open
    <2>3. \A r \in Paths : ~IsPrefix(q, r) /\ ~IsPrefix(r, q)
                             => ~Strict(q, r) /\ ~Strict(r, q) /\ r # q
      <3>1. IsPrefix(q, q)
        BY NodesAreSequences, PrefixDef DEF Nodes
      <3> QED BY <3>1 DEF Strict, IsStrictPrefix
    <2> QED BY <2>1, <2>2, <2>3 DEF YamlGet, Nodes
  <1> QED BY <1>1, AlwaysWellTyped, PTL

(***************************************************************************)
(* A value that landed elsewhere, because a leaf stood above its path, is  *)
(* in place after one more apply: the leaf has become a mapping.           *)
(***************************************************************************)
THEOREM SecondSetIsThere == Spec => []SecondSetHolds
  <1>1. WellTyped => SecondSetHolds
    <2> SUFFICES ASSUME WellTyped, NEW q \in Paths
                 PROVE  Present(YamlSet(YamlSet(doc, q, New), q, New), q)
      BY DEF SecondSetHolds
    <2> DEFINE d == YamlSet(doc, q, New)
    <2>1. \A k \in 1..Len(q) - 2 : ~IsLeaf(d, SubSeq(q, 1, k))
      BY SetClearsTheWay DEF WellTyped
    <2>2. YamlSet(d, q, New)[q] = New
      BY <2>1, SetThere
    <2> QED BY <2>2, ValuesAssumption DEF Present, YamlGet
  <1> QED BY <1>1, AlwaysWellTyped, PTL

-----------------------------------------------------------------------------
(***************************************************************************)
(* The loop of yaml_set.                                                   *)
(***************************************************************************)
IsWalk(d, q, n, g) ==
    g = [k \in 0..n |-> IF k = 0 THEN Start(d) ELSE Enter(g[k - 1], q[k])]

\* Up to any segment the walk exists: by the least one it would fail at.
LEMMA WalkExists ==
  ASSUME NEW d, NEW q
  PROVE  \A n \in Nat : \E g : IsWalk(d, q, n, g)
  <1> DEFINE S == {n \in Nat : ~\E g : IsWalk(d, q, n, g)}
  <1>1. SUFFICES ASSUME S # {} PROVE FALSE
    OBVIOUS
  <1>2. PICK n \in S : \A x \in S : n <= x
    BY <1>1, LeastOf
  <1>3. n # 0
    <2> DEFINE g == [k \in 0..0 |-> Start(d)]
    <2>1. IsWalk(d, q, 0, g)
      BY DEF IsWalk
    <2> QED BY <1>2, <2>1
  <1>4. n \in Nat /\ n - 1 \in Nat /\ n - 1 \notin S
    <2>1. S \subseteq Nat
      OBVIOUS
    <2> HIDE DEF S
    <2> QED BY <1>2, <1>3, <2>1
  <1>5. PICK g : IsWalk(d, q, n - 1, g)
    BY <1>4
  <1> DEFINE h == [k \in 0..n |-> IF k = 0 THEN Start(d)
                                  ELSE IF k = n THEN Enter(g[n - 1], q[n])
                                  ELSE g[k]]
  <1>6. \A k \in 0..n - 1 : h[k] = g[k]
    <2>1. \A k \in 0..n - 1 : k \in 0..n /\ k # n
      BY <1>4
    <2>2. 0 \in 0..n - 1
      BY <1>4
    <2>3. g[0] = Start(d)
      BY <1>5, <2>2 DEF IsWalk
    <2> QED BY <2>1, <2>3
  <1>7. \A k \in 0..n : h[k] = IF k = 0 THEN Start(d) ELSE Enter(h[k - 1], q[k])
    <2> SUFFICES ASSUME NEW k \in 0..n, k # 0
                 PROVE  h[k] = Enter(h[k - 1], q[k])
      BY <1>4
    <2>1. k - 1 \in 0..n - 1
      BY <1>4
    <2>2. h[k - 1] = g[k - 1]
      BY <1>6, <2>1
    <2>3. CASE k = n
      BY <2>2, <2>3
    <2>4. CASE k # n
      <3>1. k \in 0..n - 1
        BY <1>4, <2>4
      <3>2. g[k] = Enter(g[k - 1], q[k])
        BY <1>5, <3>1 DEF IsWalk
      <3> QED BY <1>6, <2>2, <3>1, <3>2
    <2> QED BY <2>3, <2>4
  <1>8. IsWalk(d, q, n, h)
    BY <1>7 DEF IsWalk
  <1> QED BY <1>2, <1>8

LEMMA WalkedBySegments ==
  ASSUME NEW d, NEW q \in Paths
  PROVE  /\ Walked(d, q)[0] = Start(d)
         /\ \A k \in 1..Len(q) - 1 : Walked(d, q)[k] = Enter(Walked(d, q)[k - 1], q[k])
  <1> DEFINE n == Len(q) - 1
             w == CHOOSE g : IsWalk(d, q, n, g)
  <1>1. n \in Nat
    BY NodesAreSequences DEF Nodes
  <1>2. \E g : IsWalk(d, q, n, g)
    <2> HIDE DEF n
    <2> QED BY <1>1, WalkExists
  <1>3. IsWalk(d, q, n, w)
    BY <1>2
  <1>4. Walked(d, q) = w
    BY DEF Walked, IsWalk
  <1> HIDE DEF w
  <1>5. w[0] = Start(d) /\ \A k \in 1..n : w[k] = Enter(w[k - 1], q[k])
    <2>1. 0 \in 0..n /\ \A k \in 1..n : k \in 0..n /\ k # 0
      BY <1>1
    <2> QED BY <1>3, <2>1 DEF IsWalk
  <1> QED BY <1>4, <1>5

\* How many of the path's first k segments were entered, j being the leaf's.
Depth(j, k) == IF k <= j THEN k ELSE k - 1

Reached(d, q, j, k, s) ==
  LET cur == SubSeq(Landing(d, q), 1, Depth(j, k)) IN
  /\ s.cur = cur
  /\ DOMAIN s.doc = Nodes
  /\ \A r \in Nodes : Strict(r, cur) => s.doc[r] = Map
  /\ \A r \in Nodes : r # cur /\ ~Strict(r, cur) /\ r # <<>> => s.doc[r] = d[r]
  /\ s.doc[cur] = IF k \in 1..j /\ IsLeaf(d, cur) THEN d[cur] ELSE Map

LEMMA Begins ==
  ASSUME NEW d, DOMAIN d = Nodes, NEW q \in Paths, NEW j \in 1..Len(q)
  PROVE  Reached(d, q, j, 0, Start(d))
  <1> DEFINE root == <<>>
             at == Landing(d, q)
  <1>1. /\ at \in Seq(Segments) /\ Len(q) \in Nat /\ root \in Seq(Segments)
        /\ root \in Nodes /\ Nodes \subseteq Seq(Segments)
    BY LandingIsAPath, NodesAreSequences DEF Nodes
  <1>2. Depth(j, 0) = 0 /\ SubSeq(at, 1, 0) = root
    BY <1>1 DEF Depth
  <1>3. \A r \in Nodes : ~Strict(r, root)
    <2>1. Len(root) = 0 /\ \A r \in Nodes : Len(r) \in Nat
      BY <1>1
    <2> HIDE DEF root
    <2> QED BY <1>1, <2>1, StrictDef
  <1>4. Start(d).cur = root /\ DOMAIN Start(d).doc = Nodes /\ Start(d).doc[root] = Map
        /\ \A r \in Nodes : r # root => Start(d).doc[r] = d[r]
    BY <1>1 DEF Start
  <1>5. 0 \notin 1..j
    OBVIOUS
  <1> HIDE DEF root, at
  <1> QED BY <1>2, <1>3, <1>4, <1>5 DEF Reached, at, root

\* One segment of the loop.
LEMMA OneSegment ==
  ASSUME NEW d, WellFormed(d), NEW q \in Paths, NEW j \in 1..Len(q), InTheWay(d, q, j),
         NEW k \in 0..Len(q) - 2, NEW s, Reached(d, q, j, k, s)
  PROVE  Reached(d, q, j, k + 1, Enter(s, q[k + 1]))
  <1> DEFINE n    == Len(q)
             at   == Landing(d, q)
             cur  == SubSeq(at, 1, Depth(j, k))
             next == SubSeq(at, 1, Depth(j, k) + 1)
  <1>1. /\ q \in Seq(Segments) /\ n \in Nat /\ n >= 1 /\ at \in Paths /\ at \in Seq(Segments)
        /\ Len(at) \in Nat /\ Nodes \subseteq Seq(Segments) /\ <<>> \in Nodes
    BY LandingIsAPath, NodesAreSequences DEF Nodes
  <1>2. /\ j \in Nat /\ k \in Nat /\ k <= n - 2
        /\ \/ j = n /\ at = q
           \/ j <= n - 2 /\ Len(at) = n - 1
    BY <1>1 DEF InTheWay
  <1>3. Depth(j, k) \in 0..Len(at) - 1 /\ Depth(j, k) \in Nat
    <2>1. CASE j = n /\ at = q
      BY <1>1, <1>2, <2>1 DEF Depth
    <2>2. CASE j <= n - 2 /\ Len(at) = n - 1
      BY <1>1, <1>2, <2>2 DEF Depth
    <2> QED BY <1>2, <2>1, <2>2
  <1>4. /\ cur \in Nodes /\ cur \in Seq(Segments) /\ Len(cur) = Depth(j, k)
        /\ \A i \in 1..Depth(j, k) : cur[i] = at[i]
    <2>1. Depth(j, k) \in 0..Len(at)
      BY <1>1, <1>3
    <2> HIDE DEF at
    <2> QED BY <1>1, <2>1, PrefixesAreNodes, PrefixOf
  <1>5. /\ next \in Paths /\ next \in Seq(Segments) /\ Len(next) = Depth(j, k) + 1
        /\ \A i \in 1..Depth(j, k) + 1 : next[i] = at[i]
    <2> DEFINE m == Depth(j, k) + 1
    <2>1. m \in 0..Len(at) /\ m \in 1..Len(at)
      BY <1>1, <1>3
    <2> HIDE DEF at, m
    <2> QED BY <1>1, <2>1, PathsAssumption, PrefixOf DEF m
  <1>6. /\ s.cur = cur /\ DOMAIN s.doc = Nodes
        /\ \A r \in Nodes : Strict(r, cur) => s.doc[r] = Map
        /\ \A r \in Nodes : r # cur /\ ~Strict(r, cur) /\ r # <<>> => s.doc[r] = d[r]
        /\ s.doc[cur] = IF k \in 1..j /\ IsLeaf(d, cur) THEN d[cur] ELSE Map
    BY DEF Reached
  <1>7. k <= j => cur = SubSeq(q, 1, k)
    <2>1. ASSUME k <= j PROVE SubSeq(q, 1, k) = cur
      <3>1. Depth(j, k) = k /\ k \in 0..n
        BY <1>1, <1>2, <2>1 DEF Depth
      <3> DEFINE p == SubSeq(q, 1, k)
      <3>2. p \in Seq(Segments) /\ Len(p) = k /\ \A i \in 1..k : p[i] = q[i]
        BY <1>1, <3>1, PrefixOf
      <3>3. \A i \in 1..k : at[i] = q[i]
        <4>1. \A i \in 1..k : i \in 1..Len(at) /\ i <= j
          BY <1>1, <1>2, <1>3, <2>1, <3>1
        <4> QED BY <4>1 DEF InTheWay
      <3> HIDE DEF p, cur, at
      <3>4. p = cur
        BY <1>4, <3>1, <3>2, <3>3
      <3> QED BY <3>4 DEF p
    <2> QED BY <2>1
  <1>8. CASE IsLeaf(s.doc, cur)
    <2>1. k \in 1..j /\ IsLeaf(d, cur)
      BY <1>6, <1>8 DEF IsLeaf
    <2>2. k = j /\ k \in 1..n - 2
      <3>1. k \in 1..n - 2
        BY <1>1, <1>2, <2>1
      <3>2. cur = SubSeq(q, 1, k)
        <4> HIDE DEF cur
        <4> QED BY <1>2, <1>7, <2>1
      <3> HIDE DEF cur
      <3>3. IsLeaf(d, SubSeq(q, 1, k))
        BY <2>1, <3>2
      <3>4. \A i \in 1..n - 2 : IsLeaf(d, SubSeq(q, 1, i)) => i = j
        BY DEF InTheWay
      <3> QED BY <3>1, <3>3, <3>4
    <2>3. Depth(j, k + 1) = Depth(j, k)
      BY <1>2, <2>2 DEF Depth
    <2>4. Enter(s, q[k + 1]) = [s EXCEPT !.doc[cur] = Map]
      BY <1>6, <1>8 DEF Enter
    <2> DEFINE e == Enter(s, q[k + 1])
    <2>5. e.cur = cur /\ DOMAIN e.doc = Nodes /\ e.doc[cur] = Map
          /\ \A r \in Nodes : r # cur => e.doc[r] = s.doc[r]
      <3> HIDE DEF cur
      <3> QED BY <1>4, <1>6, <2>4
    <2>6. ~(k + 1 \in 1..j)
      BY <1>2, <2>2
    <2>7. \A r \in Nodes : Strict(r, cur) => r # cur
      BY <1>1, <1>4, StrictOrder
    <2> HIDE DEF e, cur
    <2>8. /\ \A r \in Nodes : Strict(r, cur) => e.doc[r] = Map
          /\ \A r \in Nodes : r # cur /\ ~Strict(r, cur) /\ r # <<>> => e.doc[r] = d[r]
      BY <1>6, <2>5, <2>7
    <2> QED BY <2>3, <2>5, <2>6, <2>8 DEF Reached, e, cur
  <1>9. CASE ~IsLeaf(s.doc, cur)
    <2>1. s.doc[cur] = Map
      BY <1>6, <1>9, PathsAssumption DEF IsLeaf
    <2>2. ~(k = j)
      <3> SUFFICES ASSUME k = j PROVE FALSE
        OBVIOUS
      <3>1. j # n
        BY <1>1, <1>2
      <3>2. IsLeaf(d, cur)
        <4>1. cur = SubSeq(q, 1, k)
          <5> HIDE DEF cur
          <5> QED BY <1>2, <1>7
        <4>2. IsLeaf(d, SubSeq(q, 1, j))
          BY <3>1 DEF InTheWay
        <4> HIDE DEF cur
        <4> QED BY <4>1, <4>2
      <3>3. k \in 1..j
        BY <1>2
      <3> QED BY <1>6, <2>1, <3>2, <3>3 DEF IsLeaf
    <2>3. Depth(j, k + 1) = Depth(j, k) + 1
      BY <1>2, <2>2 DEF Depth
    <2>4. at[Depth(j, k) + 1] = q[k + 1]
      <3>1. Depth(j, k) + 1 \in 1..Len(at)
        BY <1>1, <1>3
      <3>2. CASE k < j
        <4>1. Depth(j, k) = k /\ k + 1 <= j
          BY <1>2, <3>2 DEF Depth
        <4> QED BY <3>1, <4>1 DEF InTheWay
      <3>3. CASE j < k
        <4>1. Depth(j, k) + 1 = k /\ k \in j + 1..Len(at) /\ j # n
          BY <1>1, <1>2, <1>3, <3>1, <3>3 DEF Depth
        <4> QED BY <4>1 DEF InTheWay
      <3> QED BY <1>2, <2>2, <3>2, <3>3
    <2>5. Append(cur, q[k + 1]) = next
      <3> DEFINE a == Append(cur, q[k + 1])
      <3>1. q[k + 1] \in Segments
        BY <1>1, <1>2
      <3> HIDE DEF cur, next, at
      <3>2. a \in Seq(Segments) /\ Len(a) = Depth(j, k) + 1
            /\ (\A i \in 1..Depth(j, k) : a[i] = cur[i])
            /\ a[Depth(j, k) + 1] = q[k + 1]
        BY <1>4, <3>1
      <3> HIDE DEF a
      <3>3. \A i \in 1..Depth(j, k) + 1 : a[i] = next[i]
        <4>1. \A i \in 1..Depth(j, k) + 1 : i \in 1..Depth(j, k) \/ i = Depth(j, k) + 1
          BY <1>3
        <4> QED BY <1>4, <1>5, <2>4, <3>2, <4>1
      <3>4. a = next
        BY <1>5, <3>2, <3>3
      <3> QED BY <3>4 DEF a
    <2>6. /\ Strict(cur, next) /\ next # cur /\ ~Strict(next, cur) /\ next # <<>>
          /\ next \in Nodes
      <3>1. Len(cur) < Len(next) /\ \A i \in 1..Len(cur) : cur[i] = next[i]
        BY <1>3, <1>4, <1>5
      <3> HIDE DEF cur, next
      <3>2. Strict(cur, next)
        BY <1>4, <1>5, <3>1, StrictDef
      <3> QED BY <1>4, <1>5, <3>2, StrictOrder, NodesAreSequences DEF Nodes
    <2>7. Front(next) = cur
      <3>1. /\ Front(next) \in Seq(Segments) /\ Len(Front(next)) = Len(next) - 1
            /\ \A i \in 1..Len(next) - 1 : Front(next)[i] = next[i]
        BY <1>5, <2>6, FrontDef
      <3> DEFINE f == Front(next)
      <3> HIDE DEF cur, next, f
      <3>2. f \in Seq(Segments) /\ Len(f) = Len(cur) /\ \A i \in 1..Len(cur) : f[i] = cur[i]
        BY <1>3, <1>4, <1>5, <3>1 DEF f
      <3>3. f = cur
        BY <1>4, <3>2
      <3> QED BY <3>3 DEF f
    <2>8. s.doc[next] = d[next]
      BY <1>6, <2>6
    <2>9. k + 1 \in 1..j \/ ~IsLeaf(d, next)
      <3> SUFFICES ASSUME j < k, d[next] # Absent PROVE d[next] = Map
        BY <1>2, <2>2 DEF IsLeaf
      <3>1. j # n /\ j \in 1..Len(at) /\ Depth(j, k) + 1 \in j + 1..Len(at)
        BY <1>1, <1>2, <1>3 DEF Depth
      <3>2. SubSeq(at, 1, j) = SubSeq(q, 1, j)
        <4> DEFINE a == SubSeq(at, 1, j)
                   b == SubSeq(q, 1, j)
        <4>1. j \in 0..Len(at) /\ j \in 0..n
          BY <1>1, <1>2, <3>1
        <4>2. /\ a \in Seq(Segments) /\ Len(a) = j /\ \A i \in 1..j : a[i] = at[i]
              /\ b \in Seq(Segments) /\ Len(b) = j /\ \A i \in 1..j : b[i] = q[i]
          <5> HIDE DEF at
          <5> QED BY <1>1, <4>1, PrefixOf
        <4>3. \A i \in 1..j : at[i] = q[i]
          <5>1. \A i \in 1..j : i \in 1..Len(at) /\ i <= j
            BY <1>1, <1>2, <3>1
          <5> QED BY <5>1 DEF InTheWay
        <4> HIDE DEF a, b, at
        <4>4. a = b
          BY <4>2, <4>3
        <4> QED BY <4>4 DEF a, b
      <3>3. d[SubSeq(at, 1, j)] # Map
        BY <3>1, <3>2, <1>2 DEF InTheWay, IsLeaf
      <3>4. d[next] = Absent
        <4> HIDE DEF at
        <4> QED BY <1>1, <3>1, <3>3, NothingBelow DEF next
      <3> QED BY <3>4
    <2> DEFINE e == Enter(s, q[k + 1])
    <2>10. e = [doc |-> IF s.doc[next] = Absent THEN [s.doc EXCEPT ![next] = Map]
                        ELSE s.doc,
                cur |-> next]
      BY <1>6, <1>9, <2>5 DEF Enter
    <2>11. /\ e.cur = next /\ DOMAIN e.doc = Nodes
           /\ \A r \in Nodes : r # next => e.doc[r] = s.doc[r]
           /\ e.doc[next] = IF d[next] = Absent THEN Map ELSE d[next]
      <3> HIDE DEF next
      <3> QED BY <1>6, <2>6, <2>8, <2>10
    <2>12. e.doc[next] = IF k + 1 \in 1..j /\ IsLeaf(d, next) THEN d[next] ELSE Map
      <3> HIDE DEF e, next
      <3> QED BY <2>9, <2>11 DEF IsLeaf
    <2>13. \A r \in Nodes : Strict(r, next) => r # next /\ (r = cur \/ Strict(r, cur))
      <3> HIDE DEF cur, next
      <3> QED BY <1>1, <1>5, <2>7, AboveTheParent, StrictOrder
    <2>14. \A r \in Nodes : Strict(r, cur) => Strict(r, next)
      <3> HIDE DEF cur, next
      <3> QED BY <1>1, <1>4, <1>5, <2>6, StrictOrder
    <2> HIDE DEF e, cur, next
    <2>15. \A r \in Nodes : Strict(r, next) => e.doc[r] = Map
      BY <1>6, <2>1, <2>11, <2>13
    <2>16. \A r \in Nodes : r # next /\ ~Strict(r, next) /\ r # <<>> => e.doc[r] = d[r]
      BY <1>6, <2>6, <2>11, <2>14
    <2> QED BY <2>3, <2>11, <2>12, <2>15, <2>16 DEF Reached, e, next
  <1> QED BY <1>8, <1>9

LEMMA EverySegment ==
  ASSUME NEW d, WellFormed(d), DOMAIN d = Nodes, NEW q \in Paths,
         NEW j \in 1..Len(q), InTheWay(d, q, j)
  PROVE  \A k \in 0..Len(q) - 1 : Reached(d, q, j, k, Walked(d, q)[k])
  <1> DEFINE n == Len(q) - 1
             S == {k \in 0..n : ~Reached(d, q, j, k, Walked(d, q)[k])}
  <1>1. SUFFICES ASSUME S # {} PROVE FALSE
    OBVIOUS
  <1>2. n \in Nat /\ S \in SUBSET Nat
    BY NodesAreSequences DEF Nodes
  <1>3. PICK k \in S : \A x \in S : k <= x
    BY <1>1, <1>2, LeastOf
  <1>4. k # 0
    BY <1>3, Begins, WalkedBySegments
  <1>5. k - 1 \in 0..n /\ k - 1 \in 0..Len(q) - 2 /\ k \in 1..Len(q) - 1 /\ (k - 1) + 1 = k
    BY <1>2, <1>3, <1>4
  <1>6. k - 1 \notin S
    <2> HIDE DEF S
    <2> QED BY <1>2, <1>3, <1>5
  <1>7. Reached(d, q, j, k - 1, Walked(d, q)[k - 1])
    BY <1>5, <1>6
  <1>8. Reached(d, q, j, (k - 1) + 1, Enter(Walked(d, q)[k - 1], q[(k - 1) + 1]))
    BY <1>5, <1>7, OneSegment
  <1>9. Walked(d, q)[k] = Enter(Walked(d, q)[k - 1], q[k])
    BY <1>5, WalkedBySegments
  <1>10. Reached(d, q, j, k, Walked(d, q)[k])
    BY <1>5, <1>8, <1>9
  <1> QED BY <1>3, <1>10

\* What the loop stores is what the closed form stores.
LEMMA LoopStores ==
  ASSUME NEW d, WellFormed(d), DOMAIN d = Nodes, NEW q \in Paths, NEW v
  PROVE  Stepwise(d, q, v) = YamlSet(d, q, v)
  <1> DEFINE n   == Len(q)
             at  == Landing(d, q)
             s   == Walked(d, q)[n - 1]
             cur == Front(at)
  <1>1. PICK j \in 1..Len(q) : InTheWay(d, q, j)
    BY LandingBySegments
  <1>2. /\ q \in Seq(Segments) /\ n \in Nat /\ n >= 1 /\ at \in Paths /\ at \in Seq(Segments)
        /\ Len(at) \in Nat /\ Len(at) >= 1 /\ at # <<>> /\ Nodes \subseteq Seq(Segments)
    BY LandingIsAPath, NodesAreSequences DEF Nodes
  <1>3. Reached(d, q, j, n - 1, s)
    <2>1. n - 1 \in 0..Len(q) - 1
      BY <1>2
    <2> QED BY <1>1, <2>1, EverySegment
  <1>4. Depth(j, n - 1) = Len(at) - 1 /\ at[Len(at)] = q[n]
    <2>1. CASE j = n /\ at = q
      BY <1>2, <2>1 DEF Depth
    <2>2. CASE j # n
      <3>1. /\ j \in 1..n - 2 /\ Len(at) = n - 1
            /\ \A i \in j + 1..Len(at) : at[i] = q[i + 1]
        BY <1>1, <2>2 DEF InTheWay
      <3>2. Depth(j, n - 1) = n - 2 /\ Len(at) \in j + 1..Len(at) /\ Len(at) + 1 = n
        BY <1>2, <3>1 DEF Depth
      <3> QED BY <1>2, <3>1, <3>2
    <2> QED BY <1>1, <2>1, <2>2 DEF InTheWay
  <1>5. SubSeq(at, 1, Depth(j, n - 1)) = cur
    BY <1>4 DEF Front
  <1>6. /\ s.cur = cur
        /\ \A r \in Nodes : Strict(r, cur) => s.doc[r] = Map
        /\ \A r \in Nodes : r # cur /\ ~Strict(r, cur) /\ r # <<>> => s.doc[r] = d[r]
    BY <1>3, <1>5 DEF Reached
  <1>7. /\ cur \in Seq(Segments) /\ Strict(cur, at) /\ Len(cur) = Len(at) - 1
        /\ \A i \in 1..Len(at) - 1 : cur[i] = at[i]
    BY <1>2, FrontDef
  <1>8. Append(s.cur, Last(q)) = at
    <2> DEFINE a == Append(cur, q[n])
    <2>1. q[n] \in Segments /\ Last(q) = q[n]
      BY <1>2 DEF Last
    <2> HIDE DEF cur, at, s
    <2>2. /\ a \in Seq(Segments) /\ Len(a) = Len(at)
          /\ (\A i \in 1..Len(at) - 1 : a[i] = cur[i])
          /\ a[Len(at)] = q[n]
      BY <1>2, <1>7, <2>1
    <2> HIDE DEF a
    <2>3. \A i \in 1..Len(at) : a[i] = at[i]
      <3>1. \A i \in 1..Len(at) : i \in 1..Len(at) - 1 \/ i = Len(at)
        BY <1>2
      <3> QED BY <1>4, <1>7, <2>2, <3>1
    <2>4. a = at
      BY <1>2, <2>2, <2>3
    <2> QED BY <1>6, <2>1, <2>4 DEF a
  <1>9. Stepwise(d, q, v) =
          [r \in Nodes |-> IF r = at THEN v ELSE IF r = cur THEN Map
                           ELSE IF Strict(at, r) THEN Absent ELSE s.doc[r]]
    <2>1. Stepwise(d, q, v) =
          [r \in Nodes |-> IF r = Append(s.cur, Last(q)) THEN v ELSE IF r = s.cur THEN Map
                           ELSE IF Strict(Append(s.cur, Last(q)), r) THEN Absent
                           ELSE s.doc[r]]
      BY DEF Stepwise
    <2> HIDE DEF at, cur, s
    <2> QED BY <1>6, <1>8, <2>1
  <1>10. YamlSet(d, q, v) = PutAt(d, at, v)
    BY SetIsPut
  <1> HIDE DEF at, cur, s
  <1>11. ASSUME NEW r \in Nodes
         PROVE  (IF r = at THEN v ELSE IF r = cur THEN Map
                 ELSE IF Strict(at, r) THEN Absent ELSE s.doc[r])
              = (IF r = at THEN v ELSE IF Strict(r, at) THEN Map
                 ELSE IF Strict(at, r) THEN Absent ELSE d[r])
    <2>1. CASE r = at
      BY <2>1
    <2>2. CASE Strict(r, at)
      <3>1. r # at /\ ~Strict(at, r) /\ (r = cur \/ Strict(r, cur))
        BY <1>2, <2>2, StrictOrder, AboveTheParent DEF cur
      <3> QED BY <1>6, <2>2, <3>1
    <2>3. CASE r # at /\ ~Strict(r, at)
      <3>1. r # cur /\ ~Strict(r, cur)
        BY <1>2, <1>7, <2>3, StrictOrder
      <3>2. r # <<>>
        BY <1>2, <2>3, RootIsAbove
      <3> QED BY <1>6, <2>3, <3>1, <3>2
    <2> QED BY <2>1, <2>2, <2>3
  <1> QED BY <1>9, <1>10, <1>11 DEF PutAt

(***************************************************************************)
(* The closed form yaml_set is modelled by is what its loop computes, one  *)
(* segment at a time, on every document a file can hold: a leaf in the way *)
(* is replaced and the segment at hand passed over, and nothing else of    *)
(* the document is touched on the way down.                                *)
(***************************************************************************)
THEOREM SetIsTheLoop == Spec => []StoresAsTheLoop
  <1>1. WellTyped => StoresAsTheLoop
    BY LoopStores DEF WellTyped, StoresAsTheLoop
  <1> QED BY <1>1, AlwaysWellTyped, PTL
=============================================================================
