--------------------------- MODULE YamlPathsProofs ---------------------------
(***************************************************************************)
(* Lemmas about YamlPaths: what yaml_set does to a document, for every set *)
(* of paths and every document.                                            *)
(***************************************************************************)
EXTENDS YamlPaths, NaturalSets

-----------------------------------------------------------------------------
(***************************************************************************)
(* Prefixes of sequences.                                                  *)
(***************************************************************************)
LEMMA PrefixDef ==
  ASSUME NEW S, NEW s \in Seq(S), NEW t \in Seq(S)
  PROVE  IsPrefix(s, t) <=> /\ Len(s) <= Len(t)
                            /\ \A i \in 1..Len(s) : s[i] = t[i]
  <1>1. CASE Len(s) <= Len(t)
    <2>1. SubSeq(s, 1, Len(s)) = [i \in 1..Len(s) |-> s[i]]
      OBVIOUS
    <2>2. SubSeq(t, 1, Len(s)) = [i \in 1..Len(s) |-> t[i]]
      BY <1>1
    <2> QED BY <1>1, <2>1, <2>2 DEF IsPrefix
  <1>2. CASE ~(Len(s) <= Len(t))
    BY <1>2 DEF IsPrefix
  <1> QED BY <1>1, <1>2

LEMMA StrictDef ==
  ASSUME NEW S, NEW s \in Seq(S), NEW t \in Seq(S)
  PROVE  Strict(s, t) <=> /\ Len(s) < Len(t)
                          /\ \A i \in 1..Len(s) : s[i] = t[i]
  <1>1. Len(s) = Len(t) /\ (\A i \in 1..Len(s) : s[i] = t[i]) => s = t
    OBVIOUS
  <1> QED BY <1>1, PrefixDef DEF Strict, IsStrictPrefix

LEMMA PrefixOf ==
  ASSUME NEW S, NEW s \in Seq(S), NEW n \in 0..Len(s)
  PROVE  /\ SubSeq(s, 1, n) \in Seq(S) /\ Len(SubSeq(s, 1, n)) = n
         /\ \A i \in 1..n : SubSeq(s, 1, n)[i] = s[i]
  <1>1. SubSeq(s, 1, n) = [i \in 1..n |-> s[i]]
    OBVIOUS
  <1>2. n \in Nat /\ \A i \in 1..n : s[i] \in S
    OBVIOUS
  <1>3. SubSeq(s, 1, n) \in Seq(S)
    BY <1>1, <1>2
  <1> QED BY <1>1, <1>2, <1>3

LEMMA FrontDef ==
  ASSUME NEW S, NEW s \in Seq(S), s # <<>>
  PROVE  /\ Front(s) \in Seq(S) /\ Len(Front(s)) = Len(s) - 1
         /\ \A i \in 1..Len(s) - 1 : Front(s)[i] = s[i]
         /\ Strict(Front(s), s)
  <1>1. Len(s) - 1 \in 0..Len(s)
    OBVIOUS
  <1>2. /\ Front(s) \in Seq(S) /\ Len(Front(s)) = Len(s) - 1
        /\ \A i \in 1..Len(s) - 1 : Front(s)[i] = s[i]
    BY <1>1, PrefixOf DEF Front
  <1> QED BY <1>2, StrictDef

LEMMA RemoveDef ==
  ASSUME NEW S, NEW s \in Seq(S), NEW k \in 1..Len(s)
  PROVE  /\ RemoveAt(s, k) \in Seq(S) /\ Len(RemoveAt(s, k)) = Len(s) - 1
         /\ \A i \in 1..k - 1 : RemoveAt(s, k)[i] = s[i]
         /\ \A i \in k..Len(s) - 1 : RemoveAt(s, k)[i] = s[i + 1]
  <1> DEFINE a == SubSeq(s, 1, k - 1)
             b == SubSeq(s, k + 1, Len(s))
  <1>1. k - 1 \in 0..Len(s) /\ Len(s) - k \in Nat /\ Len(s) \in Nat
    OBVIOUS
  <1>2. a \in Seq(S) /\ Len(a) = k - 1 /\ \A i \in 1..k - 1 : a[i] = s[i]
    BY <1>1, PrefixOf
  <1>3. b = [i \in 1..Len(s) - k |-> s[k + i]]
    <2>1. k + 1 - 1 = k /\ Len(s) - (k + 1) + 1 = Len(s) - k
      BY <1>1
    <2> QED BY <1>1, <2>1
  <1>4. b \in Seq(S) /\ Len(b) = Len(s) - k
    <2>1. \A i \in 1..Len(s) - k : s[k + i] \in S
      BY <1>1
    <2> QED BY <1>1, <1>3, <2>1
  <1>5. \A i \in 1..Len(s) - k : b[i] = s[k + i]
    BY <1>3
  <1> HIDE DEF a, b
  <1>6. /\ a \o b \in Seq(S) /\ Len(a \o b) = Len(s) - 1
        /\ \A i \in 1..k - 1 : (a \o b)[i] = s[i]
    BY <1>1, <1>2, <1>4
  <1>7. ASSUME NEW i \in k..Len(s) - 1
        PROVE  (a \o b)[i] = s[i + 1]
    <2>1. /\ i \in 1..Len(a) + Len(b) /\ ~(i <= Len(a)) /\ i - Len(a) = i - k + 1
          /\ i - k + 1 \in 1..Len(s) - k /\ k + (i - k + 1) = i + 1
      BY <1>1, <1>2, <1>4
    <2>2. (a \o b)[i] = b[i - Len(a)]
      BY <1>2, <1>4, <2>1
    <2> QED BY <1>5, <2>1, <2>2
  <1> QED BY <1>6, <1>7 DEF RemoveAt, a, b

-----------------------------------------------------------------------------
(***************************************************************************)
(* The nodes of a document.                                                *)
(***************************************************************************)
LEMMA NodesAreSequences ==
  /\ Nodes \subseteq Seq(Segments)
  /\ \A q \in Paths : q # <<>> /\ Len(q) >= 1
  <1>1. <<>> \in Seq(Segments)
    OBVIOUS
  <1>2. \A q \in Paths : q \in Seq(Segments) /\ q # <<>>
    BY PathsAssumption
  <1>3. \A q \in Paths : Len(q) >= 1
    BY <1>2
  <1> QED BY <1>1, <1>2, <1>3 DEF Nodes

LEMMA PrefixesAreNodes ==
  ASSUME NEW q \in Paths
  PROVE  /\ \A k \in 0..Len(q) : SubSeq(q, 1, k) \in Nodes
         /\ Front(q) \in Nodes /\ <<>> \in Nodes
  <1>1. \A k \in 1..Len(q) : SubSeq(q, 1, k) \in Nodes
    BY PathsAssumption DEF Nodes
  <1>2. q \in Seq(Segments) /\ Len(q) \in Nat \ {0}
    BY NodesAreSequences DEF Nodes
  <1>3. SubSeq(q, 1, 0) = <<>>
    OBVIOUS
  <1>4. \A k \in 0..Len(q) : k = 0 \/ k \in 1..Len(q)
    OBVIOUS
  <1>5. \A k \in 0..Len(q) : SubSeq(q, 1, k) \in Nodes
    BY <1>1, <1>3, <1>4 DEF Nodes
  <1>6. Len(q) - 1 \in 0..Len(q)
    BY <1>2
  <1> QED BY <1>5, <1>6 DEF Front, Nodes

\* Strict is a strict order whose lower sets are chains.
LEMMA StrictOrder ==
  ASSUME NEW S, NEW s \in Seq(S), NEW t \in Seq(S), NEW u \in Seq(S)
  PROVE  /\ ~Strict(s, s)
         /\ Strict(s, t) => ~Strict(t, s)
         /\ Strict(s, t) /\ Strict(t, u) => Strict(s, u)
         /\ Strict(s, u) /\ Strict(t, u) => s = t \/ Strict(s, t) \/ Strict(t, s)
  <1>1. /\ Len(s) \in Nat /\ Len(t) \in Nat /\ Len(u) \in Nat
    OBVIOUS
  <1>2. ~Strict(s, s) /\ (Strict(s, t) => ~Strict(t, s))
    BY <1>1, StrictDef
  <1>3. Strict(s, t) /\ Strict(t, u) => Strict(s, u)
    BY <1>1, StrictDef
  <1>4. ASSUME Strict(s, u), Strict(t, u)
        PROVE  s = t \/ Strict(s, t) \/ Strict(t, s)
    <2>1. /\ \A i \in 1..Len(s) : s[i] = u[i]
          /\ \A i \in 1..Len(t) : t[i] = u[i]
      BY <1>4, StrictDef
    <2>2. CASE Len(s) < Len(t)
      BY <1>1, <2>1, <2>2, StrictDef
    <2>3. CASE Len(t) < Len(s)
      BY <1>1, <2>1, <2>3, StrictDef
    <2>4. CASE Len(s) = Len(t)
      BY <1>1, <2>1, <2>4
    <2> QED BY <1>1, <2>2, <2>3, <2>4
  <1> QED BY <1>2, <1>3, <1>4

\* What is above t is its parent or above its parent.
LEMMA AboveTheParent ==
  ASSUME NEW S, NEW s \in Seq(S), NEW t \in Seq(S), Strict(s, t)
  PROVE  s = Front(t) \/ Strict(s, Front(t))
  <1>1. Len(s) < Len(t) /\ Len(s) \in Nat /\ Len(t) \in Nat
    BY StrictDef
  <1>2. t # <<>>
    BY <1>1
  <1>3. /\ Front(t) \in Seq(S) /\ Strict(Front(t), t)
        /\ Len(Front(t)) = Len(t) - 1
    BY <1>2, FrontDef
  <1>4. ~Strict(Front(t), s)
    BY <1>1, <1>3, StrictDef
  <1> QED BY <1>3, <1>4, StrictOrder

LEMMA RootIsAbove == \A q \in Paths : Strict(<<>>, q)
  <1> SUFFICES ASSUME NEW q \in Paths PROVE Strict(<<>>, q) OBVIOUS
  <1> DEFINE root == <<>>
  <1>1. q \in Seq(Segments) /\ root \in Seq(Segments)
    BY NodesAreSequences DEF Nodes
  <1>2. Len(root) = 0 /\ Len(q) \in Nat /\ Len(q) >= 1
    BY <1>1, NodesAreSequences
  <1> HIDE DEF root
  <1>3. Len(root) < Len(q) /\ \A i \in 1..Len(root) : root[i] = q[i]
    BY <1>2
  <1>4. Strict(root, q)
    BY <1>1, <1>3, StrictDef
  <1> QED BY <1>4 DEF root

-----------------------------------------------------------------------------
(***************************************************************************)
(* Storing a value.                                                        *)
(***************************************************************************)
PutAt(doc, at, v) ==
    [q \in Nodes |-> IF q = at THEN v
                     ELSE IF Strict(q, at) THEN Map
                     ELSE IF Strict(at, q) THEN Absent
                     ELSE doc[q]]

LEMMA SetIsPut ==
  \A d, q, v : YamlSet(d, q, v) = PutAt(d, Landing(d, q), v)
  BY DEF YamlSet, PutAt

\* A mapping that is created, or a leaf that is replaced, leaves no orphan.
LEMMA PutWellFormed ==
  ASSUME NEW d, WellFormed(d), NEW at \in Paths, NEW v
  PROVE  WellFormed(PutAt(d, at, v))
  <1> DEFINE e == PutAt(d, at, v)
  <1>1. at \in Seq(Segments) /\ <<>> \in Nodes /\ <<>> # at /\ Strict(<<>>, at)
    BY NodesAreSequences, RootIsAbove DEF Nodes
  <1>2. e[<<>>] = Map
    BY <1>1 DEF PutAt
  <1>3. ASSUME NEW q \in Paths, e[q] # Absent PROVE e[Front(q)] = Map
    <2> DEFINE f == Front(q)
    <2>1. /\ q \in Seq(Segments) /\ f \in Nodes /\ f \in Seq(Segments)
          /\ q \in Nodes /\ Strict(f, q)
      BY NodesAreSequences, PrefixesAreNodes, FrontDef DEF Nodes
    <2>2. CASE q = at \/ Strict(q, at)
      <3>1. Strict(f, at)
        BY <1>1, <2>1, <2>2, StrictOrder
      <3>2. f # at
        BY <1>1, <3>1, StrictOrder
      <3> QED BY <2>1, <3>1, <3>2 DEF PutAt
    <2>3. CASE q # at /\ ~Strict(q, at)
      <3>1. ~Strict(at, q) /\ d[q] # Absent
        BY <1>3, <2>1, <2>3 DEF PutAt
      <3>2. f # at /\ ~Strict(at, f)
        BY <1>1, <2>1, <3>1, StrictOrder
      <3>3. d[f] = Map
        BY <3>1 DEF WellFormed
      <3> QED BY <2>1, <3>2, <3>3 DEF PutAt
    <2> QED BY <2>2, <2>3
  <1>4. e[<<>>] # Absent
    BY <1>2, PathsAssumption
  <1> QED BY <1>3, <1>4 DEF WellFormed

\* Where yaml_set stores is a path, and the one it was given unless a leaf
\* stands above it.
LEMMA LandingIsAPath ==
  ASSUME NEW d, NEW q \in Paths
  PROVE  /\ Landing(d, q) \in Paths
         /\ (\A k \in 1..Len(q) - 2 : ~IsLeaf(d, SubSeq(q, 1, k)))
              => Landing(d, q) = q
  <1> DEFINE blocked == {k \in 1..Len(q) - 2 : IsLeaf(d, SubSeq(q, 1, k))}
             j == CHOOSE k \in blocked : TRUE
  <1>1. CASE blocked = {}
    BY <1>1 DEF Landing
  <1>2. CASE blocked # {}
    <2>1. j \in blocked
      BY <1>2
    <2>2. Len(q) \in Nat
      BY NodesAreSequences DEF Nodes
    <2>3. 1 + j \in 2..Len(q) - 1
      BY <2>1, <2>2
    <2>4. Landing(d, q) = RemoveAt(q, 1 + j)
      BY <1>2 DEF Landing
    <2>5. RemoveAt(q, 1 + j) \in Paths
      BY <2>3, PathsAssumption
    <2> QED BY <1>2, <2>4, <2>5
  <1> QED BY <1>1, <1>2

LEMMA SetWellFormed ==
  ASSUME NEW d, WellFormed(d), NEW q \in Paths, NEW v
  PROVE  WellFormed(YamlSet(d, q, v))
  BY SetIsPut, PutWellFormed, LandingIsAPath

LEMMA SetType ==
  ASSUME NEW L, NEW d \in [Nodes -> L], NEW q \in Paths, NEW v \in L,
         Map \in L, Absent \in L
  PROVE  YamlSet(d, q, v) \in [Nodes -> L]
  BY SetIsPut DEF PutAt

\* Without a leaf in the way the value is at its path, and only what is
\* above or below it has changed.
LEMMA SetThere ==
  ASSUME NEW d, NEW q \in Paths, NEW v,
         \A k \in 1..Len(q) - 2 : ~IsLeaf(d, SubSeq(q, 1, k))
  PROVE  /\ YamlSet(d, q, v)[q] = v
         /\ \A r \in Nodes : ~Strict(q, r) /\ ~Strict(r, q) /\ r # q
              => YamlSet(d, q, v)[r] = d[r]
  <1>1. YamlSet(d, q, v) = PutAt(d, q, v)
    BY SetIsPut, LandingIsAPath
  <1> QED BY <1>1 DEF PutAt, Nodes

\* Nothing stands below what is not a mapping.
LEMMA NothingBelow ==
  ASSUME NEW d, WellFormed(d), NEW q \in Paths, NEW j \in 1..Len(q),
         d[SubSeq(q, 1, j)] # Map
  PROVE  \A k \in j + 1..Len(q) : d[SubSeq(q, 1, k)] = Absent
  <1> DEFINE p(k) == SubSeq(q, 1, k)
             S    == {k \in j + 1..Len(q) : d[p(k)] # Absent}
  <1>1. q \in Seq(Segments) /\ Len(q) \in Nat
    BY NodesAreSequences DEF Nodes
  <1>2. SUFFICES ASSUME S # {} PROVE FALSE
    OBVIOUS
  <1>3. S \in SUBSET Nat
    BY <1>1
  <1>4. PICK m \in S : \A x \in S : m <= x
    BY <1>2, <1>3, LeastOf
  <1>5. /\ m \in j + 1..Len(q) /\ m - 1 \in j..Len(q) /\ m \in 0..Len(q)
        /\ m \in 1..Len(q) /\ m - 1 \in 0..Len(q)
    BY <1>1, <1>4
  <1>6. p(m) \in Paths
    BY <1>5, PathsAssumption
  <1>7. Front(p(m)) = p(m - 1)
    <2>1. /\ p(m) \in Seq(Segments) /\ Len(p(m)) = m
          /\ p(m - 1) \in Seq(Segments) /\ Len(p(m - 1)) = m - 1
          /\ \A i \in 1..m : p(m)[i] = q[i]
          /\ \A i \in 1..m - 1 : p(m - 1)[i] = q[i]
      BY <1>1, <1>5, PrefixOf
    <2>2. p(m) # <<>>
      BY <1>5, <2>1
    <2> HIDE DEF p
    <2>3. /\ Front(p(m)) \in Seq(Segments) /\ Len(Front(p(m))) = m - 1
          /\ \A i \in 1..m - 1 : Front(p(m))[i] = q[i]
      <3> DEFINE s == p(m)
      <3>1. /\ s \in Seq(Segments) /\ s # <<>> /\ Len(s) = m
            /\ \A i \in 1..m : s[i] = q[i]
        BY <2>1, <2>2
      <3> HIDE DEF s
      <3>2. /\ Front(s) \in Seq(Segments) /\ Len(Front(s)) = Len(s) - 1
            /\ \A i \in 1..Len(s) - 1 : Front(s)[i] = s[i]
        BY <3>1, FrontDef
      <3>3. \A i \in 1..m - 1 : Front(s)[i] = q[i]
        BY <1>5, <3>1, <3>2
      <3> QED BY <3>1, <3>2, <3>3 DEF s
    <2> QED BY <2>1, <2>3
  <1>8. d[p(m - 1)] = Map
    BY <1>4, <1>6, <1>7 DEF WellFormed
  <1>9. m - 1 # j
    BY <1>8
  <1>10. m - 1 \in j + 1..Len(q) /\ m - 1 \notin S
    BY <1>1, <1>4, <1>5, <1>9
  <1> QED BY <1>8, <1>10, PathsAssumption

LEMMA AbsentBelow ==
  ASSUME NEW d, WellFormed(d), NEW q \in Paths, NEW r \in Paths, Strict(q, r), d[q] = Absent
  PROVE  d[r] = Absent
  <1> DEFINE j == Len(q)
             n == Len(r)
  <1>1. /\ q \in Seq(Segments) /\ r \in Seq(Segments) /\ j \in Nat /\ n \in Nat /\ j >= 1
    BY NodesAreSequences DEF Nodes
  <1>2. j < n /\ \A i \in 1..j : q[i] = r[i]
    BY <1>1, StrictDef
  <1>3. /\ SubSeq(r, 1, j) \in Seq(Segments) /\ Len(SubSeq(r, 1, j)) = j
        /\ \A i \in 1..j : SubSeq(r, 1, j)[i] = r[i]
    <2>1. j \in 0..Len(r)
      BY <1>1, <1>2
    <2> HIDE DEF j
    <2> QED BY <1>1, <2>1, PrefixOf
  <1>4. /\ SubSeq(r, 1, n) \in Seq(Segments) /\ Len(SubSeq(r, 1, n)) = n
        /\ \A i \in 1..n : SubSeq(r, 1, n)[i] = r[i]
    <2>1. n \in 0..Len(r)
      BY <1>1
    <2> HIDE DEF n
    <2> QED BY <1>1, <2>1, PrefixOf
  <1>5. SubSeq(r, 1, j) = q
    <2> DEFINE s == SubSeq(r, 1, j)
    <2>1. s \in Seq(Segments) /\ Len(s) = Len(q) /\ \A i \in 1..Len(q) : s[i] = q[i]
      BY <1>2, <1>3
    <2> HIDE DEF s
    <2>2. s = q
      BY <1>1, <2>1
    <2> QED BY <2>2 DEF s
  <1>6. SubSeq(r, 1, n) = r
    <2> DEFINE s == SubSeq(r, 1, n)
    <2>1. s \in Seq(Segments) /\ Len(s) = Len(r) /\ \A i \in 1..Len(r) : s[i] = r[i]
      BY <1>4
    <2> HIDE DEF s
    <2>2. s = r
      BY <1>1, <2>1
    <2> QED BY <2>2 DEF s
  <1>7. d[SubSeq(r, 1, j)] # Map
    BY <1>5, PathsAssumption
  <1>8. j \in 1..Len(r) /\ n \in j + 1..Len(r)
    BY <1>1, <1>2
  <1>9. d[SubSeq(r, 1, n)] = Absent
    BY <1>7, <1>8, NothingBelow
  <1> QED BY <1>6, <1>9

\* Where a leaf stood above the path before a write, none does after it.
LEMMA SetClearsTheWay ==
  ASSUME NEW d, WellFormed(d), NEW q \in Paths, NEW v,
         NEW k \in 1..Len(q) - 2
  PROVE  ~IsLeaf(YamlSet(d, q, v), SubSeq(q, 1, k))
  <1> DEFINE blocked == {i \in 1..Len(q) - 2 : IsLeaf(d, SubSeq(q, 1, i))}
             j  == CHOOSE i \in blocked : TRUE
             at == Landing(d, q)
             p  == SubSeq(q, 1, k)
             e  == YamlSet(d, q, v)
  <1>1. /\ q \in Seq(Segments) /\ Len(q) \in Nat /\ k \in 0..Len(q)
        /\ k \in Nat /\ k <= Len(q) - 2
    BY NodesAreSequences DEF Nodes
  <1>2. /\ p \in Nodes /\ p \in Seq(Segments) /\ Len(p) = k
        /\ \A i \in 1..k : p[i] = q[i]
    BY <1>1, PrefixesAreNodes, PrefixOf
  <1>3. at \in Paths /\ at \in Seq(Segments)
    BY LandingIsAPath, NodesAreSequences DEF Nodes
  <1>4. e[p] = IF p = at THEN v ELSE IF Strict(p, at) THEN Map
               ELSE IF Strict(at, p) THEN Absent ELSE d[p]
    BY <1>2, SetIsPut DEF PutAt
  <1>5. CASE blocked = {}
    <2>1. at = q
      BY <1>5, LandingIsAPath
    <2> HIDE DEF p, at, e
    <2>2. Len(p) < Len(q) /\ \A i \in 1..Len(p) : p[i] = q[i]
      BY <1>1, <1>2
    <2>3. Strict(p, q)
      BY <1>1, <1>2, <2>2, StrictDef
    <2>4. p # q
      BY <2>2, <1>1
    <2>5. ~IsLeaf(e, p)
      BY <1>4, <2>1, <2>3, <2>4 DEF IsLeaf
    <2> QED BY <2>5 DEF p, e
  <1>6. CASE blocked # {}
    <2>1. j \in blocked
      BY <1>6
    <2>2. at = RemoveAt(q, 1 + j)
      BY <1>6 DEF Landing
    <2> HIDE DEF j
    <2>3. /\ j \in 1..Len(q) - 2 /\ IsLeaf(d, SubSeq(q, 1, j))
          /\ j \in 1..Len(q) /\ j \in Nat
      BY <1>1, <2>1
    <2>4. CASE k <= j
      <3> HIDE DEF p, at, e
      <3>1. 1 + j \in 1..Len(q) /\ (1 + j) - 1 = j
        BY <1>1, <2>3
      <3>2. Len(at) = Len(q) - 1 /\ \A i \in 1..j : at[i] = q[i]
        BY <1>1, <2>2, <3>1, RemoveDef
      <3>3. Len(p) < Len(at) /\ \A i \in 1..Len(p) : p[i] = at[i]
        BY <1>1, <1>2, <2>3, <2>4, <3>2
      <3>4. Strict(p, at)
        BY <1>2, <1>3, <3>3, StrictDef
      <3>5. ~IsLeaf(e, p)
        BY <1>2, <1>3, <1>4, <3>4, StrictOrder DEF IsLeaf
      <3> QED BY <3>5 DEF p, e
    <2>5. CASE j < k
      <3>1. k \in j + 1..Len(q)
        BY <1>1, <2>3, <2>5
      <3>2. d[p] = Absent
        BY <2>3, <3>1, NothingBelow DEF IsLeaf
      <3> HIDE DEF p, at, e
      <3>3. 1 + j \in 1..Len(q)
        BY <1>1, <2>3
      <3>4. Len(at) = Len(q) - 1
        BY <1>1, <2>2, <3>3, RemoveDef
      <3>5. Len(p) < Len(at)
        BY <1>1, <1>2, <3>4
      <3>6. p # at
        BY <1>2, <3>5
      <3>7. ~IsLeaf(e, p)
        BY <1>4, <3>2, <3>6 DEF IsLeaf
      <3> QED BY <3>7 DEF p, e
    <2> QED BY <1>1, <2>3, <2>4, <2>5
  <1> QED BY <1>5, <1>6

-----------------------------------------------------------------------------
(***************************************************************************)
(* The one leaf in the way.                                                *)
(***************************************************************************)
\* Below a leaf nothing stands, so at most one leaf stands above a path.
LEMMA OneInTheWay ==
  ASSUME NEW d, WellFormed(d), NEW q \in Paths,
         NEW i \in 1..Len(q) - 2, NEW j \in 1..Len(q) - 2,
         IsLeaf(d, SubSeq(q, 1, i)), IsLeaf(d, SubSeq(q, 1, j))
  PROVE  i = j
  <1>1. Len(q) \in Nat
    BY NodesAreSequences DEF Nodes
  <1>2. ASSUME NEW a \in 1..Len(q) - 2, NEW b \in 1..Len(q) - 2, a < b,
               IsLeaf(d, SubSeq(q, 1, a)), IsLeaf(d, SubSeq(q, 1, b))
        PROVE  FALSE
    <2>1. a \in 1..Len(q) /\ b \in a + 1..Len(q)
      BY <1>1, <1>2
    <2>2. d[SubSeq(q, 1, a)] # Map
      BY <1>2 DEF IsLeaf
    <2>3. d[SubSeq(q, 1, b)] = Absent
      BY <2>1, <2>2, NothingBelow
    <2> QED BY <1>2, <2>3 DEF IsLeaf
  <1>3. i < j \/ j < i \/ i = j
    BY <1>1
  <1> QED BY <1>2, <1>3

\* The place of a value, segment by segment: up to the leaf in the way the
\* path's own, from there on one segment behind.
InTheWay(d, q, j) ==
  LET at == Landing(d, q) IN
  /\ \A i \in 1..Len(q) - 2 : IsLeaf(d, SubSeq(q, 1, i)) => i = j
  /\ \A i \in 1..Len(at) : i <= j => at[i] = q[i]
  /\ \/ j = Len(q) /\ at = q
     \/ /\ j \in 1..Len(q) - 2 /\ IsLeaf(d, SubSeq(q, 1, j))
        /\ Len(at) = Len(q) - 1
        /\ \A i \in j + 1..Len(at) : at[i] = q[i + 1]

LEMMA LandingBySegments ==
  ASSUME NEW d, WellFormed(d), NEW q \in Paths
  PROVE  \E j \in 1..Len(q) : InTheWay(d, q, j)
  <1> DEFINE blocked == {k \in 1..Len(q) - 2 : IsLeaf(d, SubSeq(q, 1, k))}
             j == CHOOSE k \in blocked : TRUE
  <1>1. q \in Seq(Segments) /\ Len(q) \in Nat /\ Len(q) >= 1
    BY NodesAreSequences DEF Nodes
  <1>2. CASE blocked = {}
    <2>1. Landing(d, q) = q
      BY <1>2 DEF Landing
    <2>2. Len(q) \in 1..Len(q)
      BY <1>1
    <2>3. InTheWay(d, q, Len(q))
      BY <1>2, <2>1 DEF InTheWay
    <2> QED BY <2>2, <2>3
  <1>3. CASE blocked # {}
    <2>1. j \in blocked
      BY <1>3
    <2>2. Landing(d, q) = RemoveAt(q, 1 + j)
      BY <1>3 DEF Landing
    <2> HIDE DEF j
    <2>3. /\ j \in 1..Len(q) - 2 /\ IsLeaf(d, SubSeq(q, 1, j)) /\ j \in 1..Len(q)
          /\ j + 1 \in 1..Len(q) /\ (j + 1) - 1 = j /\ 1 + j = j + 1
      BY <1>1, <2>1
    <2> DEFINE at == RemoveAt(q, j + 1)
    <2>4. /\ Len(at) = Len(q) - 1
          /\ \A i \in 1..j : at[i] = q[i]
          /\ \A i \in j + 1..Len(q) - 1 : at[i] = q[i + 1]
      BY <1>1, <2>3, RemoveDef
    <2>5. Landing(d, q) = at
      BY <2>2, <2>3
    <2> HIDE DEF at
    <2>6. \A i \in 1..Len(q) - 2 : IsLeaf(d, SubSeq(q, 1, i)) => i = j
      BY <2>3, OneInTheWay
    <2>7. \A i \in 1..Len(at) : i <= j => at[i] = q[i]
      BY <1>1, <2>3, <2>4
    <2>8. InTheWay(d, q, j)
      BY <2>3, <2>4, <2>5, <2>6, <2>7 DEF InTheWay
    <2> QED BY <2>3, <2>8
  <1> QED BY <1>2, <1>3
=============================================================================
