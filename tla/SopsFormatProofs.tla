--------------------------- MODULE SopsFormatProofs ---------------------------
(***************************************************************************)
(* Theorems about the form of a sops file: its leaves (SopsLeaf) and its   *)
(* block (SopsBlock).                                                      *)
(*                                                                         *)
(* What the encrypting walk makes of a leaf or a comment, the decrypting   *)
(* walk takes back, for every policy, every text and every comment around  *)
(* it.  The two walks go over the same places in the same order.  Sets are *)
(* the comments the encrypting walk has seen on its way to a place, the    *)
(* innermost set last; the decrypting walk sees what became of them.       *)
(*                                                                         *)
(* What is written of a block is read back: every key, every field.  So    *)
(* what is written of a file opens: every leaf of every tree, and the MAC. *)
(***************************************************************************)
EXTENDS SopsBlock, NaturalSets

-----------------------------------------------------------------------------
(***************************************************************************)
(* What the last two stages of the selector look at.                       *)
(***************************************************************************)
\* The stages that look at the path.
Keyed(p, path) ==
    LET Hit(f, words) == p[f] # None /\ words \cap Matches[p[f]] # {}
        keys == ToSet(path)
        s1 == ~Hit("unencrypted_suffix", keys)
        s2 == IF p.encrypted_suffix = None THEN s1 ELSE Hit("encrypted_suffix", keys)
        s3 == s2 /\ ~Hit("unencrypted_regex", keys)
    IN  IF p.encrypted_regex = None THEN s3 ELSE Hit("encrypted_regex", keys)

LEMMA SelectByComments ==
  ASSUME NEW p, NEW path, NEW sets, NEW c \in BOOLEAN
  PROVE  Select(p, path, sets, c) <=>
           IF p.encrypted_comment_regex = None
           THEN /\ Keyed(p, path)
                /\ \/ p.unencrypted_comment_regex = None
                   \/ Seen(sets) \cap Matches[p.unencrypted_comment_regex] = {}
           ELSE Seen(IF c THEN Above(sets) ELSE sets)
                  \cap Matches[p.encrypted_comment_regex] # {}
  BY DEF Select, Keyed

\* Sequences of sets of comments.
Comments(sets, C) ==
    /\ sets \in Seq(Seq(C))
    /\ \A c \in C : DOMAIN c = {"t", "text", "enc"}

LEMMA SeenAt ==
  ASSUME NEW C, NEW sets \in Seq(Seq(C)), NEW w
  PROVE  w \in Seen(sets) <=>
           \E k \in 1..Len(sets) : \E j \in 1..Len(sets[k]) : w = SeenAs(sets[k][j])
  <1>1. /\ DOMAIN sets = 1..Len(sets)
        /\ \A k \in 1..Len(sets) : DOMAIN sets[k] = 1..Len(sets[k])
    OBVIOUS
  <1>2. Seen(sets) = {SeenAs(i) : i \in UNION {ToSet(sets[k]) : k \in 1..Len(sets)}}
    BY <1>1 DEF Seen
  <1>3. \A k \in 1..Len(sets) : ToSet(sets[k]) = {sets[k][j] : j \in 1..Len(sets[k])}
    BY <1>1 DEF ToSet
  <1>4. \A i : i \in UNION {ToSet(sets[k]) : k \in 1..Len(sets)}
               <=> \E k \in 1..Len(sets) : \E j \in 1..Len(sets[k]) : i = sets[k][j]
    <2> SUFFICES ASSUME NEW i
                 PROVE  i \in UNION {ToSet(sets[k]) : k \in 1..Len(sets)}
                   <=> \E k \in 1..Len(sets) : \E j \in 1..Len(sets[k]) : i = sets[k][j]
      OBVIOUS
    <2>1. i \in UNION {ToSet(sets[k]) : k \in 1..Len(sets)}
            <=> \E k \in 1..Len(sets) : i \in ToSet(sets[k])
      BY Zenon
    <2>2. \A k \in 1..Len(sets) : i \in ToSet(sets[k])
            <=> \E j \in 1..Len(sets[k]) : i = sets[k][j]
      BY <1>3, Zenon
    <2> QED BY <2>1, <2>2, Zenon
  <1> DEFINE all == UNION {ToSet(sets[k]) : k \in 1..Len(sets)}
  <1>5. w \in Seen(sets) <=> \E i \in all : w = SeenAs(i)
    BY <1>2, Zenon
  <1>6. \A i : i \in all <=> \E k \in 1..Len(sets) : \E j \in 1..Len(sets[k]) : i = sets[k][j]
    BY <1>4
  <1> HIDE DEF all
  <1>7. ASSUME NEW i \in all, w = SeenAs(i)
        PROVE  \E k \in 1..Len(sets) : \E j \in 1..Len(sets[k]) : w = SeenAs(sets[k][j])
    <2>1. PICK k \in 1..Len(sets) : \E j \in 1..Len(sets[k]) : i = sets[k][j]
      BY <1>6, Zenon
    <2>2. PICK j \in 1..Len(sets[k]) : i = sets[k][j]
      BY <2>1, Zenon
    <2>3. w = SeenAs(sets[k][j])
      BY <1>7, <2>2
    <2> QED BY <2>3, Zenon
  <1>8. ASSUME NEW k \in 1..Len(sets), NEW j \in 1..Len(sets[k]), w = SeenAs(sets[k][j])
        PROVE  \E i \in all : w = SeenAs(i)
    <2>1. sets[k][j] \in all
      BY <1>6, Zenon
    <2> QED BY <1>8, <2>1, Zenon
  <1> QED BY <1>5, <1>7, <1>8, Zenon

(***************************************************************************)
(* The sets as they were when the j-th comment of the k-th was visited:    *)
(* it was the last of the innermost.                                       *)
(***************************************************************************)
UpTo(sets, k, j) == Append(SubSeq(sets, 1, k - 1), SubSeq(sets[k], 1, j))

LEMMA UpToIs ==
  ASSUME NEW C, NEW sets \in Seq(Seq(C)), NEW k \in 1..Len(sets), NEW j \in 1..Len(sets[k])
  PROVE  LET u == UpTo(sets, k, j) IN
         /\ u \in Seq(Seq(C)) /\ Len(u) = k
         /\ \A i \in 1..k - 1 : u[i] = sets[i]
         /\ Len(u[k]) = j /\ \A i \in 1..j : u[k][i] = sets[k][i]
  <1> DEFINE front == SubSeq(sets, 1, k - 1)
             last  == SubSeq(sets[k], 1, j)
  <1>1. sets[k] \in Seq(C)
    OBVIOUS
  <1>2. front \in Seq(Seq(C)) /\ Len(front) = k - 1 /\ \A i \in 1..k - 1 : front[i] = sets[i]
    OBVIOUS
  <1>3. last \in Seq(C) /\ Len(last) = j /\ \A i \in 1..j : last[i] = sets[k][i]
    BY <1>1
  <1>4. UpTo(sets, k, j) = Append(front, last)
    BY DEF UpTo
  <1> HIDE DEF front, last
  <1> QED BY <1>2, <1>3, <1>4

\* Without the comment itself.
LEMMA AboveIs ==
  ASSUME NEW C, NEW sets \in Seq(Seq(C)), NEW k \in 1..Len(sets), NEW j \in 1..Len(sets[k])
  PROVE  LET a == Above(UpTo(sets, k, j)) IN
         /\ a \in Seq(Seq(C)) /\ Len(a) = k
         /\ \A i \in 1..k - 1 : a[i] = sets[i]
         /\ Len(a[k]) = j - 1 /\ \A i \in 1..j - 1 : a[k][i] = sets[k][i]
  <1> DEFINE u == UpTo(sets, k, j)
             front == SubSeq(u[k], 1, j - 1)
  <1>1. /\ u \in Seq(Seq(C)) /\ Len(u) = k
        /\ \A i \in 1..k - 1 : u[i] = sets[i]
        /\ Len(u[k]) = j /\ \A i \in 1..j : u[k][i] = sets[k][i]
    BY UpToIs
  <1> HIDE DEF u
  <1>2. u[k] \in Seq(C) /\ u[k] # <<>>
    BY <1>1
  <1>3. /\ front \in Seq(C) /\ Len(front) = j - 1
        /\ \A i \in 1..j - 1 : front[i] = sets[k][i]
    BY <1>1, <1>2
  <1>4. Above(u) = [u EXCEPT ![k] = front]
    BY <1>1, <1>2 DEF Above, Front
  <1> HIDE DEF front
  <1>5. Above(u) \in Seq(Seq(C)) /\ Len(Above(u)) = k
    BY <1>1, <1>3, <1>4
  <1> QED BY <1>1, <1>3, <1>4, <1>5 DEF u

-----------------------------------------------------------------------------
(***************************************************************************)
(* What the encrypting walk makes of the comments it passes.               *)
(***************************************************************************)
ContextOK(x) ==
    DOMAIN x = {"dir", "key", "policy", "mac_only", "mac", "fed", "stash", "by",
                "drawn", "err"}

\* Each comment was visited, on some path, after those before it.
Image(p, sets, out) ==
    /\ Len(out) = Len(sets)
    /\ \A k \in 1..Len(sets) :
         /\ Len(out[k]) = Len(sets[k])
         /\ \A j \in 1..Len(sets[k]) : \E x, path :
              /\ ContextOK(x) /\ x.dir = "encrypt" /\ x.policy = p
              /\ LET r == VisitComment(x, sets[k][j], path, UpTo(sets, k, j)) IN
                   r.x.err = None /\ out[k][j] = r.i

\* No ciphertext, of a leaf or of the MAC, is taken for "not encrypted".
NoneIsNoCipher ==
    /\ \A key, aad, pt, iv : [key |-> key, aad |-> aad, pt |-> pt, iv |-> iv] # None
    /\ \A key, at, of, iv : [key |-> key, at |-> at, of |-> of, iv |-> iv] # None

LEMMA SealedIsCipher ==
  ASSUME NoneIsNoCipher, NEW x, NEW pt, NEW aad
  PROVE  Sealed(x, pt, aad) # None
  BY DEF NoneIsNoCipher, Sealed

\* A comment stays as it is, or is sealed: then the selector said so, and no
\* pattern that exempts matches a ciphertext.
LEMMA CommentsVisited ==
  ASSUME NoneIsNoCipher, NEW x, ContextOK(x), x.dir = "encrypt",
         NEW c, DOMAIN c = {"t", "text", "enc"}, NEW path, NEW sets,
         VisitComment(x, c, path, sets).x.err = None
  PROVE  LET d == VisitComment(x, c, path, sets).i IN
         \/ d = c
         \/ /\ SeenAs(d) = EncWord
            /\ Select(x.policy, path, sets, TRUE)
            /\ \/ x.policy.unencrypted_comment_regex = None
               \/ EncWord \notin Matches[x.policy.unencrypted_comment_regex]
  <1> DEFINE sealed == Sealed(x, Plaintext("comment", c.text), Aad(path))
             d      == [c EXCEPT !.enc = sealed]
             bars   == /\ x.policy.unencrypted_comment_regex # None
                       /\ EncWord \in Matches[x.policy.unencrypted_comment_regex]
             r      == VisitComment(x, c, path, sets)
  <1>1. sealed # None
    BY SealedIsCipher
  <1>2. d.enc = sealed
    OBVIOUS
  <1>3. SeenAs(d) = EncWord
    BY <1>1, <1>2 DEF SeenAs
  <1>4. CASE ~Select(x.policy, path, sets, TRUE) \/ c.text = ""
    BY <1>4 DEF VisitComment
  <1>5. CASE Select(x.policy, path, sets, TRUE) /\ c.text # "" /\ bars
    <2>1. r.x = Refuse(x, "self-defeating comment regex")
      BY <1>5 DEF VisitComment
    <2>2. r.x.err = "self-defeating comment regex"
      BY <2>1 DEF Refuse, ContextOK
    <2> QED BY <2>2, LeafAssumption DEF WalkErrors
  <1>6. CASE Select(x.policy, path, sets, TRUE) /\ c.text # "" /\ ~bars
    <2>1. r.i = d
      BY <1>6 DEF VisitComment
    <2> HIDE DEF d
    <2> QED BY <1>3, <1>6, <2>1
  <1> QED BY <1>4, <1>5, <1>6

SealedThere(p, sets, out, k, j) ==
    /\ SeenAs(out[k][j]) = EncWord
    /\ \E path : Select(p, path, UpTo(sets, k, j), TRUE)
    /\ \/ p.unencrypted_comment_regex = None
       \/ EncWord \notin Matches[p.unencrypted_comment_regex]

LEMMA ImageOf ==
  ASSUME NoneIsNoCipher, NEW C, NEW sets, Comments(sets, C), NEW p, NEW out,
         Image(p, sets, out), NEW k \in 1..Len(sets), NEW j \in 1..Len(sets[k])
  PROVE  out[k][j] = sets[k][j] \/ SealedThere(p, sets, out, k, j)
  <1>1. sets[k][j] \in C
    BY DEF Comments
  <1>2. PICK x, path :
          /\ ContextOK(x) /\ x.dir = "encrypt" /\ x.policy = p
          /\ VisitComment(x, sets[k][j], path, UpTo(sets, k, j)).x.err = None
          /\ out[k][j] = VisitComment(x, sets[k][j], path, UpTo(sets, k, j)).i
    BY DEF Image
  <1>3. DOMAIN sets[k][j] = {"t", "text", "enc"}
    BY <1>1 DEF Comments
  <1> QED BY <1>2, <1>3, CommentsVisited DEF SealedThere

-----------------------------------------------------------------------------
(***************************************************************************)
(* A regex that hits what the encrypting walk saw hits what became of it,  *)
(* and the other way round.  One that exempts: no comment it hits was      *)
(* sealed, nor does it hit a ciphertext.  One that selects: the first      *)
(* comment it hits was not sealed, as it does not select itself, and       *)
(* without one there is no ciphertext.                                     *)
(***************************************************************************)
Hit(sets, words) ==
    \E k \in 1..Len(sets) : \E j \in 1..Len(sets[k]) : SeenAs(sets[k][j]) \in words

LEMMA HitsSeen ==
  ASSUME NEW C, NEW sets \in Seq(Seq(C)), NEW words
  PROVE  Hit(sets, words) <=> Seen(sets) \cap words # {}
  <1>1. \A w : w \in Seen(sets) <=>
          \E k \in 1..Len(sets) : \E j \in 1..Len(sets[k]) : w = SeenAs(sets[k][j])
    BY SeenAt
  <1>2. Seen(sets) \cap words # {} <=> \E w \in words : w \in Seen(sets)
    OBVIOUS
  <1>3. Hit(sets, words) <=> \E w \in words :
          \E k \in 1..Len(sets) : \E j \in 1..Len(sets[k]) : w = SeenAs(sets[k][j])
    BY Zenon DEF Hit
  <1> QED BY <1>1, <1>2, <1>3, Zenon

LEMMA ExemptsAlike ==
  ASSUME NoneIsNoCipher, NEW C, NEW sets, Comments(sets, C), NEW p, NEW out,
         Image(p, sets, out), p.unencrypted_comment_regex # None,
         p.encrypted_comment_regex = None,
         NEW words, words = Matches[p.unencrypted_comment_regex]
  PROVE  Hit(out, words) <=> Hit(sets, words)
  <1>1. SUFFICES ASSUME NEW k \in 1..Len(sets), NEW j \in 1..Len(sets[k])
                 PROVE  SeenAs(out[k][j]) \in words <=> SeenAs(sets[k][j]) \in words
    <2>1. /\ Len(out) = Len(sets)
          /\ \A k \in 1..Len(sets) : Len(out[k]) = Len(sets[k])
      BY DEF Image
    <2> QED BY <2>1 DEF Hit
  <1>2. CASE out[k][j] = sets[k][j]
    BY <1>2
  <1>3. CASE out[k][j] # sets[k][j]
    <2>0. SealedThere(p, sets, out, k, j)
      BY <1>3, ImageOf
    <2>1. SeenAs(out[k][j]) = EncWord /\ EncWord \notin words
      BY <2>0 DEF SealedThere
    <2>2. PICK path : Select(p, path, UpTo(sets, k, j), TRUE)
      BY <2>0 DEF SealedThere
    <2> DEFINE u == UpTo(sets, k, j)
    <2>3. u \in Seq(Seq(C)) /\ Len(u) = k /\ Len(u[k]) = j /\ u[k][j] = sets[k][j]
      <3>1. sets \in Seq(Seq(C)) /\ j \in 1..j
        BY DEF Comments
      <3> QED BY <3>1, UpToIs
    <2> HIDE DEF u
    <2>4. ~Hit(u, words)
      <3>1. Seen(u) \cap words = {}
        BY <2>2, SelectByComments DEF u
      <3> QED BY <2>3, <3>1, HitsSeen
    <2>5. SeenAs(sets[k][j]) \notin words
      <3>1. k \in 1..Len(u) /\ j \in 1..Len(u[k])
        BY <2>3
      <3> QED BY <2>3, <2>4, <3>1 DEF Hit
    <2> QED BY <2>1, <2>5
  <1> QED BY <1>2, <1>3

\* The first place of a property of the comments.
LEMMA FirstPlace ==
  ASSUME NEW C, NEW sets \in Seq(Seq(C)), NEW words, Hit(sets, words)
  PROVE  \E k \in 1..Len(sets) : \E j \in 1..Len(sets[k]) :
           /\ SeenAs(sets[k][j]) \in words
           /\ \A i \in 1..k - 1 : \A h \in 1..Len(sets[i]) : SeenAs(sets[i][h]) \notin words
           /\ \A h \in 1..j - 1 : SeenAs(sets[k][h]) \notin words
  <1> DEFINE K == {k \in 1..Len(sets) : \E j \in 1..Len(sets[k]) : SeenAs(sets[k][j]) \in words}
  <1>1. K \in SUBSET Nat /\ K # {}
    <2>1. PICK k \in 1..Len(sets) : \E j \in 1..Len(sets[k]) : SeenAs(sets[k][j]) \in words
      BY Zenon DEF Hit
    <2>2. k \in K
      BY <2>1, Zenon
    <2>3. K \subseteq 1..Len(sets)
      BY Zenon
    <2> QED BY <2>2, <2>3
  <1>2. PICK k \in K : \A x \in K : k <= x
    BY <1>1, LeastOf
  <1> DEFINE J == {j \in 1..Len(sets[k]) : SeenAs(sets[k][j]) \in words}
  <1>3. J \in SUBSET Nat /\ J # {}
    <2>1. PICK j \in 1..Len(sets[k]) : SeenAs(sets[k][j]) \in words
      BY <1>2, Zenon
    <2>2. j \in J
      BY <2>1, Zenon
    <2>3. J \subseteq 1..Len(sets[k])
      BY Zenon
    <2> QED BY <2>2, <2>3
  <1>4. PICK j \in J : \A x \in J : j <= x
    BY <1>3, LeastOf
  <1>5. \A i \in 1..k - 1 : i \notin K /\ i \in 1..Len(sets)
    <2>1. k \in 1..Len(sets)
      BY <1>2
    <2>2. \A i \in 1..k - 1 : i \in 1..Len(sets) /\ ~(k <= i)
      BY <2>1
    <2> HIDE DEF K
    <2> QED BY <1>2, <2>2
  <1>6. \A h \in 1..j - 1 : h \notin J /\ h \in 1..Len(sets[k])
    <2>1. j \in 1..Len(sets[k]) /\ Len(sets[k]) \in Nat
      BY <1>2, <1>4
    <2>2. \A h \in 1..j - 1 : h \in 1..Len(sets[k]) /\ ~(j <= h)
      BY <2>1
    <2> HIDE DEF J
    <2> QED BY <1>4, <2>2
  <1> QED BY <1>2, <1>4, <1>5, <1>6

LEMMA SelectsAlike ==
  ASSUME NoneIsNoCipher, NEW C, NEW sets, Comments(sets, C), NEW p, NEW out,
         Image(p, sets, out), p.encrypted_comment_regex # None,
         NEW words, words = Matches[p.encrypted_comment_regex]
  PROVE  Hit(out, words) <=> Hit(sets, words)
  <1> DEFINE Before(k, j) == Above(UpTo(sets, k, j))
  <1>1. sets \in Seq(Seq(C))
    BY DEF Comments
  <1>2. /\ Len(out) = Len(sets)
        /\ \A k \in 1..Len(sets) : Len(out[k]) = Len(sets[k])
    BY DEF Image
  <1>3. ASSUME NEW k \in 1..Len(sets), NEW j \in 1..Len(sets[k]), out[k][j] # sets[k][j]
        PROVE  Hit(Before(k, j), words)
    <2>1. PICK path : Select(p, path, UpTo(sets, k, j), TRUE)
      BY <1>3, ImageOf DEF SealedThere
    <2>2. Seen(Before(k, j)) \cap words # {}
      BY <2>1, SelectByComments
    <2>3. Before(k, j) \in Seq(Seq(C))
      BY <1>1, AboveIs
    <2> HIDE DEF Before
    <2> QED BY <2>2, <2>3, HitsSeen
  <1>4. ASSUME NEW k \in 1..Len(sets), NEW j \in 1..Len(sets[k]), Hit(Before(k, j), words)
        PROVE  \/ \E i \in 1..k - 1 : \E h \in 1..Len(sets[i]) : SeenAs(sets[i][h]) \in words
               \/ \E h \in 1..j - 1 : SeenAs(sets[k][h]) \in words
    <2> DEFINE a == Before(k, j)
    <2>1. /\ Len(a) = k
          /\ \A i \in 1..k - 1 : a[i] = sets[i]
          /\ Len(a[k]) = j - 1 /\ \A i \in 1..j - 1 : a[k][i] = sets[k][i]
      <3>1. LET above == Above(UpTo(sets, k, j)) IN
            /\ above \in Seq(Seq(C)) /\ Len(above) = k
            /\ \A i \in 1..k - 1 : above[i] = sets[i]
            /\ Len(above[k]) = j - 1 /\ \A i \in 1..j - 1 : above[k][i] = sets[k][i]
        BY <1>1, AboveIs
      <3> QED BY <3>1, Zenon
    <2> HIDE DEF a
    <2>2. PICK i \in 1..Len(a) : \E h \in 1..Len(a[i]) : SeenAs(a[i][h]) \in words
      BY <1>4 DEF Hit, a
    <2>3. CASE i = k
      BY <2>1, <2>2, <2>3
    <2>4. CASE i # k
      <3>1. i \in 1..k - 1
        BY <2>1, <2>4
      <3> QED BY <2>1, <2>2, <3>1
    <2> QED BY <2>3, <2>4
  <1> HIDE DEF Before
  <1>5. ASSUME Hit(sets, words) PROVE Hit(out, words)
    <2>1. PICK k \in 1..Len(sets) : \E j \in 1..Len(sets[k]) :
            /\ SeenAs(sets[k][j]) \in words
            /\ \A i \in 1..k - 1 : \A h \in 1..Len(sets[i]) : SeenAs(sets[i][h]) \notin words
            /\ \A h \in 1..j - 1 : SeenAs(sets[k][h]) \notin words
      BY <1>1, <1>5, FirstPlace
    <2>2. PICK j \in 1..Len(sets[k]) :
            /\ SeenAs(sets[k][j]) \in words
            /\ \A i \in 1..k - 1 : \A h \in 1..Len(sets[i]) : SeenAs(sets[i][h]) \notin words
            /\ \A h \in 1..j - 1 : SeenAs(sets[k][h]) \notin words
      BY <2>1
    <2>3. out[k][j] = sets[k][j]
      BY <1>3, <1>4, <2>2
    <2> QED BY <1>2, <2>2, <2>3 DEF Hit
  <1>6. ASSUME Hit(out, words) PROVE Hit(sets, words)
    <2>1. PICK k \in 1..Len(sets) : \E j \in 1..Len(sets[k]) : SeenAs(out[k][j]) \in words
      BY <1>2, <1>6 DEF Hit
    <2>2. PICK j \in 1..Len(sets[k]) : SeenAs(out[k][j]) \in words
      BY <2>1
    <2>3. CASE out[k][j] = sets[k][j]
      BY <2>2, <2>3 DEF Hit
    <2>4. CASE out[k][j] # sets[k][j]
      <3>1. \/ \E i \in 1..k - 1 : \E h \in 1..Len(sets[i]) : SeenAs(sets[i][h]) \in words
            \/ \E h \in 1..j - 1 : SeenAs(sets[k][h]) \in words
        BY <1>3, <1>4, <2>4
      <3>2. \A i \in 1..k - 1 : i \in 1..Len(sets)
        BY <1>1
      <3>3. \A h \in 1..j - 1 : h \in 1..Len(sets[k])
        <4>1. sets[k] \in Seq(C)
          BY <1>1
        <4> QED BY <4>1
      <3> QED BY <3>1, <3>2, <3>3 DEF Hit
    <2> QED BY <2>3, <2>4
  <1> QED BY <1>5, <1>6

(***************************************************************************)
(* What the encrypting walk selects, the decrypting walk selects, although *)
(* some of the comments it goes by are ciphertexts by then (selector.rs,   *)
(* stages 5 and 6, and the refusal of visit_comment): whatever the policy, *)
(* the path and the comments, no leaf is left sealed or taken for sealed.  *)
(***************************************************************************)
THEOREM SelectionSurvives ==
  ASSUME NoneIsNoCipher, NEW C, NEW sets, Comments(sets, C), NEW D, NEW out,
         out \in Seq(Seq(D)), NEW p, Image(p, sets, out), NEW path
  PROVE  Select(p, path, out, FALSE) <=> Select(p, path, sets, FALSE)
  <1>1. sets \in Seq(Seq(C))
    BY DEF Comments
  <1>2. CASE p.encrypted_comment_regex # None
    <2> DEFINE words == Matches[p.encrypted_comment_regex]
    <2>1. Hit(out, words) <=> Hit(sets, words)
      BY <1>2, SelectsAlike
    <2>2. Seen(out) \cap words # {} <=> Seen(sets) \cap words # {}
      BY <1>1, <2>1, HitsSeen
    <2> QED BY <1>2, <2>2, SelectByComments
  <1>3. CASE p.encrypted_comment_regex = None /\ p.unencrypted_comment_regex # None
    <2> DEFINE words == Matches[p.unencrypted_comment_regex]
    <2>1. Hit(out, words) <=> Hit(sets, words)
      BY <1>3, ExemptsAlike
    <2>2. Seen(out) \cap words = {} <=> Seen(sets) \cap words = {}
      BY <1>1, <2>1, HitsSeen
    <2> QED BY <1>3, <2>2, SelectByComments
  <1>4. CASE p.encrypted_comment_regex = None /\ p.unencrypted_comment_regex = None
    BY <1>4, SelectByComments
  <1> QED BY <1>2, <1>3, <1>4

-----------------------------------------------------------------------------
(***************************************************************************)
(* The two walks in step: the same key and policy, and the MAC fed alike.  *)
(***************************************************************************)
InStep(x, y) ==
    /\ ContextOK(x) /\ x.dir = "encrypt" /\ x.err = None
    /\ ContextOK(y) /\ y.dir = "decrypt" /\ y.err = None
    /\ y.key = x.key /\ y.policy = x.policy
    /\ y.mac_only = x.mac_only /\ y.mac = x.mac /\ y.fed = x.fed

\* Feeding both the same text keeps them so.
LEMMA FeedsInStep ==
  ASSUME NEW x, NEW y, InStep(x, y), NEW pt, NEW qt, qt.text = pt.text, NEW e
  PROVE  InStep(Feed(x, pt, e), Feed(y, qt, e))
  BY DEF InStep, ContextOK, Feed

\* So does a nonce drawn by the one, and one remembered by the other.
LEMMA NoncesInStep ==
  ASSUME NEW x, NEW y, InStep(x, y), NEW pt, NEW aad, NEW stash
  PROVE  /\ InStep(Drew(x, pt, aad), y)
         /\ InStep(x, [y EXCEPT !.stash = stash])
  BY DEF InStep, ContextOK, Drew

LEMMA SealedFields ==
  ASSUME NEW x, NEW pt, NEW aad
  PROVE  /\ Sealed(x, pt, aad).key = x.key
         /\ Sealed(x, pt, aad).aad = aad
         /\ Sealed(x, pt, aad).pt = pt
  BY DEF Sealed

ScalarOK(s) == DOMAIN s = {"t", "text", "style", "enc"}

\* The selector on a leaf.
Picks(p, path, sets) == Select(p, path, sets, FALSE)

\* What a leaf that the selector picks is once it was encrypted and decrypted:
\* the scalar its plaintext is shown as.
Back(s) ==
    IF IsNull(s) THEN s
    ELSE IF PlaintextOf(s).text = "" THEN Missing
    ELSE ScalarOf(PlaintextOf(s))

(***************************************************************************)
(* A leaf that the encrypting walk visits, the decrypting walk visits      *)
(* without an error, in step: it opens every leaf that was sealed, takes   *)
(* none for sealed that was not, and feeds the MAC the same text, whether  *)
(* or not the leaf was selected (walk.rs:300-328).  This is what keeps a   *)
(* file this build wrote from failing its own MAC.                         *)
(***************************************************************************)
THEOREM LeafOpens ==
  ASSUME NoneIsNoCipher, NEW x, NEW y, InStep(x, y), NEW s, NEW path,
         NEW C, NEW sets, Comments(sets, C), NEW D, NEW out, out \in Seq(Seq(D)),
         Image(x.policy, sets, out)
  PROVE  LET e == VisitScalar(x, s, path, sets)
             d == VisitScalar(y, e.v, path, out)
         IN  /\ InStep(e.x, d.x)
             /\ d.v = IF Picks(x.policy, path, sets) THEN Back(s) ELSE s
  <1> DEFINE aad == Aad(path)
             enc == Select(x.policy, path, sets, FALSE)
             pt  == PlaintextOf(s)
             e   == VisitScalar(x, s, path, sets)
             d   == VisitScalar(y, e.v, path, out)
  <1> SUFFICES InStep(e.x, d.x) /\ d.v = IF enc THEN Back(s) ELSE s
    BY DEF Picks
  <1>1. y.policy = x.policy /\ y.key = x.key /\ x.dir = "encrypt" /\ y.dir = "decrypt"
    BY DEF InStep
  <1>2. Select(y.policy, path, out, FALSE) <=> enc
    BY <1>1, SelectionSurvives
  <1> HIDE DEF enc, e, d
  <1>3. CASE IsNull(s)
    <2>1. e = [v |-> s, x |-> x]
      BY <1>3 DEF VisitScalar, e
    <2>2. d = [v |-> s, x |-> y]
      BY <1>3, <2>1 DEF VisitScalar, d
    <2> QED BY <1>3, <2>1, <2>2 DEF Back
  <1>4. CASE ~IsNull(s) /\ ~enc
    <2>1. e = [v |-> s, x |-> Feed(x, pt, enc)]
      BY <1>4 DEF VisitScalar, e, enc
    <2>2. d = [v |-> s, x |-> Feed(y, pt, Select(y.policy, path, out, FALSE))]
      BY <1>2, <1>4, <2>1 DEF VisitScalar, d
    <2>3. InStep(Feed(x, pt, FALSE), Feed(y, pt, FALSE))
      BY FeedsInStep
    <2>4. Feed(x, pt, enc) = Feed(x, pt, FALSE)
          /\ Feed(y, pt, Select(y.policy, path, out, FALSE)) = Feed(y, pt, FALSE)
      BY <1>2, <1>4 DEF Feed
    <2> HIDE DEF pt
    <2> QED BY <1>4, <2>1, <2>2, <2>3, <2>4 DEF Back
  <1>5. CASE ~IsNull(s) /\ enc /\ pt.text = ""
    <2>1. e = [v |-> Missing, x |-> Feed(x, pt, enc)]
      BY <1>1, <1>5 DEF VisitScalar, e, enc
    <2>2. ~IsNull(Missing) /\ Missing.enc = None /\ Missing.text = ""
      BY DEF IsNull, Missing, Scalar, Nulls
    <2>3. d = [v |-> Missing, x |-> Feed(y, Plaintext("str", ""), TRUE)]
      BY <1>1, <1>2, <1>5, <2>1, <2>2 DEF VisitScalar, d
    <2>4. InStep(Feed(x, pt, TRUE), Feed(y, Plaintext("str", ""), TRUE))
      <3>1. Plaintext("str", "").text = pt.text
        BY <1>5 DEF Plaintext
      <3> HIDE DEF pt
      <3> QED BY <3>1, FeedsInStep
    <2>5. Feed(x, pt, enc) = Feed(x, pt, TRUE)
      BY <1>5 DEF Feed
    <2> QED BY <1>5, <2>1, <2>3, <2>4, <2>5 DEF Back
  <1>6. CASE ~IsNull(s) /\ enc /\ pt.text # ""
    <2> DEFINE sealed == Sealed(x, pt, aad)
               leaf   == [Missing EXCEPT !.enc = sealed]
    <2>1. e = [v |-> leaf, x |-> Drew(Feed(x, pt, enc), pt, aad)]
      BY <1>1, <1>6 DEF VisitScalar, e, enc
    <2>2. /\ sealed # None /\ sealed.key = x.key /\ sealed.aad = aad /\ sealed.pt = pt
      BY SealedIsCipher, SealedFields
    <2>3. leaf.enc = sealed
      BY DEF Missing, Scalar
    <2> HIDE DEF sealed, leaf, pt, aad
    <2>4. ~IsNull(leaf) /\ leaf.enc # None /\ CanOpen(y, leaf.enc, aad)
      BY <1>1, <2>2, <2>3 DEF IsNull, CanOpen
    <2>5. d = [v |-> ScalarOf(pt),
               x |-> [Feed(y, pt, TRUE) EXCEPT
                        !.stash = Remember(@, pt, aad, sealed.iv)]]
      BY <1>1, <1>2, <1>6, <2>1, <2>2, <2>3, <2>4 DEF VisitScalar, d, aad
    <2>6. InStep(Feed(x, pt, TRUE), Feed(y, pt, TRUE))
      BY FeedsInStep
    <2>7. Feed(x, pt, enc) = Feed(x, pt, TRUE)
      BY <1>6 DEF Feed
    <2>8. InStep(Drew(Feed(x, pt, TRUE), pt, aad),
                 [Feed(y, pt, TRUE) EXCEPT !.stash = Remember(@, pt, aad, sealed.iv)])
      BY <2>6, NoncesInStep
    <2> QED BY <1>6, <2>1, <2>5, <2>7, <2>8 DEF Back, pt
  <1> QED BY <1>3, <1>4, <1>5, <1>6

(***************************************************************************)
(* A plain comment that the encrypting walk visits without an error is     *)
(* what the decrypting walk leaves in its place, whatever the selector     *)
(* said and would say on the way back; the MAC hears of it from neither    *)
(* (walk.rs:180-235).                                                      *)
(***************************************************************************)
THEOREM CommentOpens ==
  ASSUME NoneIsNoCipher, NEW x, NEW y, InStep(x, y), NEW word, NEW path,
         NEW sets, NEW out, VisitComment(x, Comment(word), path, sets).x.err = None
  PROVE  LET e == VisitComment(x, Comment(word), path, sets)
             d == VisitComment(y, e.i, path, out)
         IN  InStep(e.x, d.x) /\ d.i = Comment(word)
  <1> DEFINE c      == Comment(word)
             aad    == Aad(path)
             pt     == Plaintext("comment", word)
             sealed == Sealed(x, pt, aad)
             s      == [c EXCEPT !.enc = sealed]
             bars   == /\ x.policy.unencrypted_comment_regex # None
                       /\ EncWord \in Matches[x.policy.unencrypted_comment_regex]
             e      == VisitComment(x, c, path, sets)
             d      == VisitComment(y, e.i, path, out)
  <1> SUFFICES InStep(e.x, d.x) /\ d.i = c
    OBVIOUS
  <1>1. x.dir = "encrypt" /\ y.dir = "decrypt" /\ y.key = x.key /\ ContextOK(x)
    BY DEF InStep
  <1>2. c.text = word /\ c.enc = None
    BY DEF Comment
  <1>3. /\ s.enc = sealed /\ sealed # None /\ sealed.key = x.key /\ sealed.aad = aad
        /\ sealed.pt.text = word
    BY SealedIsCipher, SealedFields DEF Comment, Plaintext
  <1>4. e.x.err = None
    OBVIOUS
  <1> HIDE DEF e, d, s, sealed, aad, c
  <1>5. CASE ~Select(x.policy, path, sets, TRUE) \/ word = ""
    <2>1. e = [i |-> c, x |-> x]
      BY <1>1, <1>2, <1>5 DEF VisitComment, e
    <2>2. d = [i |-> c, x |-> y]
      BY <1>1, <1>2, <2>1 DEF VisitComment, CanOpen, d
    <2> QED BY <2>1, <2>2
  <1>6. CASE Select(x.policy, path, sets, TRUE) /\ word # "" /\ bars
    <2>1. e.x = Refuse(x, "self-defeating comment regex")
      BY <1>1, <1>2, <1>6 DEF VisitComment, e
    <2>2. e.x.err = "self-defeating comment regex"
      BY <1>1, <2>1 DEF Refuse, ContextOK
    <2> QED BY <1>4, <2>2, LeafAssumption DEF WalkErrors
  <1>7. CASE Select(x.policy, path, sets, TRUE) /\ word # "" /\ ~bars
    <2>1. e = [i |-> s, x |-> Drew(x, pt, aad)]
      BY <1>1, <1>2, <1>7 DEF VisitComment, e, s, sealed, aad
    <2>2. CanOpen(y, s.enc, aad)
      BY <1>1, <1>3 DEF CanOpen
    <2>3. d = [i |-> Comment(word),
               x |-> [y EXCEPT !.stash = Remember(@, s.enc.pt, aad, s.enc.iv)]]
      BY <1>1, <1>3, <2>1, <2>2 DEF VisitComment, d, aad
    <2>4. InStep(Drew(x, pt, aad), [y EXCEPT !.stash = Remember(@, s.enc.pt, aad, s.enc.iv)])
      <3>1. InStep(Drew(x, pt, aad), y)
        BY NoncesInStep
      <3> QED BY <3>1, NoncesInStep
    <2> QED BY <2>1, <2>3, <2>4 DEF c
  <1> QED BY <1>5, <1>6, <1>7

\* A file whose walks ended in step passes its own MAC at the time it bears.
LEMMA MacAgrees ==
  ASSUME NoneIsNoCipher, NEW x, NEW y, InStep(x, y), NEW now, NEW old
  PROVE  MacMatches(y, SealMac(x, now, old), now)
  BY DEF NoneIsNoCipher, InStep, SealMac, MacMatches, MacOf

-----------------------------------------------------------------------------
(***************************************************************************)
(* What was not changed keeps its ciphertext.                              *)
(***************************************************************************)
\* One nonce for a place and a text.
Distinct(stash) == \A a, b \in stash : a.aad = b.aad /\ a.pt = b.pt => a = b

LEMMA RememberedOnce ==
  ASSUME NEW stash, Distinct(stash), NEW pt, NEW aad, NEW iv
  PROVE  LET after == Remember(stash, pt, aad, iv) IN
         /\ Distinct(after)
         /\ [pt |-> pt, aad |-> aad, iv |-> iv] \in after
         /\ \A e \in stash : e.aad # aad \/ e.pt # pt => e \in after
  BY DEF Distinct, Remember

\* But for floats: of a float, YAML may show another form than is sealed.
ShownAsItself(pt) ==
    pt.type = "float" => /\ Shown[pt.text] \in DOMAIN Floats \ DOMAIN Ints
                         /\ Floats[Shown[pt.text]] = pt.text

LEMMA StyledToStay ==
  ASSUME NEW text, New(text).style = "plain"
  PROVE  ~ResolvesAsNonString(text)
  BY DEF New, Scalar, StyleForNewValue

\* A scalar that was sealed and is shown again is the same leaf.
LEMMA ReadsBack ==
  ASSUME NEW s, ShownAsItself(PlaintextOf(s))
  PROVE  LET b == ScalarOf(PlaintextOf(s)) IN
         PlaintextOf(b) = PlaintextOf(s) /\ ~IsNull(b)
  <1> DEFINE pt == PlaintextOf(s)
             b  == ScalarOf(pt)
  <1>1. CASE pt = Plaintext("str", pt.text)
    <2>1. b = New(pt.text)
      BY <1>1 DEF ScalarOf, Plaintext
    <2>2. b.text = pt.text /\ b.enc = None
      BY <2>1 DEF New, Scalar
    <2>3. b.style = "plain" => /\ ~ResolvesAsNonString(pt.text)
      BY <2>1, StyledToStay
    <2> HIDE DEF b, pt
    <2>4. PlaintextOf(b) = Plaintext("str", pt.text)
      BY <2>2, <2>3 DEF PlaintextOf, ResolvesAsNonString
    <2>5. ~IsNull(b)
      BY <2>2, <2>3 DEF IsNull, ResolvesAsNonString
    <2> QED BY <1>1, <2>4, <2>5 DEF b, pt
  <1>2. CASE pt \in {Plaintext("bool", "True"), Plaintext("bool", "False")}
    BY <1>2 DEF ScalarOf, Plaintext, PlaintextOf, Scalar, IsNull, Trues, Falses, Nulls
  <1>3. CASE \E w \in DOMAIN Ints : pt = Plaintext("int", Ints[w])
    <2>1. PICK w \in DOMAIN Ints : pt = Plaintext("int", Ints[w])
      BY <1>3
    <2>2. /\ Ints[w] \in DOMAIN Ints /\ Ints[Ints[w]] = Ints[w]
          /\ Ints[w] \notin Nulls \cup Trues \cup Falses
      BY ScalarAssumption
    <2>3. b = Scalar(Ints[w], "plain")
      BY <2>1 DEF ScalarOf, Plaintext
    <2> HIDE DEF b, pt
    <2>4. PlaintextOf(b) = Plaintext("int", Ints[w]) /\ ~IsNull(b)
      BY <2>2, <2>3 DEF PlaintextOf, Scalar, IsNull
    <2> QED BY <2>1, <2>4 DEF b, pt
  <1>4. CASE \E w \in DOMAIN Floats : pt = Plaintext("float", Floats[w])
    <2>1. pt.type = "float" /\ pt = Plaintext("float", pt.text)
      BY <1>4 DEF Plaintext
    <2> DEFINE g == Shown[pt.text]
    <2>2. /\ g \in DOMAIN Floats \ DOMAIN Ints /\ Floats[g] = pt.text
          /\ g \notin Nulls \cup Trues \cup Falses
      BY <2>1, ScalarAssumption DEF ShownAsItself
    <2>3. b = Scalar(g, "plain")
      BY <2>1 DEF ScalarOf
    <2> HIDE DEF b, pt, g
    <2>4. PlaintextOf(b) = Plaintext("float", pt.text) /\ ~IsNull(b)
      BY <2>2, <2>3 DEF PlaintextOf, Scalar, IsNull
    <2> QED BY <2>1, <2>4 DEF b, pt
  <1>5. \/ pt = Plaintext("str", pt.text)
        \/ pt \in {Plaintext("bool", "True"), Plaintext("bool", "False")}
        \/ \E w \in DOMAIN Ints : pt = Plaintext("int", Ints[w])
        \/ \E w \in DOMAIN Floats : pt = Plaintext("float", Floats[w])
    BY DEF PlaintextOf, Plaintext
  <1> QED BY <1>1, <1>2, <1>3, <1>4, <1>5

(***************************************************************************)
(* A leaf that a command did not change is written as it was read, byte    *)
(* for byte and with no nonce drawn, as long as the key and the selection  *)
(* stay and the stash remembers its text at its place ("an unchanged value *)
(* reproduces its previous ciphertext byte for byte", walk.rs:71).  What   *)
(* the decrypting walk remembers, RememberedOnce says.                     *)
(***************************************************************************)
THEOREM UnchangedLeafIsKept ==
  ASSUME NoneIsNoCipher, NEW x, ContextOK(x), x.dir = "encrypt",
         NEW path, NEW sets, Select(x.policy, path, sets, FALSE),
         NEW s, PlaintextOf(s).text # "", ShownAsItself(PlaintextOf(s)), NEW iv,
         Distinct(x.stash),
         [pt |-> PlaintextOf(s), aad |-> Aad(path), iv |-> iv] \in x.stash
  PROVE  VisitScalar(x, ScalarOf(PlaintextOf(s)), path, sets)
           = [v |-> [Missing EXCEPT !.enc = [key |-> x.key, aad |-> Aad(path),
                                             pt |-> PlaintextOf(s), iv |-> iv]],
              x |-> Feed(x, PlaintextOf(s), TRUE)]
  <1> DEFINE pt  == PlaintextOf(s)
             aad == Aad(path)
             b   == ScalarOf(pt)
             fed == Feed(x, pt, TRUE)
             e   == [pt |-> pt, aad |-> aad, iv |-> iv]
  <1>1. PlaintextOf(b) = pt /\ ~IsNull(b)
    BY ReadsBack
  <1> HIDE DEF b, pt, aad
  <1>2. Recall(x, pt, aad) = {e}
    <2>1. e \in x.stash /\ e.aad = aad /\ e.pt = pt
      BY DEF pt, aad
    <2>2. \A f \in x.stash : f.aad = aad /\ f.pt = pt => f = e
      BY <2>1 DEF Distinct
    <2> HIDE DEF e
    <2> QED BY <2>1, <2>2 DEF Recall
  <1>3. Sealed(x, pt, aad) = [key |-> x.key, aad |-> aad, pt |-> pt, iv |-> iv]
    <2>1. (CHOOSE f \in Recall(x, pt, aad) : TRUE) = e
      BY <1>2
    <2>2. e.iv = iv
      OBVIOUS
    <2> HIDE DEF e
    <2> QED BY <1>2, <2>1, <2>2 DEF Sealed
  <1>4. Drew(fed, pt, aad) = fed
    <2>1. fed.stash = x.stash
      BY DEF Feed, ContextOK
    <2> QED BY <1>2, <2>1 DEF Drew, Recall
  <1>5. /\ x.dir = "encrypt" /\ pt.text # ""
        /\ Select(x.policy, path, sets, FALSE) = TRUE
    BY DEF pt, Select
  <1>6. VisitScalar(x, b, path, sets)
          = [v |-> [Missing EXCEPT !.enc = Sealed(x, pt, aad)], x |-> Drew(fed, pt, aad)]
    BY <1>1, <1>5 DEF VisitScalar, aad
  <1> QED BY <1>3, <1>4, <1>6 DEF b, pt, aad

-----------------------------------------------------------------------------
(***************************************************************************)
(* FlattenSeq.  Its steps are a recursive function, which is there by the  *)
(* least length at which it would not be.                                  *)
(***************************************************************************)
IsFlat(s, n, g) == g = [i \in 1..n |-> IF i = 1 THEN s[i] ELSE g[i - 1] \o s[i]]

LEMMA FlatExists ==
  ASSUME NEW s
  PROVE  \A n \in Nat : \E g : IsFlat(s, n, g)
  <1> DEFINE S == {n \in Nat : ~\E g : IsFlat(s, n, g)}
  <1>1. SUFFICES ASSUME S # {} PROVE FALSE
    OBVIOUS
  <1>2. PICK n \in S : \A x \in S : n <= x
    BY <1>1, LeastOf
  <1>3. n # 0
    <2> DEFINE g == [i \in 1..0 |-> s[i]]
    <2>1. g = [i \in 1..0 |-> IF i = 1 THEN s[i] ELSE g[i - 1] \o s[i]]
      OBVIOUS
    <2>2. IsFlat(s, 0, g)
      BY <2>1 DEF IsFlat
    <2> QED BY <1>2, <2>2
  <1>4. n \in Nat /\ n - 1 \in Nat /\ n - 1 \notin S
    <2>1. S \subseteq Nat
      OBVIOUS
    <2> HIDE DEF S
    <2> QED BY <1>2, <1>3, <2>1
  <1>5. PICK g : IsFlat(s, n - 1, g)
    BY <1>4
  <1> DEFINE h == [i \in 1..n |-> IF i = 1 THEN s[1]
                                  ELSE IF i = n THEN g[n - 1] \o s[n]
                                  ELSE g[i]]
  <1>6. \A i \in 1..n - 1 : h[i] = g[i]
    <2>1. \A i \in 1..n - 1 : i \in 1..n /\ i # n
      BY <1>4
    <2>2. \A i \in 1..n - 1 : g[i] = IF i = 1 THEN s[i] ELSE g[i - 1] \o s[i]
      BY <1>5 DEF IsFlat
    <2> QED BY <2>1, <2>2
  <1>7. \A i \in 1..n : h[i] = IF i = 1 THEN s[i] ELSE h[i - 1] \o s[i]
    <2> SUFFICES ASSUME NEW i \in 1..n, i # 1
                 PROVE  h[i] = h[i - 1] \o s[i]
      BY <1>4
    <2>1. i - 1 \in 1..n - 1
      BY <1>4
    <2>2. h[i - 1] = g[i - 1]
      BY <1>6, <2>1
    <2>3. CASE i = n
      BY <2>2, <2>3
    <2>4. CASE i # n
      <3>1. i \in 1..n - 1
        BY <1>4, <2>4
      <3>2. g[i] = g[i - 1] \o s[i]
        BY <1>5, <3>1 DEF IsFlat
      <3> QED BY <1>6, <2>2, <3>1, <3>2
    <2> QED BY <2>3, <2>4
  <1>8. IsFlat(s, n, h)
    <2> HIDE DEF h
    <2>1. h = [i \in 1..n |-> h[i]]
      BY DEF h
    <2> QED BY <1>7, <2>1 DEF IsFlat
  <1> QED BY <1>2, <1>8

LEMMA FlatSteps ==
  ASSUME NEW s, Len(s) \in Nat, Len(s) # 0
  PROVE  \E g : /\ FlattenSeq(s) = g[Len(s)]
                /\ g[1] = s[1]
                /\ \A i \in 2..Len(s) : g[i] = g[i - 1] \o s[i]
  <1> DEFINE g == CHOOSE f : IsFlat(s, Len(s), f)
  <1>1. IsFlat(s, Len(s), g)
    <2>1. \E f : IsFlat(s, Len(s), f)
      BY FlatExists
    <2> QED BY <2>1
  <1>2. FlattenSeq(s) = g[Len(s)]
    BY DEF FlattenSeq, IsFlat
  <1> HIDE DEF g
  <1>3. \A i \in 1..Len(s) : g[i] = IF i = 1 THEN s[i] ELSE g[i - 1] \o s[i]
    BY <1>1 DEF IsFlat
  <1>4. 1 \in 1..Len(s) /\ \A i \in 2..Len(s) : i \in 1..Len(s) /\ i # 1
    OBVIOUS
  <1>5. g[1] = s[1]
    BY <1>3, <1>4
  <1>6. \A i \in 2..Len(s) : g[i] = g[i - 1] \o s[i]
    BY <1>3, <1>4
  <1> QED BY <1>2, <1>5, <1>6

\* What holds before the first segment and is kept by each holds at the end.
LEMMA FlatInvariant ==
  ASSUME NEW T, NEW s \in Seq(Seq(T)), NEW Q, <<>> \in Q[0],
         \A i \in 1..Len(s) : \A q \in Q[i - 1] : q \o s[i] \in Q[i]
  PROVE  FlattenSeq(s) \in Q[Len(s)]
  <1>1. CASE s = <<>>
    <2>1. FlattenSeq(s) = <<>> /\ Len(s) = 0
      BY <1>1 DEF FlattenSeq
    <2> QED BY <2>1
  <1>2. CASE s # <<>>
    <2>1. Len(s) \in Nat /\ Len(s) # 0
      BY <1>2
    <2>2. PICK g : /\ FlattenSeq(s) = g[Len(s)]
                   /\ g[1] = s[1]
                   /\ \A i \in 2..Len(s) : g[i] = g[i - 1] \o s[i]
      BY <2>1, FlatSteps
    <2> DEFINE S == {i \in 1..Len(s) : g[i] \notin Q[i]}
    <2>3. S = {}
      <3> SUFFICES ASSUME S # {} PROVE FALSE
        OBVIOUS
      <3>1. PICK i \in S : \A x \in S : i <= x
        <4>1. S \subseteq Nat
          OBVIOUS
        <4> HIDE DEF S
        <4> QED BY <4>1, LeastOf
      <3>2. i \in 1..Len(s) /\ g[i] \notin Q[i]
        OBVIOUS
      <3>3. CASE i = 1
        <4>1. <<>> \o s[1] = s[1]
          BY <2>1
        <4>2. <<>> \in Q[1 - 1] /\ 1 \in 1..Len(s)
          BY <2>1
        <4>3. <<>> \o s[1] \in Q[1]
          BY <4>2
        <4> QED BY <2>2, <3>2, <3>3, <4>1, <4>3
      <3>4. CASE i # 1
        <4>1. i - 1 \in 1..Len(s) /\ ~(i <= i - 1) /\ i \in 2..Len(s)
          BY <2>1, <3>2, <3>4
        <4>2. i - 1 \notin S
          BY <3>1, <4>1
        <4>3. g[i - 1] \in Q[i - 1]
          BY <4>1, <4>2
        <4>4. g[i] = g[i - 1] \o s[i]
          BY <2>2, <4>1
        <4> QED BY <3>2, <4>3, <4>4
      <3> QED BY <3>3, <3>4
    <2>4. Len(s) \in 1..Len(s)
      BY <2>1
    <2> QED BY <2>2, <2>3, <2>4
  <1> QED BY <1>1, <1>2

-----------------------------------------------------------------------------
(***************************************************************************)
(* What Get reads, from the items of a mapping.                            *)
(***************************************************************************)
Reads(q, key) == Get(Mapping(q), key)

\* Every pair has a value.
ItemsOK(P) == \A p \in P : p.t = "pair" => p.value # None

LEMMA NamedIn == \A q, key : Named(Mapping(q), key)
                               = {k \in DOMAIN q : q[k].t = "pair" /\ q[k].key = key}
  BY DEF Named, Mapping

LEMMA ReadsNone ==
  ASSUME NEW q, NEW key, \A k \in DOMAIN q : ~(q[k].t = "pair" /\ q[k].key = key)
  PROVE  Reads(q, key) = None
  <1>1. Named(Mapping(q), key) = {}
    BY NamedIn
  <1> QED BY <1>1 DEF Reads, Get, Mapping

LEMMA ReadsFirst ==
  ASSUME NEW T, NEW q \in Seq(T), NEW key, NEW k \in 1..Len(q),
         q[k].t = "pair", q[k].key = key,
         \A j \in 1..k - 1 : ~(q[j].t = "pair" /\ q[j].key = key)
  PROVE  Reads(q, key) = q[k].value
  <1> DEFINE S == Named(Mapping(q), key)
  <1>1. k \in S /\ S \subseteq 1..Len(q)
    BY NamedIn
  <1>2. \A j \in S : k <= j
    BY <1>1, NamedIn
  <1>3. Min(S) = k
    <2> HIDE DEF S
    <2>1. \A x \in S : (\A y \in S : x <= y) => x = k
      BY <1>1, <1>2
    <2> QED BY <1>1, <1>2, <2>1 DEF Min
  <1> QED BY <1>1, <1>3 DEF Reads, Get, Mapping

LEMMA FirstOf ==
  ASSUME NEW T, NEW q \in Seq(T), NEW key,
         \E k \in 1..Len(q) : q[k].t = "pair" /\ q[k].key = key
  PROVE  \E k \in 1..Len(q) :
           /\ q[k].t = "pair" /\ q[k].key = key
           /\ \A j \in 1..k - 1 : ~(q[j].t = "pair" /\ q[j].key = key)
  <1> DEFINE S == {k \in 1..Len(q) : q[k].t = "pair" /\ q[k].key = key}
  <1>1. S \in SUBSET Nat /\ S # {}
    OBVIOUS
  <1>2. PICK m \in S : \A x \in S : m <= x
    <2> HIDE DEF S
    <2> QED BY <1>1, LeastOf
  <1>3. m \in 1..Len(q) /\ q[m].t = "pair" /\ q[m].key = key
    OBVIOUS
  <1>4. \A j \in 1..m - 1 : j \in 1..Len(q) /\ ~(m <= j)
    BY <1>3
  <1>5. \A j \in 1..m - 1 : ~(q[j].t = "pair" /\ q[j].key = key)
    BY <1>2, <1>4
  <1> QED BY <1>3, <1>5

LEMMA ReadsConcat ==
  ASSUME NEW P, ItemsOK(P), NEW a \in Seq(P), NEW b \in Seq(P), NEW key
  PROVE  Reads(a \o b, key) = IF Reads(a, key) # None THEN Reads(a, key)
                              ELSE Reads(b, key)
  <1> DEFINE hit(q, k) == q[k].t = "pair" /\ q[k].key = key
             q == a \o b
  <1>1. /\ q \in Seq(P) /\ Len(q) = Len(a) + Len(b)
        /\ \A k \in 1..Len(a) : q[k] = a[k]
        /\ \A k \in 1..Len(b) : q[Len(a) + k] = b[k]
        /\ Len(a) \in Nat /\ Len(b) \in Nat
    OBVIOUS
  <1> HIDE DEF q
  <1>2. CASE \E k \in 1..Len(a) : hit(a, k)
    <2>1. PICK k \in 1..Len(a) : hit(a, k) /\ \A j \in 1..k - 1 : ~hit(a, j)
      BY <1>2, FirstOf
    <2>2. Reads(a, key) = a[k].value
      BY <2>1, ReadsFirst
    <2>3. a[k].value # None
      <3>1. a[k] \in P
        OBVIOUS
      <3> QED BY <2>1, <3>1 DEF ItemsOK
    <2>4. k \in 1..Len(q) /\ \A j \in 1..k - 1 : j \in 1..Len(a)
      BY <1>1
    <2>5. hit(q, k) /\ \A j \in 1..k - 1 : ~hit(q, j)
      BY <1>1, <2>1, <2>4
    <2>6. Reads(q, key) = q[k].value
      BY <1>1, <2>4, <2>5, ReadsFirst
    <2>7. q[k] = a[k]
      BY <1>1
    <2> QED BY <2>2, <2>3, <2>6, <2>7 DEF q
  <1>3. CASE ~\E k \in 1..Len(a) : hit(a, k)
    <2>1. Reads(a, key) = None
      BY <1>3, ReadsNone
    <2>2. CASE \E k \in 1..Len(b) : hit(b, k)
      <3>1. PICK k \in 1..Len(b) : hit(b, k) /\ \A j \in 1..k - 1 : ~hit(b, j)
        BY <2>2, FirstOf
      <3>2. Reads(b, key) = b[k].value
        BY <3>1, ReadsFirst
      <3>3. Len(a) + k \in 1..Len(q) /\ q[Len(a) + k] = b[k]
        BY <1>1
      <3>4. \A j \in 1..(Len(a) + k) - 1 : ~hit(q, j)
        <4> TAKE j \in 1..(Len(a) + k) - 1
        <4>1. CASE j <= Len(a)
          <5>1. j \in 1..Len(a)
            BY <1>1, <4>1
          <5> QED BY <1>1, <1>3, <5>1
        <4>2. CASE j > Len(a)
          <5>1. j - Len(a) \in 1..k - 1 /\ j - Len(a) \in 1..Len(b) /\ j = Len(a) + (j - Len(a))
            BY <1>1, <4>2
          <5>2. q[j] = b[j - Len(a)]
            BY <1>1, <5>1
          <5> QED BY <3>1, <5>1, <5>2
        <4> QED BY <1>1, <4>1, <4>2
      <3>5. Reads(q, key) = q[Len(a) + k].value
        BY <1>1, <3>1, <3>3, <3>4, ReadsFirst
      <3> QED BY <2>1, <3>2, <3>3, <3>5 DEF q
    <2>3. CASE ~\E k \in 1..Len(b) : hit(b, k)
      <3>1. Reads(b, key) = None
        BY <2>3, ReadsNone
      <3>2. \A j \in DOMAIN q : ~hit(q, j)
        <4> SUFFICES ASSUME NEW j \in 1..Len(q) PROVE ~hit(q, j)
          BY <1>1
        <4>1. CASE j <= Len(a)
          <5>1. j \in 1..Len(a)
            BY <1>1, <4>1
          <5> QED BY <1>1, <1>3, <5>1
        <4>2. CASE j > Len(a)
          <5>1. j - Len(a) \in 1..Len(b) /\ j = Len(a) + (j - Len(a))
            BY <1>1, <4>2
          <5>2. q[j] = b[j - Len(a)]
            BY <1>1, <5>1
          <5> QED BY <2>3, <5>1, <5>2
        <4> QED BY <1>1, <4>1, <4>2
      <3>3. Reads(q, key) = None
        BY <3>2, ReadsNone
      <3> QED BY <2>1, <3>1, <3>3 DEF q
    <2> QED BY <2>2, <2>3
  <1> QED BY <1>2, <1>3

LEMMA ReadsEmpty == \A key : Reads(<<>>, key) = None
  <1> SUFFICES ASSUME NEW key PROVE Reads(<<>>, key) = None
    OBVIOUS
  <1>1. DOMAIN <<>> = {}
    OBVIOUS
  <1> QED BY <1>1, ReadsNone

LEMMA ReadsPair ==
  ASSUME NEW name, NEW value, NEW key
  PROVE  Reads(<<Pair(name, value)>>, key) = IF name = key THEN value ELSE None
  <1> DEFINE p == Pair(name, value)
             q == <<p>>
  <1>1. p.t = "pair" /\ p.key = name /\ p.value = value
    BY DEF Pair
  <1> HIDE DEF p
  <1>2. q \in Seq({p}) /\ Len(q) = 1 /\ q[1] = p /\ DOMAIN q = 1..1
    OBVIOUS
  <1> HIDE DEF q
  <1>3. CASE name = key
    <2>1. 1 \in 1..Len(q) /\ \A j \in 1..1 - 1 : FALSE
      BY <1>2
    <2>2. Reads(q, key) = q[1].value
      BY <1>1, <1>2, <1>3, <2>1, ReadsFirst
    <2> QED BY <1>1, <1>2, <1>3, <2>2 DEF q, p
  <1>4. CASE name # key
    <2>1. Reads(q, key) = None
      BY <1>1, <1>2, <1>4, ReadsNone
    <2> QED BY <1>4, <2>1 DEF q, p
  <1> QED BY <1>3, <1>4

LEMMA FlatReads ==
  ASSUME NEW P, ItemsOK(P), NEW s \in Seq(Seq(P)), NEW key, NEW at \in 0..Len(s),
         \A k \in 1..Len(s) : k # at => Reads(s[k], key) = None
  PROVE  /\ FlattenSeq(s) \in Seq(P)
         /\ Reads(FlattenSeq(s), key) = IF at = 0 THEN None ELSE Reads(s[at], key)
  <1> DEFINE seen(i) == IF at = 0 \/ i < at THEN None ELSE Reads(s[at], key)
             Q == [i \in 0..Len(s) |-> {q \in Seq(P) : Reads(q, key) = seen(i)}]
  <1>1. Len(s) \in Nat /\ \A i \in 1..Len(s) : s[i] \in Seq(P)
    OBVIOUS
  <1>2. <<>> \in Q[0]
    <2>1. Reads(<<>>, key) = None
      BY ReadsEmpty
    <2>2. seen(0) = None
      OBVIOUS
    <2>3. 0 \in 0..Len(s) /\ <<>> \in Seq(P)
      BY <1>1
    <2> HIDE DEF seen
    <2> QED BY <2>1, <2>2, <2>3
  <1>3. \A i \in 1..Len(s) : \A q \in Q[i - 1] : q \o s[i] \in Q[i]
    <2> SUFFICES ASSUME NEW i \in 1..Len(s), NEW q \in Q[i - 1]
                 PROVE  q \o s[i] \in Q[i]
      OBVIOUS
    <2>1. i - 1 \in 0..Len(s) /\ i \in 0..Len(s)
      BY <1>1
    <2>2. q \in Seq(P) /\ Reads(q, key) = seen(i - 1)
      BY <2>1
    <2>3. q \o s[i] \in Seq(P)
      BY <1>1, <2>2
    <2>4. Reads(q \o s[i], key) = IF Reads(q, key) # None THEN Reads(q, key)
                                  ELSE Reads(s[i], key)
      BY <1>1, <2>2, ReadsConcat
    <2>5. Reads(q \o s[i], key) = seen(i)
      <3>1. CASE i = at
        <4>1. seen(i - 1) = None /\ seen(i) = Reads(s[i], key)
          BY <1>1, <3>1
        <4> QED BY <2>2, <2>4, <4>1
      <3>2. CASE i # at
        <4>1. seen(i - 1) = seen(i)
          BY <1>1, <3>2
        <4>2. Reads(s[i], key) = None
          BY <3>2
        <4> QED BY <2>2, <2>4, <4>1, <4>2
      <3> QED BY <3>1, <3>2
    <2> HIDE DEF seen
    <2> QED BY <2>1, <2>3, <2>5
  <1> HIDE DEF Q
  <1>4. FlattenSeq(s) \in Q[Len(s)]
    BY <1>2, <1>3, FlatInvariant
  <1>5. Len(s) \in 0..Len(s) /\ seen(Len(s)) = IF at = 0 THEN None ELSE Reads(s[at], key)
    BY <1>1
  <1> HIDE DEF seen
  <1> QED BY <1>4, <1>5 DEF Q

LEMMA FlatSingles ==
  ASSUME NEW T, NEW f \in Seq(T)
  PROVE  FlattenSeq([k \in 1..Len(f) |-> <<f[k]>>]) = f
  <1> DEFINE s == [k \in 1..Len(f) |-> <<f[k]>>]
             Q == [i \in 0..Len(f) |-> {SubSeq(f, 1, i)}]
  <1>1. Len(f) \in Nat /\ s \in Seq(Seq(T)) /\ Len(s) = Len(f)
        /\ \A i \in 1..Len(f) : s[i] = <<f[i]>>
    OBVIOUS
  <1>2. <<>> \in Q[0]
    BY <1>1
  <1>3. \A i \in 1..Len(s) : \A q \in Q[i - 1] : q \o s[i] \in Q[i]
    <2> SUFFICES ASSUME NEW i \in 1..Len(f), NEW q \in Q[i - 1]
                 PROVE  q \o s[i] \in Q[i]
      BY <1>1
    <2>1. i - 1 \in 0..Len(f) /\ i \in 0..Len(f)
      BY <1>1
    <2>2. q = SubSeq(f, 1, i - 1)
      BY <2>1
    <2>3. SubSeq(f, 1, i - 1) \o <<f[i]>> = SubSeq(f, 1, i)
      BY <1>1
    <2> QED BY <1>1, <2>1, <2>2, <2>3
  <1> HIDE DEF Q, s
  <1>4. FlattenSeq(s) \in Q[Len(s)]
    BY <1>1, <1>2, <1>3, FlatInvariant
  <1>5. Len(f) \in 0..Len(f) /\ SubSeq(f, 1, Len(f)) = f
    BY <1>1
  <1> QED BY <1>1, <1>4, <1>5 DEF Q, s

-----------------------------------------------------------------------------
(***************************************************************************)
(* A wrapped key.                                                          *)
(***************************************************************************)
\* None is no value of the tree and no word of the block.
NoneIsNoValue ==
    /\ None # "true"
    /\ \A text, style, enc :
         [t |-> "scalar", text |-> text, style |-> style, enc |-> enc] # None
    /\ \A items : Mapping(items) # None /\ List(items) # None

\* What WrappedKey::age and WrappedKey::opaque make: age's bears no time.
KeyOK(k) ==
    /\ k = [provider |-> k.provider, recipient |-> k.recipient,
            created_at |-> k.created_at, enc |-> k.enc]
    /\ k.provider \in ToSet(Providers)
    /\ k.provider = "age" => k.created_at = None

LEMMA ProviderNames ==
  /\ Len(Providers) = 7 /\ DOMAIN Providers = 1..7
  /\ ToSet(Providers) = {"pgp", "kms", "gcp_kms", "hckms", "azure_kv", "hc_vault", "age"}
  /\ \A p \in ToSet(Providers) : IdField[p] \notin {"created_at", "enc"}
  <1>1. Len(Providers) = 7 /\ DOMAIN Providers = 1..7
    <2>1. Len(Providers) = 7
      BY DEF Providers
    <2>2. DOMAIN Providers = 1..7
      BY DEF Providers
    <2> QED BY <2>1, <2>2
  <1>2. /\ Providers[1] = "pgp" /\ Providers[2] = "kms" /\ Providers[3] = "gcp_kms"
        /\ Providers[4] = "hckms" /\ Providers[5] = "azure_kv"
        /\ Providers[6] = "hc_vault" /\ Providers[7] = "age"
    BY DEF Providers
  <1>3. \A k : k \in 1..7 <=> k \in {1, 2, 3, 4, 5, 6, 7}
    OBVIOUS
  <1>4. ToSet(Providers) = {Providers[k] : k \in 1..7}
    BY <1>1 DEF ToSet
  <1>5. ToSet(Providers) = {"pgp", "kms", "gcp_kms", "hckms", "azure_kv", "hc_vault", "age"}
    BY <1>2, <1>3, <1>4
  <1>6. \A p \in ToSet(Providers) : IdField[p] \notin {"created_at", "enc"}
    BY <1>5 DEF IdField
  <1> QED BY <1>1, <1>5, <1>6

LEMMA ScalarFields ==
  /\ \A w : Text(w) = [t |-> "scalar", text |-> w, style |-> "plain", enc |-> None]
  /\ \A c : Cipher(c) = [t |-> "scalar", text |-> "", style |-> "plain", enc |-> c]
  /\ \A c : Armored(c) = [t |-> "scalar", text |-> "", style |-> "literal", enc |-> c]
  <1>1. \A w : Text(w) = [t |-> "scalar", text |-> w, style |-> "plain", enc |-> None]
    BY DEF Text, Scalar
  <1>2. ASSUME NEW c
        PROVE  Cipher(c) = [t |-> "scalar", text |-> "", style |-> "plain", enc |-> c]
    <2>1. Missing = [t |-> "scalar", text |-> "", style |-> "plain", enc |-> None]
      BY DEF Missing, Scalar
    <2>2. Cipher(c) = [[t |-> "scalar", text |-> "", style |-> "plain", enc |-> None]
                         EXCEPT !.enc = c]
      BY <2>1, Zenon DEF Cipher
    <2> QED BY <2>2
  <1>3. ASSUME NEW c
        PROVE  Armored(c) = [t |-> "scalar", text |-> "", style |-> "literal", enc |-> c]
    <2>1. Armored(c) = [[t |-> "scalar", text |-> "", style |-> "plain", enc |-> c]
                          EXCEPT !.style = "literal"]
      BY <1>2, Zenon DEF Armored
    <2> QED BY <2>1
  <1> QED BY <1>1, <1>2, <1>3

LEMMA KeysForIs ==
  ASSUME NEW K, NEW m, m.keys \in Seq(K), NEW p
  PROVE  KeysFor(m, p) \in Seq({k \in K : k.provider = p})
  <1> DEFINE of == {k \in K : k.provider = p}
             s  == [k \in DOMAIN m.keys |->
                      IF m.keys[k].provider = p THEN <<m.keys[k]>> ELSE <<>>]
             Q  == [i \in 0..Len(s) |-> Seq(of)]
  <1>1. DOMAIN m.keys = 1..Len(m.keys) /\ Len(m.keys) \in Nat
        /\ \A k \in 1..Len(m.keys) : m.keys[k] \in K
    OBVIOUS
  <1>2. \A k \in 1..Len(m.keys) :
          (IF m.keys[k].provider = p THEN <<m.keys[k]>> ELSE <<>>) \in Seq(of)
    <2> SUFFICES ASSUME NEW k \in 1..Len(m.keys)
                 PROVE  (IF m.keys[k].provider = p THEN <<m.keys[k]>> ELSE <<>>) \in Seq(of)
      OBVIOUS
    <2>1. CASE m.keys[k].provider = p
      <3>1. m.keys[k] \in of
        BY <1>1, <2>1
      <3> HIDE DEF of
      <3> QED BY <2>1, <3>1
    <2>2. CASE m.keys[k].provider # p
      <3> HIDE DEF of
      <3> QED BY <2>2
    <2> QED BY <2>1, <2>2
  <1> HIDE DEF of
  <1>3. s \in Seq(Seq(of)) /\ Len(s) = Len(m.keys)
    BY <1>1, <1>2
  <1> HIDE DEF s
  <1>4. \A i \in 1..Len(s) : s[i] \in Seq(of) /\ i - 1 \in 0..Len(s) /\ i \in 0..Len(s)
    BY <1>3
  <1>5. \A i \in 1..Len(s) : \A q \in Q[i - 1] : q \o s[i] \in Q[i]
    <2> SUFFICES ASSUME NEW i \in 1..Len(s), NEW q \in Q[i - 1]
                 PROVE  q \o s[i] \in Q[i]
      OBVIOUS
    <2>1. Q[i - 1] = Seq(of) /\ Q[i] = Seq(of)
      BY <1>4
    <2>2. q \in Seq(of) /\ s[i] \in Seq(of)
      BY <1>4, <2>1
    <2>3. q \o s[i] \in Seq(of)
      BY <2>2
    <2> QED BY <2>1, <2>3
  <1>6. <<>> \in Q[0] /\ Len(s) \in 0..Len(s)
    BY <1>3
  <1>7. FlattenSeq(s) \in Q[Len(s)]
    <2> HIDE DEF Q
    <2> QED BY <1>3, <1>5, <1>6, FlatInvariant
  <1>8. FlattenSeq(s) \in Seq(of)
    BY <1>6, <1>7
  <1> QED BY <1>8 DEF KeysFor, of, s

LEMMA KeyReads ==
  ASSUME NoneIsNoValue, NEW k, KeyOK(k)
  PROVE  /\ Get(KeyTree(k), IdField[k.provider]) = Text(k.recipient)
         /\ Get(KeyTree(k), "enc") = IF k.provider = "age" THEN Armored(k.enc)
                                                           ELSE Cipher(k.enc)
         /\ Get(KeyTree(k), "created_at") = IF k.created_at = None THEN None
                                            ELSE Text(k.created_at)
  <1> DEFINE id  == IdField[k.provider]
             enc == IF k.provider = "age" THEN Armored(k.enc) ELSE Cipher(k.enc)
             p1  == Pair(id, Text(k.recipient))
             p2  == Pair("created_at", Text(k.created_at))
             p3  == Pair("enc", enc)
             a   == <<p1>>
             b   == IF k.created_at = None THEN <<>> ELSE <<p2>>
             c   == <<p3>>
             P   == {p1, p2, p3}
  <1>1. Text(k.recipient) # None /\ Text(k.created_at) # None /\ enc # None
    BY ScalarFields DEF NoneIsNoValue
  <1>2. id \notin {"created_at", "enc"}
    BY ProviderNames DEF KeyOK
  <1>3. KeyTree(k) = Mapping(a \o b \o c)
    BY DEF KeyTree
  <1> HIDE DEF id, enc
  <1>4. ItemsOK(P)
    BY <1>1 DEF ItemsOK, Pair
  <1>5. a \in Seq(P) /\ b \in Seq(P) /\ c \in Seq(P) /\ a \o b \in Seq(P)
    <2> HIDE DEF p1, p2, p3
    <2>1. p1 \in P /\ p2 \in P /\ p3 \in P
      OBVIOUS
    <2> HIDE DEF P
    <2>2. a \in Seq(P) /\ c \in Seq(P)
      BY <2>1
    <2>3. b \in Seq(P)
      BY <2>1
    <2> HIDE DEF a, b, c
    <2> QED BY <2>2, <2>3
  <1>6. \A key : /\ Reads(a, key) = IF id = key THEN Text(k.recipient) ELSE None
                 /\ Reads(c, key) = IF "enc" = key THEN enc ELSE None
                 /\ Reads(b, key) = IF "created_at" = key /\ k.created_at # None
                                    THEN Text(k.created_at) ELSE None
    BY ReadsPair, ReadsEmpty
  <1> HIDE DEF a, b, c, P
  <1>7. \A key : Reads(a \o b, key) = IF Reads(a, key) # None THEN Reads(a, key)
                                      ELSE Reads(b, key)
    BY <1>4, <1>5, ReadsConcat
  <1>8. \A key : Reads(a \o b \o c, key) = IF Reads(a \o b, key) # None THEN Reads(a \o b, key)
                                           ELSE Reads(c, key)
    <2> DEFINE ab == a \o b
    <2>1. ab \in Seq(P)
      BY <1>5
    <2> HIDE DEF ab
    <2>2. \A key : Reads(ab \o c, key) = IF Reads(ab, key) # None THEN Reads(ab, key)
                                         ELSE Reads(c, key)
      BY <1>4, <1>5, <2>1, ReadsConcat
    <2> QED BY <2>2 DEF ab
  <1>9. \A key : Get(KeyTree(k), key) = Reads(a \o b \o c, key)
    BY <1>3 DEF Reads
  <1>10. Get(KeyTree(k), id) = Text(k.recipient)
    BY <1>1, <1>6, <1>7, <1>8, <1>9
  <1>11. Get(KeyTree(k), "enc") = enc
    BY <1>1, <1>2, <1>6, <1>7, <1>8, <1>9
  <1>12. Get(KeyTree(k), "created_at") = IF k.created_at = None THEN None ELSE Text(k.created_at)
    BY <1>1, <1>2, <1>6, <1>7, <1>8, <1>9
  <1> QED BY <1>10, <1>11, <1>12 DEF id, enc

-----------------------------------------------------------------------------
(***************************************************************************)
(* The items of a block, field by field.                                   *)
(***************************************************************************)
KeyList(m, p) == List([j \in DOMAIN KeysFor(m, p) |-> Elem(KeyTree(KeysFor(m, p)[j]))])

ItemsOf(m) ==
    {Pair("shamir_threshold", Text(m.shamir_threshold)),
     Pair("lastmodified", New(m.lastmodified)), Pair("mac", Cipher(m.mac)),
     Pair("mac_only_encrypted", Text("true")), Pair("version", Text(m.version))}
    \cup {Pair(Providers[k], KeyList(m, Providers[k])) : k \in 1..7}
    \cup {Pair(StageOrder[k], Text(m[StageOrder[k]])) : k \in 1..6}

LEMMA ItemsAreOK ==
  ASSUME NoneIsNoValue, NEW m
  PROVE  ItemsOK(ItemsOf(m))
  <1>1. \A w : Text(w) # None /\ Cipher(w) # None
    BY ScalarFields DEF NoneIsNoValue
  <1>2. \A p : KeyList(m, p) # None
    BY DEF NoneIsNoValue, KeyList
  <1>3. New(m.lastmodified) # None
    BY DEF New, Scalar, NoneIsNoValue
  <1>4. \A i \in ItemsOf(m) : \E n, v : i = Pair(n, v) /\ v # None
    BY <1>1, <1>2, <1>3 DEF ItemsOf
  <1> QED BY <1>4 DEF ItemsOK, Pair

LEMMA StageNames ==
  /\ Len(StageOrder) = 6 /\ DOMAIN StageOrder = 1..6
  /\ \A f : f \in Stages <=> \E k \in 1..6 : f = StageOrder[k]
  /\ \A j, k \in 1..6 : StageOrder[j] = StageOrder[k] => j = k
  <1>1. Len(StageOrder) = 6
    BY DEF StageOrder
  <1>2. DOMAIN StageOrder = 1..6
    BY DEF StageOrder
  <1>3. /\ StageOrder[1] = "unencrypted_suffix" /\ StageOrder[2] = "encrypted_suffix"
        /\ StageOrder[3] = "unencrypted_regex" /\ StageOrder[4] = "encrypted_regex"
        /\ StageOrder[5] = "unencrypted_comment_regex"
        /\ StageOrder[6] = "encrypted_comment_regex"
    BY DEF StageOrder
  <1>4. \A k : k \in 1..6 <=> k \in {1, 2, 3, 4, 5, 6}
    OBVIOUS
  <1>5. \A f : f \in Stages <=> \E k \in 1..6 : f = StageOrder[k]
    BY <1>3, <1>4 DEF Stages
  <1>6. \A j, k \in 1..6 : StageOrder[j] = StageOrder[k] => j = k
    BY <1>3, <1>4
  <1> QED BY <1>1, <1>2, <1>5, <1>6

LEMMA ProvidersApart == \A j, k \in 1..7 : Providers[j] = Providers[k] => j = k
  <1>1. /\ Providers[1] = "pgp" /\ Providers[2] = "kms" /\ Providers[3] = "gcp_kms"
        /\ Providers[4] = "hckms" /\ Providers[5] = "azure_kv"
        /\ Providers[6] = "hc_vault" /\ Providers[7] = "age"
    BY DEF Providers
  <1>2. \A k : k \in 1..7 <=> k \in {1, 2, 3, 4, 5, 6, 7}
    OBVIOUS
  <1> QED BY <1>1, <1>2

LEMMA OneOrNone ==
  ASSUME NEW P, NEW i \in P
  PROVE  <<>> \in Seq(P) /\ <<i>> \in Seq(P)
  OBVIOUS

LEMMA OptReads ==
  ASSUME NEW field, NEW word, NEW key
  PROVE  Reads(Opt(field, word), key) =
           IF key = field /\ word \notin {None, ""} THEN Text(word) ELSE None
  <1>1. CASE word \in {None, ""}
    <2>1. Opt(field, word) = <<>>
      BY <1>1 DEF Opt
    <2>2. Reads(Opt(field, word), key) = None
      BY <2>1, ReadsEmpty
    <2> QED BY <1>1, <2>2
  <1>2. CASE word \notin {None, ""}
    <2>1. Opt(field, word) = <<Pair(field, Text(word))>>
      BY <1>2 DEF Opt
    <2>2. Reads(Opt(field, word), key) = IF field = key THEN Text(word) ELSE None
      BY <2>1, ReadsPair
    <2> QED BY <1>2, <2>2
  <1> QED BY <1>1, <1>2

LEMMA ProvidersRead ==
  ASSUME NoneIsNoValue, NEW m, NEW key
  PROVE  LET a == FlattenSeq([k \in DOMAIN Providers |-> PushProvider(m, Providers[k])])
         IN  /\ a \in Seq(ItemsOf(m))
             /\ Reads(a, key) = IF key \in ToSet(Providers) /\ KeysFor(m, key) # <<>>
                                THEN KeyList(m, key) ELSE None
  <1> DEFINE P == ItemsOf(m)
             s == [k \in DOMAIN Providers |-> PushProvider(m, Providers[k])]
  <1>1. DOMAIN Providers = 1..7
    BY ProviderNames
  <1>2. \A p : PushProvider(m, p) = IF KeysFor(m, p) = <<>> THEN <<>>
                                    ELSE <<Pair(p, KeyList(m, p))>>
    BY DEF PushProvider, KeyList
  <1>3. \A k \in 1..7 : PushProvider(m, Providers[k]) \in Seq(P)
    <2> SUFFICES ASSUME NEW k \in 1..7 PROVE PushProvider(m, Providers[k]) \in Seq(P)
      OBVIOUS
    <2> DEFINE i == Pair(Providers[k], KeyList(m, Providers[k]))
    <2>1. i \in P
      BY DEF ItemsOf
    <2>2. PushProvider(m, Providers[k]) = <<>> \/ PushProvider(m, Providers[k]) = <<i>>
      BY <1>2
    <2>3. <<>> \in Seq(P) /\ <<i>> \in Seq(P)
      BY <2>1, OneOrNone
    <2> HIDE DEF i, P
    <2> QED BY <2>2, <2>3
  <1>4. s \in Seq(Seq(P)) /\ Len(s) = 7 /\ \A k \in 1..7 : s[k] = PushProvider(m, Providers[k])
    <2> HIDE DEF P
    <2> QED BY <1>1, <1>3
  <1> HIDE DEF s, P
  <1>5. \A k \in 1..7 : Reads(s[k], key) = IF key = Providers[k] /\ KeysFor(m, key) # <<>>
                                           THEN KeyList(m, key) ELSE None
    <2> SUFFICES ASSUME NEW k \in 1..7
                 PROVE  Reads(s[k], key) = IF key = Providers[k] /\ KeysFor(m, key) # <<>>
                                           THEN KeyList(m, key) ELSE None
      OBVIOUS
    <2>1. CASE KeysFor(m, Providers[k]) = <<>>
      <3>1. s[k] = <<>>
        BY <1>2, <1>4, <2>1
      <3>2. Reads(s[k], key) = None
        BY <3>1, ReadsEmpty
      <3> QED BY <2>1, <3>2
    <2>2. CASE KeysFor(m, Providers[k]) # <<>>
      <3>1. s[k] = <<Pair(Providers[k], KeyList(m, Providers[k]))>>
        BY <1>2, <1>4, <2>2
      <3>2. Reads(s[k], key) = IF Providers[k] = key THEN KeyList(m, Providers[k]) ELSE None
        BY <3>1, ReadsPair
      <3> QED BY <2>2, <3>2
    <2> QED BY <2>1, <2>2
  <1>6. ItemsOK(P)
    BY ItemsAreOK DEF P
  <1>7. CASE key \in ToSet(Providers)
    <2>1. PICK at \in 1..7 : key = Providers[at]
      BY <1>1, <1>7 DEF ToSet
    <2>2. \A k \in 1..7 : k # at => Reads(s[k], key) = None
      BY <1>5, <2>1, ProvidersApart
    <2>3. at \in 0..Len(s) /\ at # 0
      BY <1>4
    <2>4. FlattenSeq(s) \in Seq(P) /\ Reads(FlattenSeq(s), key) = Reads(s[at], key)
      BY <1>4, <1>6, <2>2, <2>3, FlatReads
    <2> QED BY <1>5, <1>7, <2>1, <2>4 DEF s, P
  <1>8. CASE key \notin ToSet(Providers)
    <2>1. \A k \in 1..7 : Reads(s[k], key) = None
      BY <1>1, <1>5, <1>8 DEF ToSet
    <2>2. 0 \in 0..Len(s)
      BY <1>4
    <2>3. FlattenSeq(s) \in Seq(P) /\ Reads(FlattenSeq(s), key) = None
      BY <1>4, <1>6, <2>1, <2>2, FlatReads
    <2> QED BY <1>8, <2>3 DEF s, P
  <1> QED BY <1>7, <1>8

LEMMA StagesRead ==
  ASSUME NoneIsNoValue, NEW m, NEW key
  PROVE  LET a == FlattenSeq([k \in DOMAIN StageOrder |->
                                Opt(StageOrder[k], m[StageOrder[k]])])
         IN  /\ a \in Seq(ItemsOf(m))
             /\ Reads(a, key) = IF key \in Stages /\ m[key] \notin {None, ""}
                                THEN Text(m[key]) ELSE None
  <1> DEFINE P == ItemsOf(m)
             s == [k \in DOMAIN StageOrder |-> Opt(StageOrder[k], m[StageOrder[k]])]
  <1>1. DOMAIN StageOrder = 1..6
    BY StageNames
  <1>2. \A k \in 1..6 : Opt(StageOrder[k], m[StageOrder[k]]) \in Seq(P)
    <2> SUFFICES ASSUME NEW k \in 1..6
                 PROVE  Opt(StageOrder[k], m[StageOrder[k]]) \in Seq(P)
      OBVIOUS
    <2> DEFINE o == Opt(StageOrder[k], m[StageOrder[k]])
               i == Pair(StageOrder[k], Text(m[StageOrder[k]]))
    <2>1. i \in P
      BY DEF ItemsOf
    <2>2. o = <<>> \/ o = <<i>>
      BY DEF Opt
    <2>3. <<>> \in Seq(P) /\ <<i>> \in Seq(P)
      BY <2>1, OneOrNone
    <2> HIDE DEF i, P, o
    <2>4. o \in Seq(P)
      BY <2>2, <2>3
    <2> QED BY <2>4 DEF o
  <1>3. s \in Seq(Seq(P)) /\ Len(s) = 6
        /\ \A k \in 1..6 : s[k] = Opt(StageOrder[k], m[StageOrder[k]])
    <2> HIDE DEF P
    <2> QED BY <1>1, <1>2
  <1> HIDE DEF s, P
  <1>4. \A k \in 1..6 : Reads(s[k], key) = IF key = StageOrder[k] /\ m[key] \notin {None, ""}
                                           THEN Text(m[key]) ELSE None
    <2> SUFFICES ASSUME NEW k \in 1..6
                 PROVE  Reads(s[k], key) = IF key = StageOrder[k] /\ m[key] \notin {None, ""}
                                           THEN Text(m[key]) ELSE None
      OBVIOUS
    <2> DEFINE o == Opt(StageOrder[k], m[StageOrder[k]])
    <2>0. Reads(o, key) = IF key = StageOrder[k] /\ m[StageOrder[k]] \notin {None, ""}
                          THEN Text(m[StageOrder[k]]) ELSE None
      BY OptReads
    <2>4. s[k] = o
      BY <1>3
    <2> HIDE DEF o
    <2>1. Reads(s[k], key) = IF key = StageOrder[k] /\ m[StageOrder[k]] \notin {None, ""}
                             THEN Text(m[StageOrder[k]]) ELSE None
      BY <2>0, <2>4
    <2>2. CASE key = StageOrder[k]
      BY <2>1, <2>2
    <2>3. CASE key # StageOrder[k]
      BY <2>1, <2>3
    <2> QED BY <2>2, <2>3
  <1>5. ItemsOK(P)
    BY ItemsAreOK DEF P
  <1>6. CASE key \in Stages
    <2>1. PICK at \in 1..6 : key = StageOrder[at]
      BY <1>6, StageNames
    <2>2. \A k \in 1..6 : k # at => Reads(s[k], key) = None
      BY <1>4, <2>1, StageNames
    <2>3. at \in 0..Len(s) /\ at # 0
      BY <1>3
    <2>4. FlattenSeq(s) \in Seq(P) /\ Reads(FlattenSeq(s), key) = Reads(s[at], key)
      BY <1>3, <1>5, <2>2, <2>3, FlatReads
    <2> QED BY <1>4, <1>6, <2>1, <2>4 DEF s, P
  <1>7. CASE key \notin Stages
    <2>1. \A k \in 1..6 : Reads(s[k], key) = None
      BY <1>4, <1>7, StageNames
    <2>2. 0 \in 0..Len(s)
      BY <1>3
    <2>3. FlattenSeq(s) \in Seq(P) /\ Reads(FlattenSeq(s), key) = None
      BY <1>3, <1>5, <2>1, <2>2, FlatReads
    <2> QED BY <1>7, <2>3 DEF s, P
  <1> QED BY <1>6, <1>7

\* What every field of the block reads as.
BlockGet(m, key) ==
    IF key = "shamir_threshold" THEN
        IF m.shamir_threshold \in {None, ""} THEN None ELSE Text(m.shamir_threshold)
    ELSE IF key \in ToSet(Providers) THEN
        IF KeysFor(m, key) = <<>> THEN None ELSE KeyList(m, key)
    ELSE IF key = "lastmodified" THEN New(m.lastmodified)
    ELSE IF key = "mac" THEN Cipher(m.mac)
    ELSE IF key \in Stages THEN
        IF m[key] \in {None, ""} THEN None ELSE Text(m[key])
    ELSE IF key = "mac_only_encrypted" THEN
        IF m.mac_only_encrypted THEN Text("true") ELSE None
    ELSE IF key = "version" THEN Text(m.version) ELSE None

\* One segment after another: the first that has the key is the one read.
FirstHit(a, b, c, d, e, f, key) ==
    IF Reads(a, key) # None THEN Reads(a, key)
    ELSE IF Reads(b, key) # None THEN Reads(b, key)
    ELSE IF Reads(c, key) # None THEN Reads(c, key)
    ELSE IF Reads(d, key) # None THEN Reads(d, key)
    ELSE IF Reads(e, key) # None THEN Reads(e, key)
    ELSE Reads(f, key)

LEMMA TwoItems ==
  ASSUME NEW P, ItemsOK(P), NEW i \in P, NEW j \in P, NEW key
  PROVE  /\ <<i, j>> \in Seq(P)
         /\ Reads(<<i, j>>, key) = IF Reads(<<i>>, key) # None THEN Reads(<<i>>, key)
                                   ELSE Reads(<<j>>, key)
  <1> DEFINE a == <<i>>
             b == <<j>>
  <1>1. a \in Seq(P) /\ b \in Seq(P) /\ <<i, j>> = a \o b /\ <<i, j>> \in Seq(P)
    <2>1. <<i>> \in Seq(P) /\ <<j>> \in Seq(P)
      BY OneOrNone
    <2>2. <<i, j>> \in Seq(P)
      OBVIOUS
    <2> DEFINE t == <<i, j>>
    <2>3. Len(t) = 2 /\ t[1] = i /\ t[2] = j
      OBVIOUS
    <2>4. Len(a) = 1 /\ a[1] = i /\ Len(b) = 1 /\ b[1] = j
      OBVIOUS
    <2> HIDE DEF a, b, t
    <2>5. Len(a \o b) = 2 /\ (a \o b)[1] = i /\ (a \o b)[2] = j /\ a \o b \in Seq(P)
      BY <2>1, <2>4 DEF a, b
    <2>6. t = a \o b
      BY <2>2, <2>3, <2>5 DEF t
    <2> QED BY <2>1, <2>2, <2>6 DEF a, b, t
  <1> HIDE DEF a, b
  <1>2. Reads(a \o b, key) = IF Reads(a, key) # None THEN Reads(a, key) ELSE Reads(b, key)
    BY <1>1, ReadsConcat
  <1> QED BY <1>1, <1>2 DEF a, b

LEMMA Chain ==
  ASSUME NEW P, ItemsOK(P), NEW key,
         NEW a \in Seq(P), NEW b \in Seq(P), NEW c \in Seq(P),
         NEW d \in Seq(P), NEW e \in Seq(P), NEW f \in Seq(P)
  PROVE  /\ a \o b \o c \o d \o e \o f \in Seq(P)
         /\ Reads(a \o b \o c \o d \o e \o f, key) = FirstHit(a, b, c, d, e, f, key)
  <1> DEFINE ab == a \o b
             abc == ab \o c
             abcd == abc \o d
             abcde == abcd \o e
             all == abcde \o f
  <1>1. ab \in Seq(P) /\ Reads(ab, key) = IF Reads(a, key) # None THEN Reads(a, key)
                                          ELSE Reads(b, key)
    BY ReadsConcat
  <1> HIDE DEF ab
  <1>2. abc \in Seq(P) /\ Reads(abc, key) = IF Reads(ab, key) # None THEN Reads(ab, key)
                                            ELSE Reads(c, key)
    BY <1>1, ReadsConcat
  <1> HIDE DEF abc
  <1>3. abcd \in Seq(P) /\ Reads(abcd, key) = IF Reads(abc, key) # None THEN Reads(abc, key)
                                              ELSE Reads(d, key)
    BY <1>2, ReadsConcat
  <1> HIDE DEF abcd
  <1>4. abcde \in Seq(P) /\ Reads(abcde, key) = IF Reads(abcd, key) # None
                                                THEN Reads(abcd, key) ELSE Reads(e, key)
    BY <1>3, ReadsConcat
  <1> HIDE DEF abcde
  <1>5. all \in Seq(P) /\ Reads(all, key) = IF Reads(abcde, key) # None
                                            THEN Reads(abcde, key) ELSE Reads(f, key)
    BY <1>4, ReadsConcat
  <1>6. all = a \o b \o c \o d \o e \o f
    BY DEF ab, abc, abcd, abcde
  <1> HIDE DEF all
  <1> QED BY <1>1, <1>2, <1>3, <1>4, <1>5, <1>6 DEF FirstHit

LEMMA BlockNames ==
  /\ ToSet(Providers) \cap Stages = {}
  /\ (ToSet(Providers) \cup Stages) \cap
     {"shamir_threshold", "lastmodified", "mac", "mac_only_encrypted", "version"} = {}
  BY ProviderNames DEF Stages

LEMMA BlockReads ==
  ASSUME NoneIsNoValue, NEW m, m.mac_only_encrypted \in BOOLEAN, NEW key
  PROVE  Get(MetaTree(m), key) = BlockGet(m, key)
  <1> DEFINE P == ItemsOf(m)
             a == Opt("shamir_threshold", m.shamir_threshold)
             b == FlattenSeq([k \in DOMAIN Providers |-> PushProvider(m, Providers[k])])
             c1 == Pair("lastmodified", New(m.lastmodified))
             c2 == Pair("mac", Cipher(m.mac))
             c == <<c1, c2>>
             d == FlattenSeq([k \in DOMAIN StageOrder |->
                                Opt(StageOrder[k], m[StageOrder[k]])])
             e1 == Pair("mac_only_encrypted", Text("true"))
             e == IF m.mac_only_encrypted THEN <<e1>> ELSE <<>>
             f1 == Pair("version", Text(m.version))
             f == <<f1>>
  <1>1. MetaTree(m) = Mapping(a \o b \o c \o d \o e \o f)
    BY DEF MetaTree
  <1>2. ItemsOK(P)
    BY ItemsAreOK
  <1>3. a \in Seq(P) /\ Reads(a, key) = IF key = "shamir_threshold"
                                           /\ m.shamir_threshold \notin {None, ""}
                                        THEN Text(m.shamir_threshold) ELSE None
    <2> DEFINE i == Pair("shamir_threshold", Text(m.shamir_threshold))
    <2>1. i \in P
      BY DEF ItemsOf
    <2>2. a = <<>> \/ a = <<i>>
      BY DEF Opt
    <2>3. <<>> \in Seq(P) /\ <<i>> \in Seq(P)
      BY <2>1, OneOrNone
    <2>4. Reads(a, key) = IF key = "shamir_threshold" /\ m.shamir_threshold \notin {None, ""}
                          THEN Text(m.shamir_threshold) ELSE None
      BY OptReads
    <2> HIDE DEF i, P, a
    <2> QED BY <2>2, <2>3, <2>4
  <1>4. b \in Seq(P) /\ Reads(b, key) = IF key \in ToSet(Providers) /\ KeysFor(m, key) # <<>>
                                        THEN KeyList(m, key) ELSE None
    BY ProvidersRead
  <1>5. d \in Seq(P) /\ Reads(d, key) = IF key \in Stages /\ m[key] \notin {None, ""}
                                        THEN Text(m[key]) ELSE None
    BY StagesRead
  <1>6. c1 \in P /\ c2 \in P /\ e1 \in P /\ f1 \in P
    BY DEF ItemsOf
  <1> HIDE DEF a, b, d, P
  <1>7. /\ Reads(<<c1>>, key) = IF "lastmodified" = key THEN New(m.lastmodified) ELSE None
        /\ Reads(<<c2>>, key) = IF "mac" = key THEN Cipher(m.mac) ELSE None
        /\ Reads(<<e1>>, key) = IF "mac_only_encrypted" = key THEN Text("true") ELSE None
        /\ Reads(<<f1>>, key) = IF "version" = key THEN Text(m.version) ELSE None
        /\ Reads(<<>>, key) = None
    BY ReadsPair, ReadsEmpty
  <1> HIDE DEF c1, c2, e1, f1
  <1>8. <<e1>> \in Seq(P) /\ <<f1>> \in Seq(P) /\ <<>> \in Seq(P)
    BY <1>6, OneOrNone
  <1>9. c \in Seq(P) /\ Reads(c, key) = IF Reads(<<c1>>, key) # None THEN Reads(<<c1>>, key)
                                        ELSE Reads(<<c2>>, key)
    BY <1>2, <1>6, TwoItems
  <1>10. e \in Seq(P) /\ Reads(e, key) = IF "mac_only_encrypted" = key /\ m.mac_only_encrypted
                                         THEN Text("true") ELSE None
    <2>1. CASE m.mac_only_encrypted
      <3>1. e = <<e1>>
        BY <2>1
      <3> HIDE DEF e
      <3> QED BY <1>7, <1>8, <2>1, <3>1
    <2>2. CASE ~m.mac_only_encrypted
      <3>1. e = <<>>
        BY <2>2
      <3> HIDE DEF e
      <3> QED BY <1>7, <1>8, <2>2, <3>1
    <2> QED BY <2>1, <2>2
  <1>11. f \in Seq(P) /\ Reads(f, key) = IF "version" = key THEN Text(m.version) ELSE None
    BY <1>7, <1>8
  <1> HIDE DEF c, e, f
  <1>12. Reads(a \o b \o c \o d \o e \o f, key) = FirstHit(a, b, c, d, e, f, key)
    <2>1. /\ a \in Seq(P) /\ b \in Seq(P) /\ c \in Seq(P)
          /\ d \in Seq(P) /\ e \in Seq(P) /\ f \in Seq(P)
      BY <1>3, <1>4, <1>5, <1>9, <1>10, <1>11
    <2> QED BY <1>2, <2>1, Chain
  <1>13. Get(MetaTree(m), key) = Reads(a \o b \o c \o d \o e \o f, key)
    BY <1>1 DEF Reads
  <1>14. \A w : Text(w) # None /\ Cipher(w) # None
    BY ScalarFields DEF NoneIsNoValue
  <1>15. KeyList(m, key) # None /\ New(m.lastmodified) # None
    BY DEF New, Scalar, NoneIsNoValue, KeyList
  <1> DEFINE ra == Reads(a, key)
             rb == Reads(b, key)
             rc == Reads(c, key)
             rd == Reads(d, key)
             re == Reads(e, key)
             rf == Reads(f, key)
  <1>16. Get(MetaTree(m), key) =
              IF ra # None THEN ra ELSE IF rb # None THEN rb ELSE IF rc # None THEN rc
              ELSE IF rd # None THEN rd ELSE IF re # None THEN re ELSE rf
    BY <1>12, <1>13 DEF FirstHit
  <1>17. /\ ra = IF key = "shamir_threshold" /\ m.shamir_threshold \notin {None, ""}
                 THEN Text(m.shamir_threshold) ELSE None
         /\ rb = IF key \in ToSet(Providers) /\ KeysFor(m, key) # <<>>
                 THEN KeyList(m, key) ELSE None
         /\ rc = IF key = "lastmodified" THEN New(m.lastmodified)
                 ELSE IF key = "mac" THEN Cipher(m.mac) ELSE None
         /\ rd = IF key \in Stages /\ m[key] \notin {None, ""} THEN Text(m[key]) ELSE None
         /\ re = IF key = "mac_only_encrypted" /\ m.mac_only_encrypted
                 THEN Text("true") ELSE None
         /\ rf = IF key = "version" THEN Text(m.version) ELSE None
    BY <1>3, <1>4, <1>5, <1>7, <1>9, <1>10, <1>11, <1>15
  <1> HIDE DEF ra, rb, rc, rd, re, rf
  <1>18. CASE key \in ToSet(Providers)
    <2>1. /\ key # "shamir_threshold" /\ key # "lastmodified" /\ key # "mac"
          /\ key \notin Stages /\ key # "mac_only_encrypted" /\ key # "version"
      BY <1>18, BlockNames
    <2> QED BY <1>15, <1>16, <1>17, <1>18, <2>1 DEF BlockGet
  <1>19. CASE key \in Stages
    <2>1. /\ key # "shamir_threshold" /\ key # "lastmodified" /\ key # "mac"
          /\ key \notin ToSet(Providers) /\ key # "mac_only_encrypted" /\ key # "version"
      BY <1>19, BlockNames
    <2> QED BY <1>14, <1>16, <1>17, <1>19, <2>1 DEF BlockGet
  <1>20. CASE key \notin ToSet(Providers) /\ key \notin Stages
    BY <1>14, <1>15, <1>16, <1>17, <1>20 DEF BlockGet
  <1> QED BY <1>18, <1>19, <1>20

-----------------------------------------------------------------------------
(***************************************************************************)
(* FlattenSeq of one sequence after another.                               *)
(***************************************************************************)
Running(s, h) == h[0] = <<>> /\ \A i \in 1..Len(s) : h[i] = h[i - 1] \o s[i]

LEMMA FlatIs ==
  ASSUME NEW T, NEW s \in Seq(Seq(T)), NEW h, Running(s, h)
  PROVE  FlattenSeq(s) = h[Len(s)]
  <1> DEFINE Q == [i \in 0..Len(s) |-> {h[i]}]
  <1>1. Len(s) \in Nat /\ Len(s) \in 0..Len(s) /\ 0 \in 0..Len(s)
        /\ \A i \in 1..Len(s) : i \in 0..Len(s) /\ i - 1 \in 0..Len(s)
    OBVIOUS
  <1>2. <<>> \in Q[0]
    BY <1>1 DEF Running
  <1>3. \A i \in 1..Len(s) : \A q \in Q[i - 1] : q \o s[i] \in Q[i]
    BY <1>1 DEF Running
  <1>4. FlattenSeq(s) \in Q[Len(s)]
    <2> HIDE DEF Q
    <2> QED BY <1>2, <1>3, FlatInvariant
  <1> QED BY <1>1, <1>4

LEMMA FlatRuns ==
  ASSUME NEW T, NEW s \in Seq(Seq(T))
  PROVE  \E h : Running(s, h) /\ \A i \in 0..Len(s) : h[i] \in Seq(T)
  <1>1. Len(s) \in Nat /\ \A i \in 1..Len(s) : s[i] \in Seq(T)
    OBVIOUS
  <1>2. CASE s = <<>>
    <2> DEFINE h == [i \in 0..0 |-> <<>>]
    <2>1. h[0] = <<>> /\ Len(s) = 0
      BY <1>2
    <2>2. <<>> \in Seq(T)
      OBVIOUS
    <2> HIDE DEF h
    <2>3. \A i \in 0..Len(s) : h[i] \in Seq(T)
      <3>1. \A i \in 0..Len(s) : i = 0
        BY <2>1
      <3> QED BY <2>1, <2>2, <3>1
    <2>4. Running(s, h)
      BY <2>1 DEF Running
    <2> QED BY <2>3, <2>4
  <1>3. CASE s # <<>>
    <2>1. Len(s) # 0
      BY <1>3
    <2>2. PICK g : /\ g[1] = s[1]
                   /\ \A i \in 2..Len(s) : g[i] = g[i - 1] \o s[i]
      BY <1>1, <2>1, FlatSteps
    <2> DEFINE h == [i \in 0..Len(s) |-> IF i = 0 THEN <<>> ELSE g[i]]
    <2>3. h[0] = <<>> /\ \A i \in 1..Len(s) : h[i] = g[i]
      BY <1>1
    <2> HIDE DEF h
    <2>4. \A i \in 1..Len(s) : h[i] = h[i - 1] \o s[i]
      <3> TAKE i \in 1..Len(s)
      <3>1. CASE i = 1
        <4>1. h[i - 1] = <<>> /\ h[i] = s[i]
          BY <2>2, <2>3, <3>1
        <4>2. <<>> \o s[i] = s[i]
          BY <1>1
        <4> QED BY <4>1, <4>2
      <3>2. CASE i # 1
        <4>1. i \in 2..Len(s) /\ i - 1 \in 1..Len(s)
          BY <1>1, <3>2
        <4> QED BY <2>2, <2>3, <4>1
      <3> QED BY <3>1, <3>2
    <2> DEFINE S == {i \in 0..Len(s) : h[i] \notin Seq(T)}
    <2>5. S = {}
      <3> SUFFICES ASSUME S # {} PROVE FALSE
        OBVIOUS
      <3>1. PICK i \in S : \A x \in S : i <= x
        <4>1. S \subseteq Nat
          BY <1>1
        <4> HIDE DEF S
        <4> QED BY <4>1, LeastOf
      <3>2. i # 0
        <4>1. <<>> \in Seq(T)
          OBVIOUS
        <4> QED BY <2>3, <4>1
      <3>3. i \in 1..Len(s) /\ i - 1 \in 0..Len(s) /\ ~(i <= i - 1)
        BY <1>1, <3>2
      <3>4. i - 1 \notin S
        BY <3>1, <3>3
      <3>5. h[i - 1] \in Seq(T) /\ s[i] \in Seq(T) /\ h[i] = h[i - 1] \o s[i]
        BY <1>1, <2>4, <3>3, <3>4
      <3>6. h[i - 1] \o s[i] \in Seq(T)
        BY <3>5
      <3> QED BY <3>5, <3>6
    <2>6. Running(s, h) /\ \A i \in 0..Len(s) : h[i] \in Seq(T)
      BY <2>3, <2>4, <2>5 DEF Running
    <2> QED BY <2>6
  <1> QED BY <1>2, <1>3

LEMMA ConcatAssoc ==
  ASSUME NEW T, NEW a \in Seq(T), NEW b \in Seq(T), NEW c \in Seq(T)
  PROVE  (a \o b) \o c = a \o (b \o c)
  OBVIOUS

LEMMA FlatConcat ==
  ASSUME NEW T, NEW s \in Seq(Seq(T)), NEW t \in Seq(Seq(T))
  PROVE  /\ FlattenSeq(s) \in Seq(T)
         /\ FlattenSeq(s \o t) = FlattenSeq(s) \o FlattenSeq(t)
  <1>1. PICK u : Running(s, u) /\ \A i \in 0..Len(s) : u[i] \in Seq(T)
    BY FlatRuns
  <1>2. PICK v : Running(t, v) /\ \A i \in 0..Len(t) : v[i] \in Seq(T)
    BY FlatRuns
  <1> DEFINE n == Len(s)
             m == Len(t)
             q == s \o t
             h == [i \in 0..n + m |-> IF i <= n THEN u[i] ELSE u[n] \o v[i - n]]
  <1>3. /\ n \in Nat /\ m \in Nat /\ q \in Seq(Seq(T)) /\ Len(q) = n + m
        /\ \A i \in 1..n : q[i] = s[i]
        /\ \A i \in 1..m : q[n + i] = t[i]
        /\ \A i \in 1..n : s[i] \in Seq(T)
        /\ \A i \in 1..m : t[i] \in Seq(T)
    OBVIOUS
  <1>4. FlattenSeq(s) = u[n] /\ FlattenSeq(t) = v[m]
    BY <1>1, <1>2, FlatIs
  <1> HIDE DEF n, m, q
  <1>5. u[n] \in Seq(T) /\ v[0] = <<>> /\ u[0] = <<>>
    BY <1>1, <1>2, <1>3 DEF Running, n
  <1>6. \A i \in 0..n : h[i] = u[i]
    BY <1>3
  <1>7. \A i \in 0..m : h[n + i] = u[n] \o v[i]
    <2> TAKE i \in 0..m
    <2>1. n + i \in 0..n + m /\ (n + i) - n = i
      BY <1>3
    <2>2. CASE i = 0
      <3>1. h[n + i] = u[n]
        BY <1>3, <1>6, <2>2
      <3>2. u[n] \o <<>> = u[n]
        BY <1>5
      <3> QED BY <1>5, <2>2, <3>1, <3>2
    <2>3. CASE i # 0
      <3>1. ~(n + i <= n)
        BY <1>3, <2>3
      <3> QED BY <2>1, <3>1
    <2> QED BY <2>2, <2>3
  <1> HIDE DEF h
  <1>8. \A i \in 1..n : u[i] = u[i - 1] \o s[i]
    BY <1>1 DEF Running, n
  <1>9. \A i \in 1..m : v[i] = v[i - 1] \o t[i] /\ v[i - 1] \in Seq(T)
    <2>1. \A i \in 1..m : i - 1 \in 0..m
      BY <1>3
    <2>2. \A i \in 1..m : v[i] = v[i - 1] \o t[i]
      BY <1>2 DEF Running, m
    <2>3. \A i \in 0..m : v[i] \in Seq(T)
      BY <1>2 DEF m
    <2> QED BY <2>1, <2>2, <2>3
  <1>10. \A i \in 1..n + m : h[i] = h[i - 1] \o q[i]
    <2> TAKE i \in 1..n + m
    <2>1. CASE i <= n
      <3>1. i \in 1..n /\ i \in 0..n /\ i - 1 \in 0..n
        BY <1>3, <2>1
      <3> QED BY <1>3, <1>6, <1>8, <3>1
    <2>2. CASE i > n
      <3> DEFINE j == i - n
      <3>1. j \in 1..m /\ j \in 0..m /\ j - 1 \in 0..m /\ i = n + j /\ i - 1 = n + (j - 1)
        BY <1>3, <2>2
      <3> HIDE DEF j
      <3>2. h[i] = u[n] \o v[j] /\ h[i - 1] = u[n] \o v[j - 1] /\ q[i] = t[j]
        BY <1>3, <1>7, <3>1
      <3>3. v[j] = v[j - 1] \o t[j] /\ v[j - 1] \in Seq(T) /\ t[j] \in Seq(T)
        BY <1>3, <1>9, <3>1
      <3>4. (u[n] \o v[j - 1]) \o t[j] = u[n] \o (v[j - 1] \o t[j])
        <4> DEFINE x == u[n]
                   y == v[j - 1]
                   z == t[j]
        <4>1. x \in Seq(T) /\ y \in Seq(T) /\ z \in Seq(T)
          BY <1>5, <3>3
        <4> HIDE DEF x, y, z
        <4>2. (x \o y) \o z = x \o (y \o z)
          BY <4>1, ConcatAssoc
        <4> QED BY <4>2 DEF x, y, z
      <3> QED BY <3>2, <3>3, <3>4
    <2> QED BY <1>3, <2>1, <2>2
  <1>11. Running(q, h)
    <2>1. h[0] = <<>>
      BY <1>3, <1>5, <1>6
    <2> QED BY <1>3, <1>10, <2>1 DEF Running
  <1>12. FlattenSeq(q) = h[n + m]
    BY <1>3, <1>11, FlatIs
  <1>13. h[n + m] = u[n] \o v[m]
    <2>1. m \in 0..m
      BY <1>3
    <2> QED BY <1>7, <2>1
  <1> QED BY <1>4, <1>5, <1>12, <1>13 DEF q

-----------------------------------------------------------------------------
(***************************************************************************)
(* The keys of a provider, in a list of keys after another.                *)
(***************************************************************************)
Parts(q, p) == [k \in DOMAIN q |-> IF q[k].provider = p THEN <<q[k]>> ELSE <<>>]
Of(q, p) == FlattenSeq(Parts(q, p))

LEMMA OfIsKeysFor == \A m, p : KeysFor(m, p) = Of(m.keys, p)
  BY DEF KeysFor, Of, Parts

LEMMA OfSegments ==
  ASSUME NEW K, NEW q \in Seq(K), NEW p
  PROVE  Parts(q, p) \in Seq(Seq(K)) /\ Len(Parts(q, p)) = Len(q)
  <1>1. DOMAIN q = 1..Len(q) /\ Len(q) \in Nat /\ \A k \in 1..Len(q) : q[k] \in K
    OBVIOUS
  <1>2. \A k \in 1..Len(q) : (IF q[k].provider = p THEN <<q[k]>> ELSE <<>>) \in Seq(K)
    <2> TAKE k \in 1..Len(q)
    <2>1. <<>> \in Seq(K) /\ <<q[k]>> \in Seq(K)
      BY <1>1, OneOrNone
    <2> QED BY <2>1
  <1> DEFINE e(k) == IF q[k].provider = p THEN <<q[k]>> ELSE <<>>
             s == [k \in 1..Len(q) |-> e(k)]
  <1>3. \A k \in 1..Len(q) : e(k) \in Seq(K)
    BY <1>2
  <1>4. s = Parts(q, p)
    BY <1>1 DEF Parts
  <1> HIDE DEF e
  <1>5. s \in Seq(Seq(K)) /\ Len(s) = Len(q)
    BY <1>1, <1>3
  <1> HIDE DEF s
  <1> QED BY <1>4, <1>5

\* The elements of a concatenation.
LEMMA ConcatAt ==
  ASSUME NEW S, NEW u \in Seq(S), NEW w \in Seq(S)
  PROVE  /\ u \o w \in Seq(S) /\ Len(u \o w) = Len(u) + Len(w)
         /\ \A k \in 1..Len(u) : (u \o w)[k] = u[k]
         /\ \A k \in 1..Len(w) : (u \o w)[Len(u) + k] = w[k]
  OBVIOUS

LEMMA OfConcat ==
  ASSUME NEW K, NEW a \in Seq(K), NEW b \in Seq(K), NEW p
  PROVE  Of(a \o b, p) = Of(a, p) \o Of(b, p)
  <1> DEFINE q == a \o b
  <1>1. /\ q \in Seq(K) /\ Len(q) = Len(a) + Len(b) /\ Len(a) \in Nat /\ Len(b) \in Nat
        /\ \A k \in 1..Len(a) : q[k] = a[k]
        /\ \A k \in 1..Len(b) : q[Len(a) + k] = b[k]
        /\ DOMAIN q = 1..Len(q) /\ DOMAIN a = 1..Len(a) /\ DOMAIN b = 1..Len(b)
    OBVIOUS
  <1> HIDE DEF q
  <1> DEFINE ea == Parts(a, p)
             eb == Parts(b, p)
             eq == Parts(q, p)
  <1>2. /\ ea \in Seq(Seq(K)) /\ Len(ea) = Len(a)
        /\ eb \in Seq(Seq(K)) /\ Len(eb) = Len(b)
        /\ eq \in Seq(Seq(K)) /\ Len(eq) = Len(q)
    BY <1>1, OfSegments
  <1>3. /\ \A k \in 1..Len(a) : eq[k] = ea[k]
        /\ \A k \in 1..Len(b) : eq[Len(a) + k] = eb[k]
    <2>1. \A k \in 1..Len(a) : k \in DOMAIN q /\ k \in DOMAIN a
      BY <1>1
    <2>2. \A k \in 1..Len(b) : Len(a) + k \in DOMAIN q /\ k \in DOMAIN b
      BY <1>1
    <2>3. \A k \in 1..Len(a) : eq[k] = ea[k]
      BY <1>1, <2>1 DEF Parts
    <2>4. \A k \in 1..Len(b) : eq[Len(a) + k] = eb[k]
      BY <1>1, <2>2 DEF Parts
    <2> QED BY <2>3, <2>4
  <1>4. /\ ea \in Seq(Seq(K)) /\ Len(ea) = Len(a)
        /\ eb \in Seq(Seq(K)) /\ Len(eb) = Len(b)
        /\ eq \in Seq(Seq(K)) /\ Len(eq) = Len(q)
        /\ \A k \in 1..Len(a) : eq[k] = ea[k]
        /\ \A k \in 1..Len(b) : eq[Len(a) + k] = eb[k]
    BY <1>2, <1>3
  <1>5. Of(a, p) = FlattenSeq(ea) /\ Of(b, p) = FlattenSeq(eb) /\ Of(q, p) = FlattenSeq(eq)
    BY DEF Of
  <1> HIDE DEF ea, eb, eq
  <1>6. eq = ea \o eb
    <2> DEFINE c == ea \o eb
    <2>1. /\ c \in Seq(Seq(K)) /\ Len(c) = Len(eq)
          /\ \A k \in 1..Len(a) : c[k] = ea[k]
          /\ \A k \in 1..Len(b) : c[Len(a) + k] = eb[k]
      <3>1. Len(q) = Len(a) + Len(b)
        BY <1>1
      <3>2. ea \in Seq(Seq(K)) /\ eb \in Seq(Seq(K))
        BY <1>4
      <3>3. /\ c \in Seq(Seq(K)) /\ Len(c) = Len(ea) + Len(eb)
            /\ \A k \in 1..Len(ea) : c[k] = ea[k]
            /\ \A k \in 1..Len(eb) : c[Len(ea) + k] = eb[k]
        BY <3>2, ConcatAt
      <3> HIDE DEF c
      <3> QED BY <1>4, <3>1, <3>3
    <2> HIDE DEF c
    <2>2. \A k \in 1..Len(eq) : eq[k] = c[k]
      <3> TAKE k \in 1..Len(eq)
      <3>1. CASE k <= Len(a)
        <4>1. k \in 1..Len(a)
          BY <1>1, <1>4, <3>1
        <4> QED BY <1>4, <2>1, <4>1
      <3>2. CASE k > Len(a)
        <4>1. k - Len(a) \in 1..Len(b) /\ k = Len(a) + (k - Len(a))
          BY <1>1, <1>4, <3>2
        <4> QED BY <1>4, <2>1, <4>1
      <3> QED BY <1>1, <3>1, <3>2
    <2>3. eq = [k \in 1..Len(eq) |-> eq[k]] /\ c = [k \in 1..Len(c) |-> c[k]]
      BY <1>4, <2>1
    <2>4. eq = c
      BY <2>1, <2>2, <2>3
    <2> QED BY <2>4 DEF c
  <1>7. FlattenSeq(eq) = FlattenSeq(ea) \o FlattenSeq(eb)
    BY <1>4, <1>6, FlatConcat
  <1> QED BY <1>5, <1>7 DEF q

LEMMA OfAll ==
  ASSUME NEW K, NEW q \in Seq(K), NEW p, \A k \in 1..Len(q) : q[k].provider = p
  PROVE  Of(q, p) = q
  <1>1. DOMAIN q = 1..Len(q)
    OBVIOUS
  <1>2. Parts(q, p) = [k \in 1..Len(q) |-> <<q[k]>>]
    BY <1>1 DEF Parts
  <1>3. FlattenSeq([k \in 1..Len(q) |-> <<q[k]>>]) = q
    BY FlatSingles
  <1> QED BY <1>2, <1>3 DEF Of

LEMMA OfNone ==
  ASSUME NEW K, NEW q \in Seq(K), NEW p, \A k \in 1..Len(q) : q[k].provider # p
  PROVE  Of(q, p) = <<>>
  <1> DEFINE s == Parts(q, p)
             h == [i \in 0..Len(q) |-> <<>>]
  <1>1. DOMAIN q = 1..Len(q) /\ Len(q) \in Nat
    OBVIOUS
  <1>2. \A k \in 1..Len(q) : s[k] = <<>>
    BY <1>1 DEF Parts
  <1>3. s \in Seq(Seq(K)) /\ Len(s) = Len(q)
    BY OfSegments
  <1>4. h[0] = <<>> /\ \A i \in 1..Len(q) : h[i] = <<>> /\ h[i - 1] = <<>>
    BY <1>1
  <1>5. <<>> \o <<>> = <<>>
    OBVIOUS
  <1>6. h[Len(q)] = <<>>
    BY <1>1
  <1> HIDE DEF h, s
  <1>7. Running(s, h)
    BY <1>2, <1>3, <1>4, <1>5 DEF Running
  <1>8. FlattenSeq(s) = <<>>
    BY <1>3, <1>6, <1>7, FlatIs
  <1> QED BY <1>8 DEF Of, s

-----------------------------------------------------------------------------
(***************************************************************************)
(* What from_tree reads of what to_tree made.                              *)
(***************************************************************************)
LEMMA KeyReadBack ==
  ASSUME NoneIsNoValue, NEW k, KeyOK(k)
  PROVE  WellFormed(k.provider, KeyTree(k)) /\ KeyOf(k.provider, KeyTree(k)) = k
  <1> DEFINE id == IdField[k.provider]
             e == KeyTree(k)
  <1>1. /\ Get(e, id) = Text(k.recipient)
        /\ Get(e, "enc") = IF k.provider = "age" THEN Armored(k.enc) ELSE Cipher(k.enc)
        /\ Get(e, "created_at") = IF k.created_at = None THEN None ELSE Text(k.created_at)
    BY KeyReads
  <1> HIDE DEF id, e
  <1>2. \A w : /\ Text(w) # None /\ Text(w).t = "scalar" /\ Text(w).text = w
               /\ Cipher(w) # None /\ Cipher(w).t = "scalar" /\ Cipher(w).enc = w
               /\ Armored(w) # None /\ Armored(w).t = "scalar" /\ Armored(w).enc = w
    BY ScalarFields DEF NoneIsNoValue
  <1>3. AsStr(e, id) = Text(k.recipient)
    BY <1>1, <1>2 DEF AsStr
  <1>4. AsStr(e, "enc") = Get(e, "enc") /\ AsStr(e, "enc") # None /\ AsStr(e, "enc").enc = k.enc
    BY <1>1, <1>2 DEF AsStr
  <1>5. AsStr(e, "created_at") = IF k.created_at = None THEN None ELSE Text(k.created_at)
    BY <1>1, <1>2 DEF AsStr
  <1>6. Word(e, id) = k.recipient /\ Word(e, "created_at") = k.created_at
    BY <1>2, <1>3, <1>5 DEF Word
  <1>7. WellFormed(k.provider, e)
    BY <1>2, <1>3, <1>4 DEF WellFormed, id
  <1>8. KeyOf(k.provider, e)
          = [provider |-> k.provider, recipient |-> k.recipient,
             created_at |-> IF k.provider = "age" THEN None ELSE k.created_at,
             enc |-> k.enc]
    BY <1>4, <1>6 DEF KeyOf, id
  <1>9. (IF k.provider = "age" THEN None ELSE k.created_at) = k.created_at
    BY DEF KeyOK
  <1>10. k = [provider |-> k.provider, recipient |-> k.recipient,
              created_at |-> k.created_at, enc |-> k.enc]
    BY DEF KeyOK
  <1>11. KeyOf(k.provider, e) = k
    BY <1>8, <1>9, <1>10, Zenon
  <1> QED BY <1>7, <1>11 DEF e

LEMMA EntriesAre ==
  ASSUME NoneIsNoValue, NEW K, NEW m, m.keys \in Seq(K), m.mac_only_encrypted \in BOOLEAN,
         NEW p \in ToSet(Providers)
  PROVE  Entries(MetaTree(m), p)
           = [j \in 1..Len(KeysFor(m, p)) |-> KeyTree(KeysFor(m, p)[j])]
  <1> DEFINE ks == KeysFor(m, p)
             v == Get(MetaTree(m), p)
             f == [j \in 1..Len(ks) |-> KeyTree(ks[j])]
             l == [j \in DOMAIN ks |-> Elem(KeyTree(ks[j]))]
  <1>1. v = IF ks = <<>> THEN None ELSE KeyList(m, p)
    <2>1. p # "shamir_threshold"
      BY BlockNames
    <2>2. v = BlockGet(m, p)
      BY BlockReads
    <2> QED BY <2>1, <2>2 DEF BlockGet
  <1>2. KeyList(m, p) = List(l) /\ KeyList(m, p) # None
    BY DEF KeyList, NoneIsNoValue
  <1>3. List(l).t = "seq" /\ List(l).items = l
    BY DEF List
  <1>4. DOMAIN ks = 1..Len(ks) /\ Len(ks) \in Nat /\ (ks = <<>> => Len(ks) = 0)
        /\ ks \in Seq({k \in K : k.provider = p})
    <2>1. ks \in Seq({k \in K : k.provider = p})
      BY KeysForIs
    <2> HIDE DEF ks
    <2> QED BY <2>1
  <1>5. \A j \in DOMAIN ks : l[j].t = "elem" /\ l[j].value = KeyTree(ks[j])
    BY DEF Elem
  <1>6. DOMAIN l = DOMAIN ks
    OBVIOUS
  <1>7. CASE ks = <<>>
    <2>1. Entries(MetaTree(m), p) = <<>>
      BY <1>1, <1>7 DEF Entries
    <2>2. f = <<>>
      BY <1>4, <1>7
    <2> QED BY <2>1, <2>2
  <1>8. CASE ks # <<>>
    <2> DEFINE g == [k \in DOMAIN l |-> IF l[k].t = "elem" THEN <<l[k].value>> ELSE <<>>]
    <2>1. Entries(MetaTree(m), p)
            = FlattenSeq([k \in DOMAIN v.items |->
                IF v.items[k].t = "elem" THEN <<v.items[k].value>> ELSE <<>>])
      <3> HIDE DEF l, v, ks
      <3>1. v # None /\ v.t = "seq"
        BY <1>1, <1>2, <1>3, <1>8
      <3> QED BY <3>1 DEF Entries, v
    <2>2. v.items = l
      BY <1>1, <1>2, <1>3, <1>8
    <2>3. Entries(MetaTree(m), p) = FlattenSeq(g)
      BY <2>1, <2>2, Zenon
    <2>4. f \in Seq({KeyTree(ks[j]) : j \in 1..Len(ks)}) /\ Len(f) = Len(ks)
      BY <1>4
    <2>5. \A j \in 1..Len(ks) : f[j] = KeyTree(ks[j])
      OBVIOUS
    <2> HIDE DEF ks, f, l
    <2>6. g = [k \in 1..Len(f) |-> <<f[k]>>]
      BY <1>4, <1>5, <1>6, <2>4, <2>5
    <2> HIDE DEF g
    <2>7. FlattenSeq([k \in 1..Len(f) |-> <<f[k]>>]) = f
      BY <2>4, FlatSingles
    <2>8. Entries(MetaTree(m), p) = f
      BY <2>3, <2>6, <2>7
    <2> QED BY <2>8 DEF f, ks
  <1> QED BY <1>7, <1>8

LEMMA KeysKept ==
  ASSUME NoneIsNoValue, NEW K, \A k \in K : KeyOK(k), NEW m, m.keys \in Seq(K),
         m.mac_only_encrypted \in BOOLEAN
  PROVE  LET T == MetaTree(m)
             q == FlattenSeq([i \in DOMAIN Providers |->
                    [j \in DOMAIN Entries(T, Providers[i]) |->
                       KeyOf(Providers[i], Entries(T, Providers[i])[j])]])
         IN  /\ q \in Seq(K)
             /\ \A p \in ToSet(Providers) : Of(q, p) = KeysFor(m, p)
             /\ \A p \in ToSet(Providers) : \A e \in ToSet(Entries(T, p)) : WellFormed(p, e)
  <1> DEFINE T == MetaTree(m)
             seg(p) == [j \in DOMAIN Entries(T, p) |-> KeyOf(p, Entries(T, p)[j])]
             s == [i \in DOMAIN Providers |-> seg(Providers[i])]
  <1>1. DOMAIN Providers = 1..7 /\ \A i \in 1..7 : Providers[i] \in ToSet(Providers)
    BY ProviderNames DEF ToSet
  <1>2. ASSUME NEW p \in ToSet(Providers)
        PROVE  /\ seg(p) = KeysFor(m, p)
               /\ \A e \in ToSet(Entries(T, p)) : WellFormed(p, e)
               /\ KeysFor(m, p) \in Seq({k \in K : k.provider = p})
    <2> DEFINE ks == KeysFor(m, p)
               es == Entries(T, p)
    <2>1. es = [j \in 1..Len(ks) |-> KeyTree(ks[j])]
      BY EntriesAre
    <2>2. ks \in Seq({k \in K : k.provider = p})
      BY KeysForIs
    <2> HIDE DEF ks
    <2>3. Len(ks) \in Nat /\ \A j \in 1..Len(ks) : ks[j] \in K /\ ks[j].provider = p
      <3> DEFINE L == {k \in K : k.provider = p}
      <3>1. ks \in Seq(L) /\ \A k \in L : k \in K /\ k.provider = p
        BY <2>2
      <3> HIDE DEF L
      <3> QED BY <3>1
    <2>4. \A j \in 1..Len(ks) : WellFormed(p, KeyTree(ks[j])) /\ KeyOf(p, KeyTree(ks[j])) = ks[j]
      BY <2>3, KeyReadBack
    <2> HIDE DEF es
    <2>5. DOMAIN es = 1..Len(ks) /\ \A j \in 1..Len(ks) : es[j] = KeyTree(ks[j])
      BY <2>1
    <2>6. [j \in DOMAIN es |-> KeyOf(p, es[j])] = [j \in 1..Len(ks) |-> ks[j]]
      BY <2>4, <2>5
    <2>7. [j \in 1..Len(ks) |-> ks[j]] = ks
      BY <2>2
    <2>8. \A e \in ToSet(es) : WellFormed(p, e)
      BY <2>4, <2>5 DEF ToSet
    <2>9. seg(p) = ks
      BY <2>6, <2>7 DEF es
    <2> QED BY <2>2, <2>8, <2>9 DEF ks, es
  <1> HIDE DEF seg
  <1>3. s = [i \in 1..7 |-> KeysFor(m, Providers[i])]
    BY <1>1, <1>2
  <1>4. \A i \in 1..7 : KeysFor(m, Providers[i]) \in Seq(K)
    <2> TAKE i \in 1..7
    <2> DEFINE L == {k \in K : k.provider = Providers[i]}
    <2>1. KeysFor(m, Providers[i]) \in Seq(L) /\ L \subseteq K
      BY <1>1, <1>2
    <2> HIDE DEF L
    <2> QED BY <2>1
  <1>5. s \in Seq(Seq(K)) /\ Len(s) = 7 /\ \A i \in 1..7 : s[i] = KeysFor(m, Providers[i])
    BY <1>3, <1>4
  <1> HIDE DEF s
  <1>6. FlattenSeq(s) \in Seq(K)
    BY <1>5, FlatConcat
  <1>7. ASSUME NEW p \in ToSet(Providers)
        PROVE  Of(FlattenSeq(s), p) = KeysFor(m, p)
    <2>1. PICK at \in 1..7 : p = Providers[at]
      BY <1>1 DEF ToSet
    <2> DEFINE seen(i) == IF i < at THEN <<>> ELSE KeysFor(m, p)
               Q == [i \in 0..7 |-> {q \in Seq(K) : Of(q, p) = seen(i)}]
    <2>2. <<>> \in Q[0]
      <3> DEFINE q == <<>>
      <3>1. q \in Seq(K) /\ Len(q) = 0 /\ \A k \in 1..Len(q) : q[k].provider = p
        OBVIOUS
      <3> HIDE DEF q
      <3>4. Of(q, p) = q
        BY <3>1, OfAll
      <3>2. Of(<<>>, p) = <<>>
        BY <3>4 DEF q
      <3>3. seen(0) = <<>>
        OBVIOUS
      <3> QED BY <3>1, <3>2, <3>3 DEF q
    <2>3. \A i \in 1..7 : Of(s[i], p) = IF i = at THEN KeysFor(m, p) ELSE <<>>
      <3> TAKE i \in 1..7
      <3> DEFINE x == s[i]
                 o == Providers[i]
                 L == {k \in K : k.provider = o}
      <3>1. x \in Seq(L) /\ x \in Seq(K) /\ L \subseteq K
        BY <1>1, <1>2, <1>4, <1>5
      <3>4. \A k \in L : k.provider = o
        OBVIOUS
      <3> HIDE DEF x, o, L
      <3>5. \A k \in 1..Len(x) : x[k].provider = o
        <4>1. \A k \in 1..Len(x) : x[k] \in L
          BY <3>1
        <4> QED BY <3>4, <4>1
      <3>3. p = o <=> i = at
        BY <2>1, ProvidersApart DEF o
      <3>7. CASE i = at
        <4>1. Of(x, p) = x
          BY <3>1, <3>3, <3>5, <3>7, OfAll
        <4>2. x = KeysFor(m, p)
          BY <1>5, <3>3, <3>7 DEF x, o
        <4> QED BY <3>7, <4>1, <4>2 DEF x
      <3>8. CASE i # at
        <4>1. Of(x, p) = <<>>
          BY <3>1, <3>3, <3>5, <3>8, OfNone
        <4> QED BY <3>8, <4>1 DEF x
      <3> QED BY <3>7, <3>8
    <2>4. KeysFor(m, p) \in Seq(K)
      BY <1>4, <2>1
    <2>5. \A i \in 1..Len(s) : \A q \in Q[i - 1] : q \o s[i] \in Q[i]
      <3> SUFFICES ASSUME NEW i \in 1..7, NEW q \in Q[i - 1]
                   PROVE  q \o s[i] \in Q[i]
        BY <1>5
      <3>1. i - 1 \in 0..7 /\ i \in 0..7
        OBVIOUS
      <3>2. q \in Seq(K) /\ Of(q, p) = seen(i - 1)
        BY <3>1
      <3>3. s[i] \in Seq(K)
        BY <1>4, <1>5
      <3>4. q \o s[i] \in Seq(K)
        BY <3>2, <3>3
      <3>5. Of(q \o s[i], p) = Of(q, p) \o Of(s[i], p)
        <4> DEFINE x == s[i]
        <4>1. x \in Seq(K)
          BY <3>3
        <4>2. q \in Seq(K)
          BY <3>2
        <4> HIDE DEF x, Q, seen
        <4>3. Of(q \o x, p) = Of(q, p) \o Of(x, p)
          BY <4>1, <4>2, OfConcat
        <4> QED BY <4>3 DEF x
      <3>6. KeysFor(m, p) \o <<>> = KeysFor(m, p) /\ <<>> \o KeysFor(m, p) = KeysFor(m, p)
            /\ <<>> \o <<>> = <<>>
        BY <2>4
      <3>7. seen(i - 1) \o Of(s[i], p) = seen(i)
        <4>1. CASE i < at
          <5>1. seen(i - 1) = <<>> /\ seen(i) = <<>> /\ Of(s[i], p) = <<>>
            BY <2>3, <4>1
          <5> QED BY <3>6, <5>1
        <4>2. CASE i = at
          <5>1. seen(i - 1) = <<>> /\ seen(i) = KeysFor(m, p) /\ Of(s[i], p) = KeysFor(m, p)
            BY <2>3, <4>2
          <5> QED BY <3>6, <5>1
        <4>3. CASE i > at
          <5>1. /\ seen(i - 1) = KeysFor(m, p) /\ seen(i) = KeysFor(m, p)
                /\ Of(s[i], p) = <<>>
            BY <2>3, <4>3
          <5> HIDE DEF seen
          <5> QED BY <3>6, <5>1
        <4>4. i < at \/ i = at \/ i > at
          OBVIOUS
        <4> QED BY <4>1, <4>2, <4>3, <4>4, Zenon
      <3> HIDE DEF seen
      <3>8. Of(q \o s[i], p) = seen(i)
        BY <3>2, <3>5, <3>7
      <3> QED BY <3>1, <3>4, <3>8
    <2>6. FlattenSeq(s) \in Q[Len(s)]
      <3> DEFINE R == Q
      <3>1. <<>> \in R[0] /\ \A i \in 1..Len(s) : \A q \in R[i - 1] : q \o s[i] \in R[i]
        BY <2>2, <2>5
      <3> HIDE DEF R, Q
      <3>2. FlattenSeq(s) \in R[Len(s)]
        BY <1>5, <3>1, FlatInvariant
      <3> QED BY <3>2 DEF R
    <2>7. seen(7) = KeysFor(m, p) /\ Len(s) = 7 /\ 7 \in 0..7
      BY <1>5
    <2> HIDE DEF seen
    <2> QED BY <2>6, <2>7
  <1>8. FlattenSeq(s) = FlattenSeq([i \in DOMAIN Providers |->
                          [j \in DOMAIN Entries(T, Providers[i]) |->
                             KeyOf(Providers[i], Entries(T, Providers[i])[j])]])
    BY DEF s, seg
  <1> DEFINE q == FlattenSeq(s)
  <1>9. q \in Seq(K) /\ \A p \in ToSet(Providers) : Of(q, p) = KeysFor(m, p)
    BY <1>6, <1>7
  <1>10. \A p \in ToSet(Providers) : \A e \in ToSet(Entries(T, p)) : WellFormed(p, e)
    BY <1>2
  <1> HIDE DEF T
  <1> QED BY <1>8, <1>9, <1>10, Zenon DEF T

Kept(word) == IF word = "" THEN None ELSE word

LEMMA WordsRead ==
  ASSUME NoneIsNoValue, NEW v, NEW field, NEW word,
         Get(v, field) = None \/ Get(v, field) = Text(word)
  PROVE  Word(v, field) = IF Get(v, field) = None THEN None ELSE word
  <1>1. Text(word) # None /\ Text(word).t = "scalar" /\ Text(word).text = word
    BY ScalarFields DEF NoneIsNoValue
  <1> QED BY <1>1 DEF Word, AsStr

(***************************************************************************)
(* The block comes back as it was written: no key of any provider is lost, *)
(* none is gained, their order within a provider is the same, and every    *)
(* field of the policy is what it was, an empty word being no word.        *)
(* metabridge.rs:36 asks for it: dropping a key on write would silently    *)
(* remove a recipient's access.                                            *)
(***************************************************************************)
THEOREM BlockSurvives ==
  ASSUME NoneIsNoValue, NEW K, \A k \in K : KeyOK(k), NEW m, m.keys \in Seq(K),
         m.mac_only_encrypted \in BOOLEAN, m.version # None
  PROVE  LET r == MetaOf(MetaTree(m)) IN
           /\ r.t = "meta" /\ r.keys \in Seq(K)
           /\ \A p \in ToSet(Providers) : KeysFor(r, p) = KeysFor(m, p)
           /\ \A f \in Stages : r[f] = Kept(m[f])
           /\ r.shamir_threshold = Kept(m.shamir_threshold)
           /\ r.lastmodified = m.lastmodified /\ r.mac = m.mac
           /\ r.mac_only_encrypted = m.mac_only_encrypted /\ r.version = m.version
  <1> DEFINE T == MetaTree(m)
             q == FlattenSeq([i \in DOMAIN Providers |->
                    [j \in DOMAIN Entries(T, Providers[i]) |->
                       KeyOf(Providers[i], Entries(T, Providers[i])[j])]])
             r == MetaOf(T)
  <1>1. T.t = "map"
    BY DEF MetaTree, Mapping
  <1>2. \A key : Get(T, key) = BlockGet(m, key)
    BY BlockReads
  <1>3. /\ q \in Seq(K)
        /\ \A p \in ToSet(Providers) : Of(q, p) = KeysFor(m, p)
        /\ \A p \in ToSet(Providers) : \A e \in ToSet(Entries(T, p)) : WellFormed(p, e)
    BY KeysKept
  <1> HIDE DEF T, q
  <1>4. \A w : /\ Text(w) # None /\ Text(w).t = "scalar" /\ Text(w).text = w
               /\ Cipher(w) # None /\ Cipher(w).t = "scalar" /\ Cipher(w).enc = w
               /\ New(w) # None /\ New(w).t = "scalar" /\ New(w).text = w
    BY ScalarFields DEF NoneIsNoValue, New, Scalar
  <1>5. /\ "lastmodified" \notin ToSet(Providers) /\ "lastmodified" \notin Stages
        /\ "mac" \notin ToSet(Providers) /\ "mac" \notin Stages
        /\ "version" \notin ToSet(Providers) /\ "version" \notin Stages
        /\ "mac_only_encrypted" \notin ToSet(Providers) /\ "mac_only_encrypted" \notin Stages
        /\ \A f \in Stages : /\ f \notin ToSet(Providers)
                             /\ f \notin {"shamir_threshold", "lastmodified", "mac"}
    BY BlockNames
  <1>6. Get(T, "lastmodified") = New(m.lastmodified) /\ Get(T, "mac") = Cipher(m.mac)
        /\ Get(T, "version") = Text(m.version)
    BY <1>2, <1>5 DEF BlockGet
  <1>7. AsStr(T, "lastmodified") = New(m.lastmodified) /\ AsStr(T, "mac") = Cipher(m.mac)
        /\ AsStr(T, "version") = Text(m.version)
    BY <1>4, <1>6 DEF AsStr
  <1>8. Word(T, "lastmodified") = m.lastmodified /\ Word(T, "version") = m.version
    BY <1>4, <1>7 DEF Word
  <1>9. ASSUME NEW f \in Stages PROVE Word(T, f) = Kept(m[f])
    <2>1. Get(T, f) = IF m[f] \in {None, ""} THEN None ELSE Text(m[f])
      BY <1>2, <1>5 DEF BlockGet
    <2>2. Word(T, f) = IF Get(T, f) = None THEN None ELSE m[f]
      BY <2>1, WordsRead
    <2> QED BY <1>4, <2>1, <2>2 DEF Kept
  <1>10. Word(T, "shamir_threshold") = Kept(m.shamir_threshold)
    <2>1. Get(T, "shamir_threshold") = IF m.shamir_threshold \in {None, ""} THEN None
                                       ELSE Text(m.shamir_threshold)
      BY <1>2 DEF BlockGet
    <2>2. Word(T, "shamir_threshold") = IF Get(T, "shamir_threshold") = None THEN None
                                        ELSE m.shamir_threshold
      <3> DEFINE w == m.shamir_threshold
      <3>1. Get(T, "shamir_threshold") = None \/ Get(T, "shamir_threshold") = Text(w)
        BY <2>1
      <3> HIDE DEF w
      <3>2. Word(T, "shamir_threshold") = IF Get(T, "shamir_threshold") = None THEN None
                                          ELSE w
        BY <3>1, WordsRead
      <3> QED BY <3>2 DEF w
    <2> QED BY <1>4, <2>1, <2>2 DEF Kept
  <1>11. (Word(T, "mac_only_encrypted") = "true") = m.mac_only_encrypted
    <2>1. Get(T, "mac_only_encrypted") = IF m.mac_only_encrypted THEN Text("true") ELSE None
      BY <1>2, <1>5 DEF BlockGet
    <2>2. Word(T, "mac_only_encrypted") = IF Get(T, "mac_only_encrypted") = None THEN None
                                          ELSE "true"
      BY <2>1, WordsRead
    <2>3. CASE m.mac_only_encrypted
      BY <1>4, <2>1, <2>2, <2>3
    <2>4. CASE ~m.mac_only_encrypted
      <3>1. Word(T, "mac_only_encrypted") # "true"
        BY <2>1, <2>2, <2>4 DEF NoneIsNoValue
      <3> QED BY <2>4, <3>1
    <2> QED BY <2>3, <2>4
  <1> DEFINE s == [t |-> "meta", keys |-> q,
                   shamir_threshold |-> Word(T, "shamir_threshold"),
                   lastmodified |-> Word(T, "lastmodified"),
                   mac |-> AsStr(T, "mac").enc,
                   unencrypted_suffix |-> Word(T, "unencrypted_suffix"),
                   encrypted_suffix |-> Word(T, "encrypted_suffix"),
                   unencrypted_regex |-> Word(T, "unencrypted_regex"),
                   encrypted_regex |-> Word(T, "encrypted_regex"),
                   unencrypted_comment_regex |-> Word(T, "unencrypted_comment_regex"),
                   encrypted_comment_regex |-> Word(T, "encrypted_comment_regex"),
                   mac_only_encrypted |-> Word(T, "mac_only_encrypted") = "true",
                   version |-> IF Word(T, "version") = None THEN Version
                               ELSE Word(T, "version")]
  <1>12. r = s
    <2>1. ~(AsStr(T, "lastmodified") = None \/ AsStr(T, "mac") = None)
      BY <1>4, <1>7
    <2>2. ~\E p \in ToSet(Providers) : \E e \in ToSet(Entries(T, p)) : ~WellFormed(p, e)
      BY <1>3
    <2> QED BY <1>1, <2>1, <2>2, Zenon DEF MetaOf, q
  <1>13. /\ s.t = "meta" /\ s.keys = q
         /\ s.shamir_threshold = Word(T, "shamir_threshold")
         /\ s.lastmodified = Word(T, "lastmodified") /\ s.mac = AsStr(T, "mac").enc
         /\ s.mac_only_encrypted = (Word(T, "mac_only_encrypted") = "true")
         /\ s.version = IF Word(T, "version") = None THEN Version ELSE Word(T, "version")
    OBVIOUS
  <1>14. \A f \in Stages : s[f] = Word(T, f)
    BY DEF Stages
  <1> HIDE DEF s, r
  <1>15. \A p \in ToSet(Providers) : KeysFor(r, p) = KeysFor(m, p)
    BY <1>3, <1>12, <1>13, OfIsKeysFor
  <1>16. \A f \in Stages : r[f] = Kept(m[f])
    BY <1>9, <1>12, <1>14
  <1>17. /\ r.t = "meta" /\ r.keys \in Seq(K)
         /\ r.shamir_threshold = Kept(m.shamir_threshold)
         /\ r.lastmodified = m.lastmodified /\ r.mac = m.mac /\ r.version = m.version
    BY <1>3, <1>4, <1>7, <1>8, <1>10, <1>12, <1>13
  <1>18. r.mac_only_encrypted = m.mac_only_encrypted
    BY <1>11, <1>12, <1>13
  <1> QED BY <1>15, <1>16, <1>17, <1>18, Zenon DEF r, T

(***************************************************************************)
(* And so does the file: what is written of one, read again, is its tree   *)
(* without the block, the width found and the block as read back; never    *)
(* an error.  The tree has no sops: pair of its own, as encrypt asks of a  *)
(* text and as opening leaves a file of one block (file.rs).               *)
(***************************************************************************)
THEOREM FileSurvives ==
  ASSUME NoneIsNoValue, NEW K, \A k \in K : KeyOK(k), NEW f, f.meta.keys \in Seq(K),
         f.meta.mac_only_encrypted \in BOOLEAN, f.meta.version # None,
         NEW I, f.tree.items \in Seq(I), f.tree = Mapping(f.tree.items),
         Named(f.tree, "sops") = {}, NEW width
  PROVE  EncryptedRoot(RootOf(f), width)
           = [t |-> "file", tree |-> f.tree, meta |-> MetaOf(MetaTree(f.meta)),
              width |-> width]
  <1> DEFINE m == f.meta
             T == MetaTree(m)
             x == Pair("sops", T)
             a == f.tree.items
             q == Append(a, x)
             J == I \cup {x}
             r == MetaOf(T)
             root == Mapping(q)
  <1>1. RootOf(f) = root
    BY DEF RootOf
  <1>2. /\ q \in Seq(J) /\ Len(q) = Len(a) + 1 /\ Len(a) \in Nat
        /\ q[Len(a) + 1] = x /\ \A k \in 1..Len(a) : q[k] = a[k]
        /\ SubSeq(q, 1, Len(a)) = a
    <2> DEFINE y == x
               b == a
    <2>1. b \in Seq(I) /\ y \in I \cup {y}
      OBVIOUS
    <2> HIDE DEF x, y, a, b
    <2>2. /\ Append(b, y) \in Seq(I \cup {y}) /\ Len(Append(b, y)) = Len(b) + 1
          /\ Len(b) \in Nat /\ Append(b, y)[Len(b) + 1] = y
          /\ \A k \in 1..Len(b) : Append(b, y)[k] = b[k]
      BY <2>1
    <2>3. SubSeq(Append(b, y), 1, Len(b)) = b
      BY <2>1
    <2> QED BY <2>2, <2>3 DEF b, y
  <1>3. x.t = "pair" /\ x.key = "sops" /\ x.value = T
    BY DEF Pair
  <1>4. \A k \in 1..Len(a) : ~(a[k].t = "pair" /\ a[k].key = "sops")
    BY <1>2 DEF Named
  <1>5. T.t = "map" /\ T # None /\ root.t = "map" /\ root.items = q
    BY DEF MetaTree, Mapping, NoneIsNoValue
  <1>6. Get(T, "key_groups") = None
    <2>1. Get(T, "key_groups") = BlockGet(m, "key_groups")
      BY BlockReads
    <2>2. "key_groups" \notin ToSet(Providers) /\ "key_groups" \notin Stages
      BY ProviderNames DEF Stages
    <2> QED BY <2>1, <2>2 DEF BlockGet
  <1>7. r.t = "meta"
    BY BlockSurvives
  <1> HIDE DEF q, a, x, J, r, T
  <1>8. Named(root, "sops") = {Len(a) + 1}
    <2>1. Named(root, "sops") = {k \in DOMAIN q : q[k].t = "pair" /\ q[k].key = "sops"}
      BY NamedIn
    <2>2. DOMAIN q = 1..Len(a) + 1
      BY <1>2
    <2>3. \A k \in 1..Len(a) + 1 : k = Len(a) + 1 \/ k \in 1..Len(a)
      BY <1>2
    <2>4. Len(a) + 1 \in 1..Len(a) + 1
      BY <1>2
    <2> QED BY <1>2, <1>3, <1>4, <2>1, <2>2, <2>3, <2>4
  <1>9. Min({Len(a) + 1}) = Len(a) + 1
    BY <1>2 DEF Min
  <1>10. Get(root, "sops") = T
    BY <1>2, <1>3, <1>5, <1>8, <1>9 DEF Get
  <1>11. Without(root, "sops") = Mapping(RemoveAt(q, Len(a) + 1))
    BY <1>5, <1>8, <1>9, <1>10 DEF Without
  <1>12. RemoveAt(q, Len(a) + 1) = a
    <2>1. RemoveAt(q, Len(a) + 1) = SubSeq(q, 1, Len(a)) \o SubSeq(q, Len(a) + 2, Len(a) + 1)
      <3>1. (Len(a) + 1) - 1 = Len(a) /\ (Len(a) + 1) + 1 = Len(a) + 2
        BY <1>2
      <3> QED BY <1>2, <3>1 DEF RemoveAt
    <2>2. SubSeq(q, Len(a) + 2, Len(a) + 1) = <<>>
      BY <1>2
    <2>3. a \o <<>> = a
      <3>1. a \in Seq(I)
        BY DEF a
      <3> QED BY <3>1
    <2> QED BY <1>2, <2>1, <2>2, <2>3
  <1>13. Without(root, "sops") = f.tree
    BY <1>11, <1>12 DEF a
  <1>14. EncryptedRoot(root, width) = WithMeta(root, r, width)
    BY <1>5, <1>6, <1>10 DEF EncryptedRoot, FromRoot, IsError, r
  <1>15. WithMeta(root, r, width)
           = [t |-> "file", tree |-> f.tree, meta |-> r, width |-> width]
    BY <1>7, <1>13 DEF WithMeta, IsError
  <1> QED BY <1>1, <1>14, <1>15 DEF r, T

-----------------------------------------------------------------------------
(***************************************************************************)
(* A whole tree, there and back.  The prover takes no RECURSIVE operator,  *)
(* so Walk is any walk that is, on every tree, a step at its root and      *)
(* itself below (WalkIs), as SopsWalk's is by its definition.              *)
(***************************************************************************)
CONSTANT Walk(_, _, _, _)

ItemStep(a, i, path, sets) ==
    WalkItem(a, i, path, sets,
             Walk(a.x, i.value, Inside(path, i), Append(sets, a.own)))

WalkAll(x, items, path, sets) ==
    LET upTo[k \in 0..Len(items)] ==
          IF k = 0 THEN Begun(x) ELSE ItemStep(upTo[k - 1], items[k], path, sets)
    IN  upTo[Len(items)]

WalkStep(x, v, path, sets) ==
    IF v.t = "scalar" THEN VisitScalar(x, v, path, sets)
    ELSE LET r == WalkAll(x, v.items, path, sets)
         IN  [v |-> [v EXCEPT !.items = r.items], x |-> r.x]

(***************************************************************************)
(* Trees by their depth, as read ("any"), or with plain comments only      *)
(* ("plain").  T[n] is a set of trees of depth n at most.                  *)
(***************************************************************************)
IsSequence(q) == \E I : q \in Seq(I)

IsComment(kind, i) ==
    /\ i = [t |-> "comment", text |-> i.text, enc |-> i.enc]
    /\ kind = "plain" => i.enc = None

\* A pair or an element.
Holds(i) == i = Pair(i.key, i.value) \/ i = Elem(i.value)

IsCollection(v) == v \in {Mapping(v.items), List(v.items)} /\ IsSequence(v.items)

TreeAt(kind, T, n, v) ==
    \/ v.t = "scalar"
    \/ /\ n # 0 /\ IsCollection(v)
       /\ \A k \in 1..Len(v.items) : \/ IsComment(kind, v.items[k])
                                     \/ Holds(v.items[k]) /\ v.items[k].value \in T[n - 1]

Tree(kind, n, v) ==
    \E T : v \in T[n] /\ \A m \in 0..n : \A u \in T[m] : TreeAt(kind, T, m, u)

Node(kind, n, i) == \/ IsComment(kind, i)
                    \/ Holds(i) /\ Tree(kind, n, i.value)

\* A tree is a leaf, or a collection of comments and of trees one less deep.
LEMMA TreeIs ==
  ASSUME NEW kind, NEW n \in Nat, NEW v
  PROVE  Tree(kind, n, v) <=>
           \/ v.t = "scalar"
           \/ /\ n # 0 /\ IsCollection(v)
              /\ \A k \in 1..Len(v.items) : Node(kind, n - 1, v.items[k])
  <1>1. ASSUME Tree(kind, n, v), v.t # "scalar"
        PROVE  /\ n # 0 /\ IsCollection(v)
               /\ \A k \in 1..Len(v.items) : Node(kind, n - 1, v.items[k])
    <2>1. PICK T : v \in T[n] /\ \A m \in 0..n : \A u \in T[m] : TreeAt(kind, T, m, u)
      BY <1>1 DEF Tree
    <2>2. TreeAt(kind, T, n, v)
      BY <2>1
    <2>3. n # 0 /\ \A m \in 0..n - 1 : m \in 0..n
      BY <1>1, <2>2 DEF TreeAt
    <2>4. \A u \in T[n - 1] : Tree(kind, n - 1, u)
      BY <2>1, <2>3 DEF Tree
    <2>5. /\ n # 0 /\ IsCollection(v)
          /\ \A k \in 1..Len(v.items) :
               \/ IsComment(kind, v.items[k])
               \/ Holds(v.items[k]) /\ v.items[k].value \in T[n - 1]
      BY <1>1, <2>2, Zenon DEF TreeAt
    <2> QED BY <2>4, <2>5, Zenon DEF Node
  <1>2. ASSUME v.t = "scalar" PROVE Tree(kind, n, v)
    <2> DEFINE T == [m \in 0..n |-> IF m = n THEN {v} ELSE {}]
    <2>1. v \in T[n] /\ \A m \in 0..n : \A u \in T[m] : u = v
      OBVIOUS
    <2> HIDE DEF T
    <2>2. \A m \in 0..n : \A u \in T[m] : TreeAt(kind, T, m, u)
      BY <1>2, <2>1 DEF TreeAt
    <2> QED BY <2>1, <2>2 DEF Tree
  <1>3. ASSUME n # 0, IsCollection(v), \A k \in 1..Len(v.items) : Node(kind, n - 1, v.items[k])
        PROVE  Tree(kind, n, v)
    <2> DEFINE q    == v.items
               H    == {k \in 1..Len(q) : ~IsComment(kind, q[k])}
               Fits(k, T) == /\ q[k].value \in T[n - 1]
                             /\ \A m \in 0..n - 1 : \A u \in T[m] : TreeAt(kind, T, m, u)
               F(k) == CHOOSE T : Fits(k, T)
               T    == [m \in 0..n |-> IF m = n THEN {v} ELSE UNION {F(k)[m] : k \in H}]
    <2>1. \A k \in H : Fits(k, F(k)) /\ Holds(q[k])
      <3>1. \A k \in H : Holds(q[k]) /\ \E S : Fits(k, S)
        BY <1>3 DEF Node, Tree
      <3> HIDE DEF Fits
      <3> QED BY <3>1
    <2> HIDE DEF F, H
    <2>2. /\ T[n] = {v} /\ n \in 0..n /\ n - 1 \in 0..n - 1
          /\ \A m \in 0..n - 1 : m \in 0..n /\ m # n /\ T[m] = UNION {F(k)[m] : k \in H}
      <3>1. n \in 0..n /\ n - 1 \in 0..n - 1 /\ \A m \in 0..n - 1 : m \in 0..n /\ m # n
        BY <1>3
      <3> QED BY <3>1
    <2> HIDE DEF T
    <2> USE DEF H
    <2>3. ASSUME NEW m \in 0..n, NEW u \in T[m] PROVE TreeAt(kind, T, m, u)
      <3>1. CASE m = n
        <4>1. \A k \in H : q[k].value \in T[n - 1]
          BY <2>1, <2>2
        <4>2. u = v
          BY <2>2, <2>3, <3>1
        <4>3. \A k \in 1..Len(q) : \/ IsComment(kind, q[k])
                                   \/ Holds(q[k]) /\ q[k].value \in T[n - 1]
          BY <2>1, <4>1
        <4> QED BY <1>3, <3>1, <4>2, <4>3 DEF TreeAt
      <3>2. CASE m # n
        <4>1. m \in 0..n - 1
          BY <3>2
        <4>2. PICK k \in H : u \in F(k)[m]
          BY <2>2, <2>3, <4>1
        <4>3. TreeAt(kind, F(k), m, u)
          BY <2>1, <4>1, <4>2
        <4>4. m # 0 => m - 1 \in 0..n - 1 /\ F(k)[m - 1] \subseteq T[m - 1]
          BY <2>2, <4>1
        <4> QED BY <4>3, <4>4 DEF TreeAt
      <3> QED BY <3>1, <3>2
    <2>4. v \in T[n]
      BY <2>2
    <2> QED BY <2>3, <2>4 DEF Tree
  <1> QED BY <1>1, <1>2, <1>3

-----------------------------------------------------------------------------
(***************************************************************************)
(* Two trees that differ in the form of some leaves only.  R[n] is a set   *)
(* of such pairs of trees of depth n at most.                              *)
(***************************************************************************)
AlikeAt(R, n, v, u) ==
    IF v.t = "scalar" THEN u \in {v, Back(v)}
    ELSE /\ n # 0 /\ u = [v EXCEPT !.items = u.items] /\ Len(u.items) = Len(v.items)
         /\ \A k \in 1..Len(v.items) :
              \/ u.items[k] = v.items[k]
              \/ /\ u.items[k] = [v.items[k] EXCEPT !.value = u.items[k].value]
                 /\ <<v.items[k].value, u.items[k].value>> \in R[n - 1]

Alike(n, v, u) ==
    \E R : /\ <<v, u>> \in R[n]
           /\ \A m \in 0..n : \A p \in R[m] : AlikeAt(R, m, p[1], p[2])

AlikeItem(n, i, j) == \/ j = i
                      \/ j = [i EXCEPT !.value = j.value] /\ Alike(n, i.value, j.value)

\* A leaf is like itself and like what it reads back as.
LEMMA ScalarAlike ==
  ASSUME NEW n \in Nat, NEW v, v.t = "scalar", NEW u, u \in {v, Back(v)}
  PROVE  Alike(n, v, u)
  <1> DEFINE R == [m \in 0..n |-> IF m = n THEN {<<v, u>>} ELSE {}]
  <1>1. <<v, u>> \in R[n] /\ \A m \in 0..n : \A p \in R[m] : p = <<v, u>>
    OBVIOUS
  <1> HIDE DEF R
  <1>2. \A m \in 0..n : \A p \in R[m] : p[1] = v /\ p[2] = u
    BY <1>1
  <1>3. \A m \in 0..n : \A p \in R[m] : AlikeAt(R, m, p[1], p[2])
    BY <1>2 DEF AlikeAt
  <1> QED BY <1>1, <1>3, Zenon DEF Alike

\* Collections are alike whose items are.
LEMMA CollectionAlike ==
  ASSUME NEW n \in Nat, n # 0, NEW v, v.t # "scalar", NEW u,
         u = [v EXCEPT !.items = u.items], Len(u.items) = Len(v.items),
         \A k \in 1..Len(v.items) : AlikeItem(n - 1, v.items[k], u.items[k])
  PROVE  Alike(n, v, u)
  <1> DEFINE a == v.items
             b == u.items
             H == {k \in 1..Len(a) : b[k] # a[k]}
             Fits(k, R) == /\ <<a[k].value, b[k].value>> \in R[n - 1]
                           /\ \A m \in 0..n - 1 : \A p \in R[m] : AlikeAt(R, m, p[1], p[2])
             F(k) == CHOOSE R : Fits(k, R)
             R    == [m \in 0..n |-> IF m = n THEN {<<v, u>>} ELSE UNION {F(k)[m] : k \in H}]
  <1>1. \A k \in H : Fits(k, F(k)) /\ b[k] = [a[k] EXCEPT !.value = b[k].value]
    <2>1. \A k \in H : b[k] = [a[k] EXCEPT !.value = b[k].value] /\ \E S : Fits(k, S)
      BY Zenon DEF AlikeItem, Alike
    <2> HIDE DEF Fits
    <2> QED BY <2>1
  <1> HIDE DEF F, H
  <1>2. /\ R[n] = {<<v, u>>} /\ n \in 0..n /\ n - 1 \in 0..n - 1
        /\ \A m \in 0..n - 1 : m \in 0..n /\ m # n /\ R[m] = UNION {F(k)[m] : k \in H}
    <2>1. n \in 0..n /\ n - 1 \in 0..n - 1 /\ \A m \in 0..n - 1 : m \in 0..n /\ m # n
      OBVIOUS
    <2> QED BY <2>1
  <1> HIDE DEF R
  <1> USE DEF H
  <1>3. ASSUME NEW m \in 0..n, NEW p \in R[m] PROVE AlikeAt(R, m, p[1], p[2])
    <2>1. CASE m = n
      <3>1. \A k \in H : <<a[k].value, b[k].value>> \in R[n - 1]
        <4> TAKE k \in H
        <4> DEFINE p1 == <<a[k].value, b[k].value>>
        <4>1. p1 \in F(k)[n - 1]
          BY <1>1
        <4> HIDE DEF p1, H
        <4>2. p1 \in UNION {F(h)[n - 1] : h \in H}
          BY <4>1
        <4> QED BY <1>2, <4>2 DEF p1
      <3>2. p[1] = v /\ p[2] = u
        BY <1>2, <1>3, <2>1
      <3>3. \A k \in 1..Len(a) :
              \/ b[k] = a[k]
              \/ /\ b[k] = [a[k] EXCEPT !.value = b[k].value]
                 /\ <<a[k].value, b[k].value>> \in R[n - 1]
        BY <1>1, <3>1
      <3> QED BY <2>1, <3>2, <3>3, Zenon DEF AlikeAt
    <2>2. CASE m # n
      <3>1. m \in 0..n - 1
        BY <2>2
      <3>2. PICK k \in H : p \in F(k)[m]
        BY <1>2, <1>3, <3>1
      <3>3. AlikeAt(F(k), m, p[1], p[2])
        BY <1>1, <3>1, <3>2
      <3>4. m # 0 => m - 1 \in 0..n - 1 /\ F(k)[m - 1] \subseteq R[m - 1]
        BY <1>2, <3>1
      <3> QED BY <3>3, <3>4, Zenon DEF AlikeAt
    <2> QED BY <2>1, <2>2
  <1>4. <<v, u>> \in R[n]
    BY <1>2
  <1> QED BY <1>3, <1>4, Zenon DEF Alike

-----------------------------------------------------------------------------
\* What is asked of Walk: the equation SopsWalk defines it by, on trees.
WalkIs == \A kind, v : \A n \in Nat : Tree(kind, n, v) =>
    \A x, path, sets : Walk(x, v, path, sets) = WalkStep(x, v, path, sets)

(***************************************************************************)
(* The walk over a collection as a run: the states after 0, 1, ... items.  *)
(***************************************************************************)
Runs(x, items, path, sets, g) ==
    /\ g[0] = Begun(x)
    /\ \A k \in 1..Len(items) : g[k] = ItemStep(g[k - 1], items[k], path, sets)

IsRun(x, items, path, sets, n, g) ==
    g = [k \in 0..n |->
            IF k = 0 THEN Begun(x) ELSE ItemStep(g[k - 1], items[k], path, sets)]

\* There is a run of any length over any items.
LEMMA RunExists ==
  ASSUME NEW x, NEW items, NEW path, NEW sets, NEW n \in Nat
  PROVE  \E g : IsRun(x, items, path, sets, n, g)
  <1> DEFINE start == Begun(x)
             next(a, k) == ItemStep(a, items[k], path, sets)
             run(m, g) == g = [k \in 0..m |-> IF k = 0 THEN start ELSE next(g[k - 1], k)]
             S == {m \in 0..n : \E g : run(m, g)}
  <1>1. \A m, g : IsRun(x, items, path, sets, m, g) <=> run(m, g)
    BY DEF IsRun
  <1> HIDE DEF start, next
  <1>2. 0 \in S
    <2> DEFINE g == [k \in 0..0 |-> start]
    <2>1. g = [k \in 0..0 |-> IF k = 0 THEN start ELSE next(g[k - 1], k)]
      OBVIOUS
    <2> HIDE DEF g
    <2>2. run(0, g) /\ 0 \in 0..n
      BY <2>1
    <2> HIDE DEF run
    <2> QED BY <2>2
  <1>3. ASSUME NEW m \in 1..n, m - 1 \in S PROVE m \in S
    <2>1. PICK g : run(m - 1, g)
      BY <1>3
    <2> DEFINE h == [k \in 0..m |-> IF k = m THEN next(g[m - 1], m) ELSE g[k]]
    <2>2. \A k \in 0..m - 1 : k \in 0..m /\ h[k] = g[k]
      OBVIOUS
    <2>3. \A k \in 0..m - 1 : g[k] = IF k = 0 THEN start ELSE next(g[k - 1], k)
      BY <2>1
    <2>4. \A k \in 0..m : h[k] = IF k = 0 THEN start ELSE next(h[k - 1], k)
      <3> TAKE k \in 0..m
      <3>1. CASE k = m
        <4>1. k - 1 \in 0..m - 1 /\ k # 0
          BY <3>1
        <4> QED BY <2>2, <3>1, <4>1
      <3>2. CASE k # m
        <4>1. k \in 0..m - 1 /\ (k # 0 => k - 1 \in 0..m - 1)
          BY <3>2
        <4> QED BY <2>2, <2>3, <4>1
      <3> QED BY <3>1, <3>2
    <2>5. run(m, h)
      <3> HIDE DEF h
      <3>1. h = [k \in 0..m |-> h[k]]
        BY DEF h
      <3> QED BY <2>4, <3>1
    <2> HIDE DEF run, h
    <2> QED BY <2>5
  <1> HIDE DEF S
  <1>4. n \in S
    BY <1>2, <1>3, UpThrough
  <1> QED BY <1>1, <1>4 DEF S

\* What the walk over a collection makes is where its run ends.
LEMMA WalkRuns ==
  ASSUME NEW x, NEW items, Len(items) \in Nat, NEW path, NEW sets
  PROVE  \E g : /\ Runs(x, items, path, sets, g)
                /\ WalkAll(x, items, path, sets) = g[Len(items)]
  <1> DEFINE g == CHOOSE f : IsRun(x, items, path, sets, Len(items), f)
  <1>1. IsRun(x, items, path, sets, Len(items), g)
    <2>1. \E f : IsRun(x, items, path, sets, Len(items), f)
      BY RunExists
    <2> QED BY <2>1
  <1>2. WalkAll(x, items, path, sets) = g[Len(items)]
    BY DEF WalkAll, IsRun
  <1> HIDE DEF g
  <1>3. \A k \in 0..Len(items) :
          g[k] = IF k = 0 THEN Begun(x)
                 ELSE ItemStep(g[k - 1], items[k], path, sets)
    <2> DEFINE start == Begun(x)
               next(a, k) == ItemStep(a, items[k], path, sets)
    <2>1. g = [k \in 0..Len(items) |-> IF k = 0 THEN start ELSE next(g[k - 1], k)]
      BY <1>1 DEF IsRun
    <2> HIDE DEF start, next
    <2>2. \A k \in 0..Len(items) : g[k] = IF k = 0 THEN start ELSE next(g[k - 1], k)
      BY <2>1
    <2> QED BY <2>2 DEF start, next
  <1>4. 0 \in 0..Len(items) /\ \A k \in 1..Len(items) : k \in 0..Len(items) /\ k # 0
    OBVIOUS
  <1>5. Runs(x, items, path, sets, g)
    BY <1>3, <1>4, Zenon DEF Runs
  <1> QED BY <1>2, <1>5

\* Append, on a sequence of no known set.
LEMMA AppendAny ==
  ASSUME NEW q, IsSequence(q), NEW i
  PROVE  /\ IsSequence(Append(q, i)) /\ Len(q) \in Nat /\ Len(Append(q, i)) = Len(q) + 1
         /\ Append(q, i)[Len(q) + 1] = i
         /\ \A k \in 1..Len(q) : Append(q, i)[k] = q[k]
  <1>1. PICK I : q \in Seq(I)
    BY DEF IsSequence
  <1> DEFINE J == I \cup {i}
  <1>2. q \in Seq(J) /\ i \in J
    BY <1>1
  <1> HIDE DEF J
  <1> QED BY <1>2 DEF IsSequence

\* After k items.
After(a, k) ==
    /\ a = [items |-> a.items, own |-> a.own, x |-> a.x]
    /\ IsSequence(a.items) /\ Len(a.items) = k

\* One more item leaves those before it as they are; an error stays.
LEMMA ItemAfter ==
  ASSUME NEW k \in Nat, NEW a, After(a, k), NEW i, NEW path, NEW sets
  PROVE  LET b == ItemStep(a, i, path, sets) IN
         /\ After(b, k + 1)
         /\ \A j \in 1..k : b.items[j] = a.items[j]
         /\ b.x.err = None => a.x.err = None
  <1> DEFINE b == ItemStep(a, i, path, sets)
  <1>1. \E j, o, y : /\ b = [items |-> Append(a.items, j), own |-> o, x |-> y]
                     /\ a.x.err # None => y = a.x
    <2>1. CASE a.x.err # None
      <3>1. b = [a EXCEPT !.items = Append(@, i)]
        BY <2>1 DEF ItemStep, WalkItem, Inside
      <3>2. b = [items |-> Append(a.items, i), own |-> a.own, x |-> a.x]
        BY <3>1 DEF After
      <3> HIDE DEF b
      <3> QED BY <3>2
    <2>2. CASE a.x.err = None /\ i.t = "comment"
      <3> DEFINE r == VisitComment(a.x, i, path, Append(sets, Append(a.own, i)))
      <3>1. b = [items |-> Append(a.items, r.i), own |-> Append(a.own, i), x |-> r.x]
        BY <2>2 DEF ItemStep, WalkItem, Inside
      <3> HIDE DEF b, r
      <3> QED BY <2>2, <3>1
    <2>3. CASE a.x.err = None /\ i.t # "comment"
      <3> DEFINE r == Walk(a.x, i.value, IF i.t = "pair" THEN Append(path, i.key) ELSE path,
                           Append(sets, a.own))
      <3>1. b = [items |-> Append(a.items, [i EXCEPT !.value = r.v]), own |-> <<>>, x |-> r.x]
        BY <2>3 DEF ItemStep, WalkItem, Inside
      <3> HIDE DEF b, r
      <3> QED BY <2>3, <3>1
    <2> QED BY <2>1, <2>2, <2>3
  <1> HIDE DEF b
  <1>2. PICK j, o, y : /\ b = [items |-> Append(a.items, j), own |-> o, x |-> y]
                       /\ a.x.err # None => y = a.x
    BY <1>1
  <1>3. b.items = Append(a.items, j) /\ b.own = o /\ b.x = y
    BY <1>2
  <1>4. b = [items |-> b.items, own |-> b.own, x |-> b.x]
    BY <1>2, <1>3
  <1>5. IsSequence(a.items) /\ Len(a.items) = k
    BY DEF After
  <1>6. /\ IsSequence(b.items) /\ Len(b.items) = k + 1
        /\ \A h \in 1..k : b.items[h] = a.items[h]
    BY <1>3, <1>5, AppendAny
  <1> QED BY <1>2, <1>3, <1>4, <1>6 DEF After, b

\* What a run of L items is like.
Grows(g, L) ==
    /\ \A k \in 0..L : After(g[k], k)
    /\ \A k \in 0..L : \A j \in 1..k : g[k].items[j] = g[j].items[j]
    /\ g[L].x.err = None => \A k \in 0..L : g[k].x.err = None

\* So a run only adds items, and without an error at its end had none.
LEMMA RunGrows ==
  ASSUME NEW x, NEW items, NEW L, L = Len(items), L \in Nat, NEW path, NEW sets, NEW g,
         Runs(x, items, path, sets, g)
  PROVE  Grows(g, L)
  <1> DEFINE S == {k \in 0..L : /\ After(g[k], k)
                                /\ \A j \in 1..k : g[k].items[j] = g[j].items[j]}
             R == {k \in 0..L : g[L - k].x.err = None}
  <1>1. \A k \in 1..L : g[k] = ItemStep(g[k - 1], items[k], path, sets)
    BY DEF Runs
  <1>2. 0 \in S
    <2>1. g[0] = [items |-> <<>>, own |-> <<>>, x |-> x]
      BY DEF Runs, Begun
    <2>2. IsSequence(<<>>) /\ Len(<<>>) = 0
      <3>1. <<>> \in Seq({})
        OBVIOUS
      <3> QED BY <3>1 DEF IsSequence
    <2>3. g[0].items = <<>> /\ g[0] = [items |-> g[0].items, own |-> g[0].own, x |-> g[0].x]
      BY <2>1
    <2>4. After(g[0], 0)
      BY <2>2, <2>3, Zenon DEF After
    <2> QED BY <2>4
  <1>3. ASSUME NEW k \in 1..L, k - 1 \in S PROVE k \in S
    <2>1. k - 1 \in Nat /\ (k - 1) + 1 = k /\ After(g[k - 1], k - 1)
      BY <1>3
    <2> DEFINE b == ItemStep(g[k - 1], items[k], path, sets)
    <2>2. /\ After(b, (k - 1) + 1)
          /\ \A j \in 1..k - 1 : b.items[j] = g[k - 1].items[j]
      BY <2>1, ItemAfter
    <2>3. g[k] = b
      BY <1>1
    <2> HIDE DEF b
    <2>4. \A j \in 1..k : g[k].items[j] = g[j].items[j]
      BY <1>3, <2>2, <2>3
    <2> QED BY <2>1, <2>2, <2>3, <2>4
  <1>4. \A k \in 0..L : k \in S
    <2> HIDE DEF S
    <2> QED BY <1>2, <1>3, UpThrough
  <1>5. ASSUME g[L].x.err = None, NEW k \in 1..L, k - 1 \in R PROVE k \in R
    <2> DEFINE h == L - (k - 1)
    <2>1. h \in 1..L /\ h - 1 = L - k /\ h - 1 \in 0..L /\ k \in 0..L
      OBVIOUS
    <2>2. g[h].x.err = None
      BY <1>5
    <2> HIDE DEF h
    <2>3. After(g[h - 1], h - 1) /\ h - 1 \in Nat
      BY <1>4, <2>1
    <2>4. g[h] = ItemStep(g[h - 1], items[h], path, sets)
      BY <1>1, <2>1
    <2>5. g[h - 1].x.err = None
      BY <2>2, <2>3, <2>4, ItemAfter
    <2> QED BY <2>1, <2>5
  <1>6. g[L].x.err = None => \A k \in 0..L : g[k].x.err = None
    <2> SUFFICES ASSUME g[L].x.err = None, NEW k \in 0..L PROVE g[k].x.err = None
      OBVIOUS
    <2>1. 0 \in R
      OBVIOUS
    <2>2. \A j \in 0..L : j \in R
      <3> HIDE DEF R
      <3> QED BY <1>5, <2>1, UpThrough
    <2>3. L - k \in 0..L /\ L - (L - k) = k
      OBVIOUS
    <2> QED BY <2>2, <2>3
  <1> QED BY <1>4, <1>6 DEF Grows

-----------------------------------------------------------------------------
(***************************************************************************)
(* A comment joins both walks' innermost sets; a value starts new ones.    *)
(***************************************************************************)
LEMMA AppendIn ==
  ASSUME NEW C, NEW q \in Seq(C), NEW i
  PROVE  /\ Append(q, i) \in Seq(C \cup {i}) /\ Len(Append(q, i)) = Len(q) + 1
         /\ Append(q, i)[Len(q) + 1] = i /\ Len(q) \in Nat
         /\ \A k \in 1..Len(q) : Append(q, i)[k] = q[k]
  <1> DEFINE J == C \cup {i}
  <1>1. q \in Seq(J) /\ i \in J
    OBVIOUS
  <1> HIDE DEF J
  <1> QED BY <1>1 DEF J

\* Sequences of sets over C, and one more set.
LEMMA AppendSet ==
  ASSUME NEW C, NEW sets \in Seq(Seq(C)), NEW own \in Seq(C)
  PROVE  /\ Append(sets, own) \in Seq(Seq(C)) /\ Len(Append(sets, own)) = Len(sets) + 1
         /\ Append(sets, own)[Len(sets) + 1] = own /\ Len(sets) \in Nat
         /\ \A k \in 1..Len(sets) : Append(sets, own)[k] = sets[k]
  <1> DEFINE J == Seq(C)
  <1>1. sets \in Seq(J) /\ own \in J
    OBVIOUS
  <1> HIDE DEF J
  <1> QED BY <1>1 DEF J

\* Sets of comments are sets of items.
LEMMA SetsOver ==
  ASSUME NEW C, NEW J, C \subseteq J, NEW sets \in Seq(Seq(C))
  PROVE  sets \in Seq(Seq(J))
  <1>1. Seq(C) \subseteq Seq(J)
    <2> SUFFICES ASSUME NEW q \in Seq(C) PROVE q \in Seq(J)
      OBVIOUS
    <2>1. Len(q) \in Nat /\ q \in [1..Len(q) -> J]
      OBVIOUS
    <2> QED BY <2>1
  <1> DEFINE A == Seq(C)
             B == Seq(J)
  <1>2. A \subseteq B /\ sets \in Seq(A)
    BY <1>1
  <1> HIDE DEF A, B
  <1>3. Len(sets) \in Nat /\ sets \in [1..Len(sets) -> B]
    BY <1>2
  <1>4. sets \in Seq(B)
    BY <1>3
  <1> QED BY <1>4 DEF B

\* What stands before an appended element.
LEMMA PrefixOf ==
  ASSUME NEW J, NEW q \in Seq(J), NEW e \in J, NEW k \in 0..Len(q)
  PROVE  SubSeq(Append(q, e), 1, k) = SubSeq(q, 1, k) /\ SubSeq(q, 1, Len(q)) = q
  OBVIOUS

\* What was seen in an outer collection has nothing of the inner one.
LEMMA UpToBelow ==
  ASSUME NEW C, NEW sets \in Seq(Seq(C)), NEW own \in Seq(C), NEW k \in 1..Len(sets), NEW j
  PROVE  UpTo(Append(sets, own), k, j) = UpTo(sets, k, j)
  <1> DEFINE J == Seq(C)
             a == Append(sets, own)
  <1>1. sets \in Seq(J) /\ own \in J
    OBVIOUS
  <1>2. a[k] = sets[k]
    BY AppendSet
  <1> HIDE DEF J
  <1>3. SubSeq(a, 1, k - 1) = SubSeq(sets, 1, k - 1)
    BY <1>1, PrefixOf
  <1> HIDE DEF a
  <1> QED BY <1>2, <1>3 DEF UpTo, a

\* What was seen in the innermost collection.
LEMMA UpToLast ==
  ASSUME NEW C, NEW sets \in Seq(Seq(C)), NEW own \in Seq(C), NEW n, n = Len(sets) + 1, NEW j
  PROVE  UpTo(Append(sets, own), n, j) = Append(sets, SubSeq(own, 1, j))
  <1> DEFINE J == Seq(C)
             a == Append(sets, own)
  <1>1. sets \in Seq(J) /\ own \in J /\ Len(sets) \in Nat
    OBVIOUS
  <1>2. a[n] = own
    BY AppendSet
  <1> HIDE DEF J
  <1>3. SubSeq(a, 1, n - 1) = sets
    <2>1. n - 1 = Len(sets) /\ Len(sets) \in 0..Len(sets)
      BY <1>1
    <2>2. SubSeq(a, 1, Len(sets)) = SubSeq(sets, 1, Len(sets))
          /\ SubSeq(sets, 1, Len(sets)) = sets
      BY <1>1, <2>1, PrefixOf
    <2> HIDE DEF a
    <2> QED BY <2>1, <2>2
  <1> HIDE DEF a
  <1>4. UpTo(a, n, j) = Append(sets, SubSeq(own, 1, j))
    BY <1>2, <1>3 DEF UpTo
  <1> QED BY <1>4 DEF a

\* d is what the encrypting walk made of the comment c, having seen sets.
Visited(p, c, sets, d) == \E x, path :
    /\ ContextOK(x) /\ x.dir = "encrypt" /\ x.policy = p
    /\ LET r == VisitComment(x, c, path, sets) IN r.x.err = None /\ d = r.i

\* Image, comment by comment.
LEMMA ImageIs ==
  ASSUME NEW p, NEW sets, NEW out
  PROVE  Image(p, sets, out) <=>
           /\ Len(out) = Len(sets)
           /\ \A k \in 1..Len(sets) :
                /\ Len(out[k]) = Len(sets[k])
                /\ \A j \in 1..Len(sets[k]) :
                     Visited(p, sets[k][j], UpTo(sets, k, j), out[k][j])
  BY DEF Image, Visited

\* Image of the outer collections' comments and of this one's.
LEMMA ImageSplit ==
  ASSUME NEW C, NEW sets \in Seq(Seq(C)), NEW own \in Seq(C),
         NEW D, NEW out \in Seq(Seq(D)), NEW made \in Seq(D), NEW p
  PROVE  Image(p, Append(sets, own), Append(out, made)) <=>
           /\ Image(p, sets, out) /\ Len(made) = Len(own)
           /\ \A j \in 1..Len(own) :
                Visited(p, own[j], Append(sets, SubSeq(own, 1, j)), made[j])
  <1> DEFINE a == Append(sets, own)
             b == Append(out, made)
             L == Len(sets)
  <1>1. /\ Len(a) = L + 1 /\ a[L + 1] = own /\ L \in Nat
        /\ \A k \in 1..L : a[k] = sets[k]
    BY AppendSet
  <1>2. /\ Len(b) = Len(out) + 1 /\ b[Len(out) + 1] = made /\ Len(out) \in Nat
        /\ \A k \in 1..Len(out) : b[k] = out[k]
    BY AppendSet
  <1>3. \A k \in 1..L : \A j : UpTo(a, k, j) = UpTo(sets, k, j)
    BY UpToBelow
  <1>4. \A j : UpTo(a, L + 1, j) = Append(sets, SubSeq(own, 1, j))
    BY UpToLast, Zenon
  <1> HIDE DEF a, b
  <1>5. Len(b) = Len(a) <=> Len(out) = L
    BY <1>1, <1>2
  <1>6. (\A k \in 1..L + 1 : /\ Len(b[k]) = Len(a[k])
                             /\ \A j \in 1..Len(a[k]) : Visited(p, a[k][j], UpTo(a, k, j), b[k][j]))
        <=> /\ \A k \in 1..L : /\ Len(b[k]) = Len(a[k])
                               /\ \A j \in 1..Len(a[k]) :
                                    Visited(p, a[k][j], UpTo(a, k, j), b[k][j])
            /\ Len(b[L + 1]) = Len(own)
            /\ \A j \in 1..Len(own) :
                 Visited(p, own[j], Append(sets, SubSeq(own, 1, j)), b[L + 1][j])
    <2>1. /\ \A k \in 1..L + 1 : k = L + 1 \/ k \in 1..L
          /\ L + 1 \in 1..L + 1 /\ \A k \in 1..L : k \in 1..L + 1
      BY <1>1
    <2> QED BY <1>1, <1>4, <2>1
  <1>7. Len(out) = L =>
          ((\A k \in 1..L : /\ Len(b[k]) = Len(a[k])
                            /\ \A j \in 1..Len(a[k]) :
                                 Visited(p, a[k][j], UpTo(a, k, j), b[k][j]))
           <=> \A k \in 1..L : /\ Len(out[k]) = Len(sets[k])
                               /\ \A j \in 1..Len(sets[k]) :
                                    Visited(p, sets[k][j], UpTo(sets, k, j), out[k][j]))
    BY <1>1, <1>2, <1>3
  <1>8. Len(out) = L => b[L + 1] = made
    BY <1>2
  <1>9. /\ Image(p, a, b) <=>
             /\ Len(b) = Len(a)
             /\ \A k \in 1..L + 1 :
                  /\ Len(b[k]) = Len(a[k])
                  /\ \A j \in 1..Len(a[k]) : Visited(p, a[k][j], UpTo(a, k, j), b[k][j])
        /\ Image(p, sets, out) <=>
             /\ Len(out) = L
             /\ \A k \in 1..L :
                  /\ Len(out[k]) = Len(sets[k])
                  /\ \A j \in 1..Len(sets[k]) :
                       Visited(p, sets[k][j], UpTo(sets, k, j), out[k][j])
    BY <1>1, ImageIs
  <1> QED BY <1>5, <1>6, <1>7, <1>8, <1>9 DEF a, b

\* The decrypting walk goes by what became of what the encrypting one went by.
InPlace(p, sets, out) ==
    \E C, D : Comments(sets, C) /\ out \in Seq(Seq(D)) /\ Image(p, sets, out)

\* So they do in a collection, own and made being the innermost sets.
Within(p, sets, own, out, made) ==
    \E C, D : /\ Comments(sets, C) /\ own \in Seq(C) /\ out \in Seq(Seq(D)) /\ made \in Seq(D)
             /\ Image(p, Append(sets, own), Append(out, made))

\* Inside a collection the walk is in a place of its own.
LEMMA WithinIs ==
  ASSUME NEW p, NEW sets, NEW own, NEW out, NEW made, Within(p, sets, own, out, made)
  PROVE  InPlace(p, Append(sets, own), Append(out, made))
  <1>1. PICK C, D : /\ Comments(sets, C) /\ own \in Seq(C)
                    /\ out \in Seq(Seq(D)) /\ made \in Seq(D)
                    /\ Image(p, Append(sets, own), Append(out, made))
    BY DEF Within
  <1>2. sets \in Seq(Seq(C))
    BY <1>1 DEF Comments
  <1>3. Append(sets, own) \in Seq(Seq(C)) /\ Append(out, made) \in Seq(Seq(D))
    BY <1>1, <1>2, AppendSet
  <1>4. Comments(Append(sets, own), C)
    BY <1>1, <1>3 DEF Comments
  <1> QED BY <1>1, <1>3, <1>4, Zenon DEF InPlace

\* A collection begins without comments, and so does one after a value.
LEMMA NewWithin ==
  ASSUME NEW p, NEW sets, NEW out, InPlace(p, sets, out)
  PROVE  Within(p, sets, <<>>, out, <<>>)
  <1>1. PICK C, D : Comments(sets, C) /\ out \in Seq(Seq(D)) /\ Image(p, sets, out)
    BY DEF InPlace
  <1> DEFINE none == <<>>
  <1>2. sets \in Seq(Seq(C)) /\ none \in Seq(C) /\ none \in Seq(D) /\ Len(none) = 0
    BY <1>1 DEF Comments
  <1> HIDE DEF none
  <1>3. 1..Len(none) = {}
    BY <1>2
  <1>4. Image(p, Append(sets, none), Append(out, none))
    BY <1>1, <1>2, <1>3, ImageSplit
  <1> QED BY <1>1, <1>2, <1>4, Zenon DEF Within, none

\* A comment visited is one more seen, and what became of it one more met.
LEMMA WithinGrows ==
  ASSUME NEW p, NEW sets, NEW own, NEW out, NEW made, Within(p, sets, own, out, made),
         NEW word, NEW d,
         Visited(p, Comment(word), Append(sets, Append(own, Comment(word))), d)
  PROVE  Within(p, sets, Append(own, Comment(word)), out, Append(made, d))
  <1>1. PICK C, D : /\ Comments(sets, C) /\ own \in Seq(C)
                    /\ out \in Seq(Seq(D)) /\ made \in Seq(D)
                    /\ Image(p, Append(sets, own), Append(out, made))
    BY DEF Within
  <1> DEFINE c  == Comment(word)
             C1 == C \cup {c}
             D1 == D \cup {d}
             own1 == Append(own, c)
             made1 == Append(made, d)
  <1>2. DOMAIN c = {"t", "text", "enc"}
    BY DEF Comment
  <1>3. Visited(p, c, Append(sets, own1), d)
    OBVIOUS
  <1> HIDE DEF c
  <1>4. C \subseteq C1 /\ D \subseteq D1 /\ sets \in Seq(Seq(C))
    BY <1>1 DEF Comments
  <1>5. /\ own1 \in Seq(C1) /\ Len(own1) = Len(own) + 1 /\ own1[Len(own) + 1] = c
        /\ Len(own) \in Nat /\ \A k \in 1..Len(own) : own1[k] = own[k]
    BY <1>1, AppendIn
  <1>6. /\ made1 \in Seq(D1) /\ Len(made1) = Len(made) + 1 /\ made1[Len(made) + 1] = d
        /\ Len(made) \in Nat /\ \A k \in 1..Len(made) : made1[k] = made[k]
    BY <1>1, AppendIn
  <1>7. /\ \A k \in 0..Len(own) : SubSeq(own1, 1, k) = SubSeq(own, 1, k)
        /\ SubSeq(own1, 1, Len(own1)) = own1
    <2>1. own \in Seq(C1) /\ c \in C1
      BY <1>1, <1>4
    <2> HIDE DEF C1
    <2>2. \A k \in 0..Len(own) : SubSeq(own1, 1, k) = SubSeq(own, 1, k)
      BY <2>1, PrefixOf
    <2> HIDE DEF own1
    <2> QED BY <1>5, <2>2
  <1> HIDE DEF own1, made1
  <1>8. sets \in Seq(Seq(C1)) /\ out \in Seq(Seq(D1))
    <2> HIDE DEF C1, D1
    <2> QED BY <1>1, <1>4, SetsOver
  <1> HIDE DEF C1, D1
  <1>9. /\ Image(p, sets, out) /\ Len(made) = Len(own)
        /\ \A j \in 1..Len(own) :
             Visited(p, own[j], Append(sets, SubSeq(own, 1, j)), made[j])
    BY <1>1, <1>4, ImageSplit
  <1>10. ASSUME NEW j \in 1..Len(own1)
         PROVE  Visited(p, own1[j], Append(sets, SubSeq(own1, 1, j)), made1[j])
    <2>1. CASE j = Len(own1)
      BY <1>3, <1>5, <1>6, <1>7, <1>9, <2>1
    <2>2. CASE j # Len(own1)
      <3>1. j \in 1..Len(own) /\ j \in 0..Len(own)
        BY <1>5, <2>2
      <3>2. own1[j] = own[j] /\ made1[j] = made[j] /\ SubSeq(own1, 1, j) = SubSeq(own, 1, j)
        BY <1>5, <1>6, <1>7, <1>9, <3>1
      <3>3. Visited(p, own[j], Append(sets, SubSeq(own, 1, j)), made[j])
        BY <1>9, <3>1
      <3> QED BY <3>2, <3>3
    <2> QED BY <2>1, <2>2
  <1>11. Len(made1) = Len(own1)
    BY <1>5, <1>6, <1>9
  <1>12. Image(p, Append(sets, own1), Append(out, made1))
    BY <1>5, <1>6, <1>8, <1>9, <1>10, <1>11, ImageSplit
  <1>13. Comments(sets, C1)
    BY <1>1, <1>2, <1>8 DEF Comments, C1
  <1> QED BY <1>5, <1>6, <1>8, <1>12, <1>13, Zenon DEF Within, own1, made1, c

-----------------------------------------------------------------------------
(***************************************************************************)
(* There and back.                                                         *)
(***************************************************************************)
SameKey(i, j) == j.t = i.t /\ (i.t = "pair" => j.key = i.key)

SameKeys(v, u) ==
    IF v.t = "scalar" THEN u.t = "scalar"
    ELSE /\ u = [v EXCEPT !.items = u.items] /\ Len(u.items) = Len(v.items)
         /\ \A k \in 1..Len(v.items) : SameKey(v.items[k], u.items[k])

\* e, which encrypting made of v, and d, which decrypting makes of that.
OpensTo(n, v, p, e, d) ==
    /\ InStep(e.x, d.x) /\ e.x.policy = p
    /\ Tree("any", n, e.v) /\ SameKeys(v, e.v)
    /\ Alike(n, v, d.v)

OpensBelow(n, v) == \A x, y, path, sets, out :
    /\ InStep(x, y) /\ InPlace(x.policy, sets, out)
    /\ Walk(x, v, path, sets).x.err = None
    => LET e == Walk(x, v, path, sets)
       IN  OpensTo(n, v, x.policy, e, Walk(y, e.v, path, out))

\* A leaf stays a leaf, and the policy what it was.
LEMMA ScalarKept ==
  ASSUME NEW x, ContextOK(x), NEW s, s.t = "scalar", NEW path, NEW sets
  PROVE  LET e == VisitScalar(x, s, path, sets) IN
           e.v.t = "scalar" /\ e.x.policy = x.policy
  <1> DEFINE e == VisitScalar(x, s, path, sets)
  <1>1. \A pt, aad, stash, f :
          /\ Feed(x, pt, f).policy = x.policy
          /\ Drew(Feed(x, pt, f), pt, aad).policy = x.policy
          /\ [Feed(x, pt, f) EXCEPT !.stash = stash].policy = x.policy
    BY DEF Feed, Drew, ContextOK
  <1>2. \A why : Refuse(x, why).policy = x.policy
    BY DEF Refuse, ContextOK
  <1>3. \A pt : ScalarOf(pt).t = "scalar"
    BY DEF ScalarOf, Scalar, New
  <1>4. Missing.t = "scalar" /\ \A c : [Missing EXCEPT !.enc = c].t = "scalar"
    BY DEF Missing, Scalar
  <1>5. e.v.t = "scalar"
    BY <1>3, <1>4 DEF VisitScalar
  <1>6. e.x.policy = x.policy
    <2> DEFINE aad == Aad(path)
               enc == Select(x.policy, path, sets, FALSE)
               pt  == PlaintextOf(s)
               fed == Feed(x, pt, enc)
               opened == [Feed(x, s.enc.pt, TRUE) EXCEPT
                            !.stash = Remember(@, s.enc.pt, aad, s.enc.iv)]
    <2>1. e.x \in {x, fed, Drew(fed, pt, aad), Feed(x, Plaintext("str", ""), TRUE), opened,
                   Refuse(x, "not an encrypted leaf of this file")}
      <3> HIDE DEF enc, pt, fed, opened
      <3> QED BY DEF VisitScalar, enc, pt, fed, opened
    <2>2. /\ opened.policy = x.policy /\ fed.policy = x.policy
          /\ Drew(fed, pt, aad).policy = x.policy
          /\ Feed(x, Plaintext("str", ""), TRUE).policy = x.policy
          /\ Refuse(x, "not an encrypted leaf of this file").policy = x.policy
      BY <1>1, <1>2, Zenon
    <2> HIDE DEF e, opened, fed
    <2> QED BY <2>1, <2>2
  <1> QED BY <1>5, <1>6

\* A comment stays a comment, and the policy what it was.
LEMMA CommentKept ==
  ASSUME NEW x, ContextOK(x), x.dir = "encrypt", NEW word, NEW path, NEW sets
  PROVE  LET e == VisitComment(x, Comment(word), path, sets) IN
           IsComment("any", e.i) /\ e.x.policy = x.policy
  <1> DEFINE c == Comment(word)
             e == VisitComment(x, c, path, sets)
  <1>1. IsComment("any", c) /\ \A z : IsComment("any", [c EXCEPT !.enc = z])
    BY DEF IsComment, Comment
  <1>2. \A pt, aad, why : Drew(x, pt, aad).policy = x.policy /\ Refuse(x, why).policy = x.policy
    BY DEF Drew, Refuse, ContextOK
  <1> HIDE DEF c
  <1>3. IsComment("any", e.i)
    BY <1>1 DEF VisitComment
  <1>4. e.x.policy = x.policy
    BY <1>2 DEF VisitComment
  <1> QED BY <1>3, <1>4 DEF c

\* LeafOpens, for a tree that is one leaf.
LEMMA ScalarOpens ==
  ASSUME NoneIsNoCipher, WalkIs, NEW n \in Nat, NEW v, v.t = "scalar"
  PROVE  OpensBelow(n, v)
  <1> SUFFICES ASSUME NEW x, NEW y, NEW path, NEW sets, NEW out,
                      InStep(x, y), InPlace(x.policy, sets, out)
               PROVE  LET e == Walk(x, v, path, sets)
                      IN  OpensTo(n, v, x.policy, e, Walk(y, e.v, path, out))
    BY DEF OpensBelow
  <1> DEFINE e == Walk(x, v, path, sets)
             d == Walk(y, e.v, path, out)
  <1>1. \A s, z, c : s.t = "scalar" => Walk(z, s, path, c) = VisitScalar(z, s, path, c)
    <2> SUFFICES ASSUME NEW s, NEW z, NEW c, s.t = "scalar"
                 PROVE  Walk(z, s, path, c) = VisitScalar(z, s, path, c)
      OBVIOUS
    <2>1. Tree("any", 0, s)
      BY TreeIs
    <2>2. Walk(z, s, path, c) = WalkStep(z, s, path, c)
      BY <2>1 DEF WalkIs
    <2> QED BY <2>2 DEF WalkStep
  <1>2. e = VisitScalar(x, v, path, sets)
    BY <1>1
  <1>3. ContextOK(x)
    BY DEF InStep
  <1>4. e.v.t = "scalar" /\ e.x.policy = x.policy
    BY <1>2, <1>3, ScalarKept
  <1>5. d = VisitScalar(y, VisitScalar(x, v, path, sets).v, path, out)
    BY <1>1, <1>2, <1>4
  <1>6. PICK C, D : Comments(sets, C) /\ out \in Seq(Seq(D)) /\ Image(x.policy, sets, out)
    BY DEF InPlace
  <1>7. InStep(e.x, d.x) /\ d.v = IF Picks(x.policy, path, sets) THEN Back(v) ELSE v
    <2> DEFINE e1 == VisitScalar(x, v, path, sets)
               d1 == VisitScalar(y, e1.v, path, out)
    <2>1. InStep(e1.x, d1.x) /\ d1.v = IF Picks(x.policy, path, sets) THEN Back(v) ELSE v
      BY <1>6, LeafOpens
    <2>2. e = e1 /\ d = d1
      BY <1>2, <1>5
    <2> HIDE DEF e, d, e1, d1
    <2> QED BY <2>1, <2>2
  <1> HIDE DEF e, d
  <1>8. d.v \in {v, Back(v)}
    BY <1>7
  <1>9. Tree("any", n, e.v) /\ SameKeys(v, e.v) /\ Alike(n, v, d.v)
    BY <1>4, <1>8, TreeIs, ScalarAlike DEF SameKeys
  <1> QED BY <1>4, <1>7, <1>9 DEF OpensTo, e, d

(***************************************************************************)
(* One more item: a is the encrypting walk after k of them, b the          *)
(* decrypting one.                                                         *)
(***************************************************************************)
Paired(p, sets, out, a, b) ==
    /\ InStep(a.x, b.x) /\ a.x.policy = p
    /\ Within(p, sets, a.own, out, b.own)

ItemOpens(n, p, sets, out, i, k, e, d) ==
    /\ Paired(p, sets, out, e, d)
    /\ Node("any", n, e.items[k]) /\ SameKey(i, e.items[k])
    /\ AlikeItem(n, i, d.items[k])

\* CommentOpens, for the next item of two runs that are in step.
LEMMA CommentStep ==
  ASSUME NoneIsNoCipher, NEW k \in Nat, NEW a, After(a, k), NEW b, After(b, k),
         NEW p, NEW sets, NEW out, Paired(p, sets, out, a, b), NEW path, NEW word, NEW n,
         ItemStep(a, Comment(word), path, sets).x.err = None
  PROVE  LET e == ItemStep(a, Comment(word), path, sets)
             d == ItemStep(b, e.items[k + 1], path, out)
         IN  ItemOpens(n, p, sets, out, Comment(word), k + 1, e, d)
  <1> DEFINE i == Comment(word)
             s == Append(sets, Append(a.own, i))
             r == VisitComment(a.x, i, path, s)
             o == Append(out, Append(b.own, r.i))
             q == VisitComment(b.x, r.i, path, o)
             e == ItemStep(a, i, path, sets)
             j == e.items[k + 1]
             d == ItemStep(b, j, path, out)
  <1>1. /\ InStep(a.x, b.x) /\ a.x.policy = p /\ Within(p, sets, a.own, out, b.own)
        /\ a.x.err = None /\ b.x.err = None /\ ContextOK(a.x) /\ a.x.dir = "encrypt"
    BY DEF Paired, InStep
  <1>2. i.t = "comment"
    BY DEF Comment
  <1>3. /\ IsSequence(a.items) /\ Len(a.items) = k /\ IsSequence(b.items) /\ Len(b.items) = k
        /\ \A z : Append(a.items, z)[k + 1] = z /\ Append(b.items, z)[k + 1] = z
    BY AppendAny DEF After
  <1>4. e = [items |-> Append(a.items, r.i), own |-> Append(a.own, i), x |-> r.x]
    BY <1>1, <1>2 DEF ItemStep, WalkItem, Inside
  <1>5. e.x.err = None
    OBVIOUS
  <1> HIDE DEF e
  <1>6. e.x = r.x /\ e.own = Append(a.own, i) /\ j = r.i
    BY <1>3, <1>4
  <1>7. r.x.err = None
    <2> HIDE DEF r
    <2> QED BY <1>5, <1>6
  <1>8. InStep(r.x, q.x) /\ q.i = i
    BY <1>1, <1>7, CommentOpens
  <1>9. IsComment("any", r.i) /\ r.x.policy = p
    BY <1>1, CommentKept
  <1>10. Visited(p, i, s, r.i)
    BY <1>1, <1>7, Zenon DEF Visited
  <1> HIDE DEF r, q
  <1>11. r.i.t = "comment"
    BY <1>9 DEF IsComment
  <1>12. d = [items |-> Append(b.items, q.i), own |-> Append(b.own, r.i), x |-> q.x]
    BY <1>1, <1>6, <1>11 DEF ItemStep, WalkItem, Inside, q
  <1> HIDE DEF d, j
  <1>13. d.x = q.x /\ d.own = Append(b.own, r.i) /\ d.items[k + 1] = i
    BY <1>3, <1>8, <1>12
  <1>14. Within(p, sets, Append(a.own, i), out, Append(b.own, r.i))
    BY <1>1, <1>10, WithinGrows
  <1>15. Paired(p, sets, out, e, d)
    BY <1>6, <1>8, <1>9, <1>13, <1>14 DEF Paired
  <1>16. Node("any", n, j) /\ SameKey(i, j) /\ AlikeItem(n, i, d.items[k + 1])
    BY <1>2, <1>6, <1>9, <1>11, <1>13, Zenon DEF Node, SameKey, AlikeItem
  <1> QED BY <1>15, <1>16 DEF ItemOpens, j, e, d

\* A pair or an element with another value is still one.
LEMMA OtherValue ==
  ASSUME NEW i, Holds(i), NEW w, NEW z
  PROVE  LET f == [i EXCEPT !.value = w] IN
         /\ f.t = i.t /\ f.value = w /\ Holds(f) /\ i.t # "comment"
         /\ i.t = "pair" => f.key = i.key
         /\ [f EXCEPT !.value = z] = [i EXCEPT !.value = z]
  <1> DEFINE f == [i EXCEPT !.value = w]
  <1>1. \A key, v, u :
          /\ [Pair(key, v) EXCEPT !.value = u] = Pair(key, u)
          /\ Pair(key, v).t = "pair" /\ Pair(key, v).key = key /\ Pair(key, v).value = v
          /\ [Elem(v) EXCEPT !.value = u] = Elem(u)
          /\ Elem(v).t = "elem" /\ Elem(v).value = v
    BY DEF Pair, Elem
  <1>2. CASE \E key, v : i = Pair(key, v)
    <2>1. PICK key, v : i = Pair(key, v)
      BY <1>2
    <2>2. f = Pair(key, w)
      BY <1>1, <2>1
    <2> HIDE DEF f
    <2>3. [f EXCEPT !.value = z] = Pair(key, z) /\ [i EXCEPT !.value = z] = Pair(key, z)
      BY <1>1, <2>1, <2>2
    <2> QED BY <1>1, <2>1, <2>2, <2>3 DEF Holds, f
  <1>3. CASE \E v : i = Elem(v)
    <2>1. PICK v : i = Elem(v)
      BY <1>3
    <2>2. f = Elem(w)
      BY <1>1, <2>1
    <2> HIDE DEF f
    <2>3. [f EXCEPT !.value = z] = Elem(z) /\ [i EXCEPT !.value = z] = Elem(z)
      BY <1>1, <2>1, <2>2
    <2> QED BY <1>1, <2>1, <2>2, <2>3 DEF Holds, f
  <1> QED BY <1>2, <1>3 DEF Holds

\* The same for an item with a value that opens.
LEMMA ValueStep ==
  ASSUME NoneIsNoCipher, NEW k \in Nat, NEW a, After(a, k), NEW b, After(b, k),
         NEW p, NEW sets, NEW out, Paired(p, sets, out, a, b), NEW path, NEW n,
         NEW i, Holds(i), OpensBelow(n, i.value), InPlace(p, sets, out),
         ItemStep(a, i, path, sets).x.err = None
  PROVE  LET e == ItemStep(a, i, path, sets)
             d == ItemStep(b, e.items[k + 1], path, out)
         IN  ItemOpens(n, p, sets, out, i, k + 1, e, d)
  <1> DEFINE s == Append(sets, a.own)
             o == Append(out, b.own)
             there == IF i.t = "pair" THEN Append(path, i.key) ELSE path
             r == Walk(a.x, i.value, there, s)
             f == [i EXCEPT !.value = r.v]
             q == Walk(b.x, r.v, there, o)
             e == ItemStep(a, i, path, sets)
             j == e.items[k + 1]
             d == ItemStep(b, j, path, out)
  <1>1. /\ InStep(a.x, b.x) /\ a.x.policy = p /\ Within(p, sets, a.own, out, b.own)
        /\ a.x.err = None /\ b.x.err = None
    BY DEF Paired, InStep
  <1>2. /\ i.t # "comment" /\ f.t = i.t /\ f.value = r.v /\ Holds(f)
        /\ i.t = "pair" => f.key = i.key
        /\ \A z : [f EXCEPT !.value = z] = [i EXCEPT !.value = z]
    <2> HIDE DEF r
    <2> QED BY OtherValue
  <1>3. /\ IsSequence(a.items) /\ Len(a.items) = k /\ IsSequence(b.items) /\ Len(b.items) = k
        /\ \A z : Append(a.items, z)[k + 1] = z /\ Append(b.items, z)[k + 1] = z
    BY AppendAny DEF After
  <1>4. e = [items |-> Append(a.items, f), own |-> <<>>, x |-> r.x]
    BY <1>1, <1>2 DEF ItemStep, WalkItem, Inside
  <1>5. e.x.err = None
    OBVIOUS
  <1> HIDE DEF e
  <1>6. e.x = r.x /\ e.own = <<>> /\ j = f
    BY <1>3, <1>4
  <1>7. r.x.err = None
    <2> HIDE DEF r
    <2> QED BY <1>5, <1>6
  <1>8. InPlace(p, s, o)
    BY <1>1, WithinIs
  <1>9. OpensTo(n, i.value, p, r, q)
    BY <1>1, <1>7, <1>8 DEF OpensBelow
  <1> DEFINE g == [f EXCEPT !.value = q.v]
  <1>10. d = [items |-> Append(b.items, g), own |-> <<>>, x |-> q.x]
    <2>1. there = IF f.t = "pair" THEN Append(path, f.key) ELSE path
      BY <1>2
    <2> HIDE DEF f, q, there, j
    <2>2. d = [items |-> Append(b.items, [j EXCEPT !.value = q.v]), own |-> <<>>, x |-> q.x]
      BY <1>1, <1>2, <1>6, <2>1 DEF ItemStep, WalkItem, Inside, q
    <2> QED BY <1>6, <2>2
  <1> HIDE DEF d, j, r, q, f, g
  <1>11. d.x = q.x /\ d.own = <<>> /\ d.items[k + 1] = g
    BY <1>3, <1>10
  <1>12. Within(p, sets, <<>>, out, <<>>)
    BY NewWithin
  <1>13. Paired(p, sets, out, e, d)
    BY <1>6, <1>9, <1>11, <1>12 DEF Paired, OpensTo
  <1>14. Node("any", n, j) /\ SameKey(i, j)
    BY <1>2, <1>6, <1>9 DEF OpensTo, Node, SameKey
  <1>15. AlikeItem(n, i, d.items[k + 1])
    <2>1. g = [i EXCEPT !.value = q.v] /\ g.value = q.v
      BY <1>2 DEF g, Holds, Pair, Elem
    <2> QED BY <1>9, <1>11, <2>1 DEF AlikeItem, OpensTo
  <1> QED BY <1>13, <1>14, <1>15 DEF ItemOpens, j, e, d, q, f, r

\* A collection is no leaf and has a length.
LEMMA CollectionIs ==
  ASSUME NEW v, IsCollection(v)
  PROVE  v.t # "scalar" /\ Len(v.items) \in Nat
  <1>1. v.t # "scalar"
    BY DEF IsCollection, Mapping, List
  <1>2. PICK I : v.items \in Seq(I)
    BY DEF IsCollection, IsSequence
  <1> QED BY <1>1, <1>2

\* A collection with other items is still one.
LEMMA OtherItems ==
  ASSUME NEW v, IsCollection(v), NEW q, NEW z
  PROVE  LET u == [v EXCEPT !.items = q] IN
         /\ u.t = v.t /\ u.items = q
         /\ IsSequence(q) => IsCollection(u)
         /\ [u EXCEPT !.items = z] = [v EXCEPT !.items = z]
  <1> DEFINE u == [v EXCEPT !.items = q]
  <1>1. \A p, w :
          /\ [Mapping(p) EXCEPT !.items = w] = Mapping(w)
          /\ Mapping(p).t = "map" /\ Mapping(p).items = p
          /\ [List(p) EXCEPT !.items = w] = List(w)
          /\ List(p).t = "seq" /\ List(p).items = p
    BY DEF Mapping, List
  <1>2. CASE v = Mapping(v.items)
    <2>1. u = Mapping(q) /\ [v EXCEPT !.items = z] = Mapping(z) /\ v.t = "map"
      BY <1>1, <1>2
    <2> HIDE DEF u
    <2>2. [u EXCEPT !.items = z] = Mapping(z) /\ u.t = "map" /\ u.items = q
      BY <1>1, <2>1
    <2>3. IsSequence(q) => IsCollection(u)
      BY <2>1, <2>2 DEF IsCollection
    <2> QED BY <2>1, <2>2, <2>3 DEF u
  <1>3. CASE v = List(v.items)
    <2>1. u = List(q) /\ [v EXCEPT !.items = z] = List(z) /\ v.t = "seq"
      BY <1>1, <1>3
    <2> HIDE DEF u
    <2>2. [u EXCEPT !.items = z] = List(z) /\ u.t = "seq" /\ u.items = q
      BY <1>1, <2>1
    <2>3. IsSequence(q) => IsCollection(u)
      BY <2>1, <2>2 DEF IsCollection
    <2> QED BY <2>1, <2>2, <2>3 DEF u
  <1> QED BY <1>2, <1>3 DEF IsCollection

\* The walk at a collection, as a run over its items.
LEMMA WalksCollection ==
  ASSUME WalkIs, NEW kind, NEW n \in Nat, NEW v, Tree(kind, n, v), v.t # "scalar",
         NEW x, NEW path, NEW sets
  PROVE  \E g : /\ Runs(x, v.items, path, sets, g)
                /\ Walk(x, v, path, sets)
                     = [v |-> [v EXCEPT !.items = g[Len(v.items)].items],
                        x |-> g[Len(v.items)].x]
  <1> DEFINE r == WalkAll(x, v.items, path, sets)
  <1>1. Walk(x, v, path, sets) = WalkStep(x, v, path, sets)
    BY DEF WalkIs
  <1>2. WalkStep(x, v, path, sets) = [v |-> [v EXCEPT !.items = r.items], x |-> r.x]
    BY DEF WalkStep
  <1>3. Len(v.items) \in Nat
    BY TreeIs, CollectionIs
  <1> HIDE DEF r
  <1>4. PICK g : Runs(x, v.items, path, sets, g) /\ r = g[Len(v.items)]
    BY <1>3, WalkRuns DEF r
  <1> QED BY <1>1, <1>2, <1>4

\* Item by item, the runs over a collection stay in step to its end.
LEMMA CollectionOpens ==
  ASSUME NoneIsNoCipher, WalkIs, NEW n \in Nat \ {0}, NEW v, Tree("plain", n, v),
         v.t # "scalar", \A u : Tree("plain", n - 1, u) => OpensBelow(n - 1, u)
  PROVE  OpensBelow(n, v)
  <1> SUFFICES ASSUME NEW x, NEW y, NEW path, NEW sets, NEW out,
                      InStep(x, y), InPlace(x.policy, sets, out),
                      Walk(x, v, path, sets).x.err = None
               PROVE  LET e == Walk(x, v, path, sets)
                      IN  OpensTo(n, v, x.policy, e, Walk(y, e.v, path, out))
    BY DEF OpensBelow
  <1> DEFINE p == x.policy
             q == v.items
             L == Len(q)
             e == Walk(x, v, path, sets)
             d == Walk(y, e.v, path, out)
  <1>1. /\ IsCollection(v) /\ \A k \in 1..L : Node("plain", n - 1, q[k])
        /\ n \in Nat /\ n - 1 \in Nat /\ n # 0
    BY TreeIs
  <1>2. L \in Nat /\ 0 \in 0..L /\ L \in 0..L
    <2>1. L \in Nat
      BY <1>1, CollectionIs
    <2> HIDE DEF L
    <2> QED BY <2>1
  <1>3. PICK g : /\ Runs(x, q, path, sets, g)
                 /\ e = [v |-> [v EXCEPT !.items = g[L].items], x |-> g[L].x]
    BY <1>1, WalksCollection
  <1>4. e.x.err = None
    OBVIOUS
  <1> HIDE DEF e
  <1> DEFINE r == g[L].items
  <1>5. /\ e.x = g[L].x /\ e.v = [v EXCEPT !.items = r]
        /\ e.v.items = r /\ e.v.t = v.t /\ (IsSequence(r) => IsCollection(e.v))
        /\ \A z : [e.v EXCEPT !.items = z] = [v EXCEPT !.items = z]
    <2> DEFINE u == [v EXCEPT !.items = r]
    <2>1. e.x = g[L].x /\ e.v = u
      BY <1>3
    <2> HIDE DEF r, L
    <2>2. u.items = r /\ u.t = v.t /\ (IsSequence(r) => IsCollection(u))
      BY <1>1, OtherItems
    <2>3. \A z : [u EXCEPT !.items = z] = [v EXCEPT !.items = z]
      BY <1>1, OtherItems
    <2> HIDE DEF u
    <2>4. \A z : [e.v EXCEPT !.items = z] = [v EXCEPT !.items = z]
      BY <2>1, <2>3
    <2> QED BY <2>1, <2>2, <2>4 DEF u
  <1>6. L = Len(q)
    OBVIOUS
  <1> HIDE DEF L
  <1>7. /\ \A k \in 0..L : After(g[k], k) /\ g[k].x.err = None
        /\ \A k \in 0..L : \A j \in 1..k : g[k].items[j] = g[j].items[j]
    <2>1. g[L].x.err = None
      BY <1>4, <1>5
    <2>2. Grows(g, L)
      BY <1>6, <1>2, <1>3, RunGrows
    <2> QED BY <2>1, <2>2 DEF Grows
  <1>8. IsSequence(r) /\ Len(r) = L
    BY <1>2, <1>7 DEF After
  <1> HIDE DEF r
  <1>9. PICK h : Runs(y, r, path, out, h) /\ WalkAll(y, r, path, out) = h[L]
    BY <1>2, <1>8, WalkRuns
  <1>10. /\ \A k \in 0..L : After(h[k], k)
        /\ \A k \in 0..L : \A j \in 1..k : h[k].items[j] = h[j].items[j]
    <2>1. Grows(h, L)
      BY <1>2, <1>8, <1>9, RunGrows
    <2> QED BY <2>1 DEF Grows
  <1> DEFINE Fits(k) == /\ Node("any", n - 1, r[k]) /\ SameKey(q[k], r[k])
                        /\ AlikeItem(n - 1, q[k], h[L].items[k])
             S == {k \in 0..L : Paired(p, sets, out, g[k], h[k]) /\ \A j \in 1..k : Fits(j)}
  <1>11. 0 \in S
    <2>1. g[0] = Begun(x) /\ h[0] = Begun(y)
      BY <1>3, <1>9 DEF Runs
    <2>2. Begun(x).x = x /\ Begun(x).own = <<>> /\ Begun(y).x = y /\ Begun(y).own = <<>>
      BY DEF Begun
    <2>3. Within(p, sets, <<>>, out, <<>>)
      BY NewWithin
    <2>4. Paired(p, sets, out, g[0], h[0])
      BY <2>1, <2>2, <2>3 DEF Paired
    <2> QED BY <1>2, <2>4
  <1>12. ASSUME NEW k \in 1..L, k - 1 \in S PROVE k \in S
    <2> DEFINE m == k - 1
               a == g[m]
               b == h[m]
    <2>1. /\ m \in Nat /\ m + 1 = k /\ m \in 0..L /\ k \in 0..L /\ L \in 0..L
          /\ k \in 1..L
      BY <1>2
    <2>2. Paired(p, sets, out, a, b) /\ \A j \in 1..m : Fits(j)
      BY <1>12
    <2>3. After(a, m) /\ After(b, m)
      BY <1>7, <1>10, <2>1
    <2>4. g[k] = ItemStep(a, q[k], path, sets) /\ h[k] = ItemStep(b, r[k], path, out)
      BY <1>3, <1>8, <1>9, <1>6 DEF Runs
    <2>5. r[k] = g[k].items[k] /\ h[L].items[k] = h[k].items[k] /\ g[k].x.err = None
      BY <1>7, <1>10, <2>1 DEF r
    <2> HIDE DEF m, a, b, S, Fits
    <2>6. ItemOpens(n - 1, p, sets, out, q[k], k, g[k], h[k])
      <3>1. CASE IsComment("plain", q[k])
        <4>1. q[k] = Comment(q[k].text)
          BY <3>1 DEF IsComment, Comment
        <4> QED BY <2>1, <2>2, <2>3, <2>4, <2>5, <4>1, CommentStep
      <3>2. CASE Holds(q[k]) /\ Tree("plain", n - 1, q[k].value)
        <4>1. OpensBelow(n - 1, q[k].value)
          BY <3>2
        <4> QED BY <2>1, <2>2, <2>3, <2>4, <2>5, <3>2, <4>1, ValueStep
      <3> QED BY <1>1, <3>1, <3>2 DEF Node
    <2>7. Fits(k) /\ Paired(p, sets, out, g[k], h[k])
      BY <2>5, <2>6 DEF ItemOpens, Fits
    <2>8. \A j \in 1..k : j = k \/ j \in 1..m
      BY <2>1
    <2> QED BY <2>1, <2>2, <2>7, <2>8 DEF S
  <1>13. Paired(p, sets, out, g[L], h[L]) /\ \A k \in 1..L : Fits(k)
    <2>1. L \in S
      <3> HIDE DEF S
      <3> QED BY <1>2, <1>11, <1>12, UpThrough
    <2> QED BY <2>1
  <1>14. Tree("any", n, e.v)
    <2>1. IsCollection(e.v) /\ \A k \in 1..Len(e.v.items) : Node("any", n - 1, e.v.items[k])
      BY <1>2, <1>5, <1>8, <1>13
    <2> QED BY <1>1, <2>1, TreeIs
  <1>15. SameKeys(v, e.v)
    BY <1>1, <1>6, <1>5, <1>8, <1>13, CollectionIs DEF SameKeys
  <1>16. d.v = [v EXCEPT !.items = h[L].items] /\ d.x = h[L].x
    <2>1. d = WalkStep(y, e.v, path, out)
      BY <1>1, <1>14 DEF WalkIs
    <2>2. e.v.t # "scalar"
      BY <1>5
    <2>3. WalkStep(y, e.v, path, out)
            = [v |-> [e.v EXCEPT !.items = h[L].items], x |-> h[L].x]
      BY <1>5, <1>9, <2>2 DEF WalkStep
    <2>4. [e.v EXCEPT !.items = h[L].items] = [v EXCEPT !.items = h[L].items]
      BY <1>5
    <2> HIDE DEF d
    <2> QED BY <2>1, <2>3, <2>4
  <1>17. Alike(n, v, d.v)
    <2> HIDE DEF d
    <2>1. d.v.items = h[L].items /\ Len(h[L].items) = L
      <3>1. d.v.items = h[L].items
        <4> DEFINE z == h[L].items
                   u == [v EXCEPT !.items = z]
        <4>1. d.v = u
          BY <1>16
        <4> HIDE DEF z
        <4>2. u.items = z
          BY <1>1, OtherItems
        <4> QED BY <4>1, <4>2 DEF z
      <3> QED BY <1>2, <1>10, <3>1 DEF After
    <2>2. d.v = [v EXCEPT !.items = d.v.items]
      BY <1>16, <2>1
    <2>3. \A k \in 1..L : AlikeItem(n - 1, q[k], d.v.items[k])
      BY <1>13, <2>1
    <2> QED BY <1>1, <1>6, <2>1, <2>2, <2>3, CollectionAlike
  <1> HIDE DEF d
  <1>18. InStep(e.x, d.x) /\ e.x.policy = p
    BY <1>5, <1>13, <1>16 DEF Paired
  <1> QED BY <1>14, <1>15, <1>17, <1>18 DEF OpensTo, e, d

\* Every tree opens, by induction on its depth (UpThrough).
LEMMA AllOpen ==
  ASSUME NoneIsNoCipher, WalkIs, NEW n \in Nat
  PROVE  \A v : Tree("plain", n, v) => OpensBelow(n, v)
  <1> DEFINE S == {m \in 0..n : \A v : Tree("plain", m, v) => OpensBelow(m, v)}
  <1>1. ASSUME NEW m \in 0..n, m = 0 \/ m - 1 \in S PROVE m \in S
    <2> SUFFICES ASSUME NEW v, Tree("plain", m, v) PROVE OpensBelow(m, v)
      OBVIOUS
    <2>1. CASE v.t = "scalar"
      BY <2>1, ScalarOpens
    <2>2. CASE v.t # "scalar"
      <3>1. m \in Nat \ {0}
        BY <2>2, TreeIs
      <3>2. \A u : Tree("plain", m - 1, u) => OpensBelow(m - 1, u)
        BY <1>1, <3>1
      <3> QED BY <2>2, <3>1, <3>2, CollectionOpens
    <2> QED BY <2>1, <2>2
  <1>2. 0 \in S /\ n \in 0..n /\ \A m \in 1..n : m \in 0..n /\ (m - 1 \in S => m \in S)
    BY <1>1
  <1> HIDE DEF S
  <1>3. n \in S
    BY <1>2, UpThrough
  <1> QED BY <1>3 DEF S

\* At the root no comment has been seen.
LEMMA RootPlace ==
  ASSUME NEW p
  PROVE  InPlace(p, <<>>, <<>>)
  <1> DEFINE none == <<>>
  <1>1. none \in Seq(Seq({})) /\ Len(none) = 0
    OBVIOUS
  <1> HIDE DEF none
  <1>2. Comments(none, {})
    BY <1>1 DEF Comments
  <1>3. 1..Len(none) = {}
    BY <1>1
  <1>4. Image(p, none, none)
    BY <1>3 DEF Image
  <1> QED BY <1>1, <1>2, <1>4, Zenon DEF InPlace, none

\* What is written of a policy selects alike.
LEMMA PolicyWritten ==
  ASSUME NEW m, NEW r, \A f \in Stages : r[f] = Kept(m[f])
  PROVE  Selector(r) = Selector(m)
  <1>1. \A f \in Stages : /\ Configured(r, f) <=> Configured(m, f)
                          /\ Configured(m, f) => r[f] = m[f]
    BY DEF Configured, Kept
  <1>2. (\A g \in Stages : ~Configured(r, g)) <=> (\A g \in Stages : ~Configured(m, g))
    BY <1>1
  <1> QED BY <1>1, <1>2 DEF Selector

(***************************************************************************)
(* A tree that the encrypting walk got through, the decrypting walk gets   *)
(* through: every leaf opens, none is taken for sealed that was not, the   *)
(* MAC is fed the same texts in the same order, the comments are where     *)
(* they were, and so is every leaf, as it was or in the form it reads back *)
(* in (walk.rs: walk, in both directions).  For every policy, every tree   *)
(* of any depth and every mixture of comments in it.                       *)
(***************************************************************************)
THEOREM TreeOpens ==
  ASSUME NoneIsNoCipher, WalkIs, NEW n \in Nat, NEW v, Tree("plain", n, v),
         NEW x, NEW y, InStep(x, y), Walk(x, v, <<>>, <<>>).x.err = None
  PROVE  LET e == Walk(x, v, <<>>, <<>>)
             d == Walk(y, e.v, <<>>, <<>>)
         IN  InStep(e.x, d.x) /\ Tree("any", n, e.v) /\ SameKeys(v, e.v) /\ Alike(n, v, d.v)
  <1>1. OpensBelow(n, v)
    BY AllOpen
  <1>2. InPlace(x.policy, <<>>, <<>>)
    BY RootPlace
  <1> QED BY <1>1, <1>2, Zenon DEF OpensBelow, OpensTo

\* What a file has at least.
FileOK(f) ==
    /\ {"t", "tree", "meta"} \subseteq DOMAIN f
    /\ Stages \cup {"keys", "shamir_threshold", "lastmodified", "mac",
                    "mac_only_encrypted", "version"} \subseteq DOMAIN f.meta

(***************************************************************************)
(* What encrypt makes of a file, and writes under its block, is no error   *)
(* to read, opens with the same data key, passes its MAC and is the tree   *)
(* that was encrypted (file.rs: encrypt, from_root, decrypt).  A reader    *)
(* who wants a leaf to verify gets one whenever encrypting met one.  The   *)
(* policy read back is the one that was written, or no leaf would be where *)
(* it is looked for: a stage of it that is lost on the way locks the file. *)
(***************************************************************************)
THEOREM FileOpens ==
  ASSUME NoneIsNoCipher, NoneIsNoValue, WalkIs,
         NEW K, \A k \in K : KeyOK(k),
         NEW f, FileOK(f), f.meta.keys \in Seq(K),
         f.meta.mac_only_encrypted \in BOOLEAN, f.meta.version # None,
         NEW n \in Nat, Tree("plain", n, f.tree), f.tree = Mapping(f.tree.items),
         Named(f.tree, "sops") = {},
         NEW key, NEW stash, NEW by, NEW old, NEW now, NEW width, NEW strict \in BOOLEAN,
         LET r == Walk(Context("encrypt", key, f.meta, stash, by), f.tree, <<>>, <<>>)
         IN  r.x.err = None /\ (strict => r.x.fed # 0)
  PROVE  LET r == Walk(Context("encrypt", key, f.meta, stash, by), f.tree, <<>>, <<>>)
             g == EncryptedRoot(RootOf(Stamped(f, r, old, now)), width)
             d == Walk(Context("decrypt", key, g.meta, {}, 0), g.tree, <<>>, <<>>)
             o == Verified(g, key, d, strict)
         IN  ~IsError(g) /\ ~IsError(o) /\ Alike(n, f.tree, o.tree)
  <1> DEFINE x == Context("encrypt", key, f.meta, stash, by)
             r == Walk(x, f.tree, <<>>, <<>>)
             s == Stamped(f, r, old, now)
             g == EncryptedRoot(RootOf(s), width)
             y == Context("decrypt", key, g.meta, {}, 0)
             d == Walk(y, g.tree, <<>>, <<>>)
             o == Verified(g, key, d, strict)
             mac == SealMac(r.x, now, old)
  <1>1. r.x.err = None /\ (strict => r.x.fed # 0)
    OBVIOUS
  <1> HIDE DEF r
  <1>2. /\ s = [f EXCEPT !.t = "file", !.tree = r.v, !.meta.lastmodified = now,
                         !.meta.mac = mac]
    BY <1>1 DEF Stamped
  <1> HIDE DEF mac
  <1>3. /\ s.tree = r.v
        /\ s.meta = [f.meta EXCEPT !.lastmodified = now, !.mac = mac]
    <2> HIDE DEF s
    <2> QED BY <1>2 DEF FileOK
  <1> HIDE DEF s
  <1>4. /\ \A z \in Stages : s.meta[z] = f.meta[z]
        /\ s.meta.keys = f.meta.keys /\ s.meta.version = f.meta.version
        /\ s.meta.mac_only_encrypted = f.meta.mac_only_encrypted
        /\ s.meta.lastmodified = now /\ s.meta.mac = mac
    <2>1. "lastmodified" \notin Stages /\ "mac" \notin Stages
      BY DEF Stages
    <2> QED BY <1>3, <2>1 DEF FileOK
  <1>5. SameKeys(f.tree, r.v) /\ Tree("any", n, r.v)
    <2>1. InStep(x, Context("decrypt", key, f.meta, {}, 0))
      BY DEF InStep, Context, ContextOK
    <2> HIDE DEF x
    <2> QED BY <1>1, <2>1, TreeOpens DEF r
  <1>6. /\ s.tree = Mapping(s.tree.items) /\ IsSequence(s.tree.items)
        /\ Named(s.tree, "sops") = {}
    <2> DEFINE a == f.tree.items
               b == r.v.items
    <2>1. f.tree = Mapping(a) /\ f.tree.t = "map"
      BY DEF Mapping
    <2>2. /\ r.v = [f.tree EXCEPT !.items = b] /\ Len(b) = Len(a)
          /\ \A k \in 1..Len(a) : SameKey(a[k], b[k])
      BY <1>5, <2>1 DEF SameKeys
    <2> HIDE DEF a, b
    <2>3. r.v = Mapping(b)
      BY <2>1, <2>2 DEF Mapping
    <2>4. r.v.items = b /\ r.v.t = "map"
      BY <2>3 DEF Mapping
    <2>5. IsSequence(a) /\ IsSequence(b)
      BY <1>5, <2>1, <2>4, TreeIs DEF IsCollection, a, b
    <2>6. DOMAIN a = 1..Len(a) /\ DOMAIN b = 1..Len(a)
      BY <2>2, <2>5 DEF IsSequence
    <2>7. \A k \in DOMAIN b : ~(b[k].t = "pair" /\ b[k].key = "sops")
      <3>1. \A k \in DOMAIN a : ~(a[k].t = "pair" /\ a[k].key = "sops")
        BY DEF Named, a
      <3> QED BY <2>2, <2>6, <3>1 DEF SameKey
    <2>8. Named(r.v, "sops") = {}
      BY <2>4, <2>7 DEF Named
    <2> QED BY <1>3, <2>3, <2>4, <2>5, <2>8
  <1> DEFINE M == MetaOf(MetaTree(s.meta))
  <1>7. g = [t |-> "file", tree |-> s.tree, meta |-> M, width |-> width]
    <2>1. PICK I : s.tree.items \in Seq(I)
      BY <1>6 DEF IsSequence
    <2> QED BY <1>4, <1>6, <2>1, FileSurvives
  <1>8. /\ \A z \in Stages : M[z] = Kept(s.meta[z])
        /\ M.lastmodified = now /\ M.mac = mac
        /\ M.mac_only_encrypted = f.meta.mac_only_encrypted
    BY <1>4, BlockSurvives
  <1> HIDE DEF M, g
  <1>9. g.tree = r.v /\ g.meta = M /\ ~IsError(g)
    BY <1>3, <1>7 DEF IsError
  <1>10. Selector(M) = Selector(f.meta)
    <2>1. \A z \in Stages : M[z] = Kept(f.meta[z])
      BY <1>4, <1>8
    <2> QED BY <2>1, PolicyWritten
  <1>11. InStep(x, y)
    BY <1>8, <1>9, <1>10 DEF InStep, Context, ContextOK
  <1> HIDE DEF x, y
  <1>12. InStep(r.x, d.x) /\ Alike(n, f.tree, d.v)
    BY <1>1, <1>9, <1>11, TreeOpens DEF r
  <1> HIDE DEF d
  <1>13. MacMatches(d.x, mac, now)
    BY <1>12, MacAgrees DEF mac
  <1>14. d.x.err = None /\ d.x.fed = r.x.fed
    BY <1>12 DEF InStep
  <1>15. o = [t |-> "open", tree |-> d.v, meta |-> g.meta, width |-> g.width,
              key |-> key, stash |-> d.x.stash, mac |-> g.meta.mac]
    BY <1>1, <1>8, <1>9, <1>13, <1>14 DEF Verified
  <1>16. ~IsError(o) /\ o.tree = d.v
    <2> HIDE DEF o
    <2> QED BY <1>15 DEF IsError
  <1> HIDE DEF o
  <1> QED BY <1>9, <1>12, <1>16 DEF o, d, y, g, s, r, x
===============================================================================
