---------------------------- MODULE SopsFileProofs ----------------------------
(***************************************************************************)
(* Theorems about SopsFile, for any number of commands and leaves, every   *)
(* command line and every document the file may hold at first.             *)
(***************************************************************************)
EXTENDS SopsFile, NaturalSets, FiniteSetTheorems

-----------------------------------------------------------------------------
\* A bounded set of naturals that is not empty has a greatest element.
LEMMA GreatestOf ==
  ASSUME NEW n \in Nat, NEW S \in SUBSET (1..n), S # {}
  PROVE  Max(S) \in S
  <1> DEFINE T == {n - x : x \in S}
  <1>1. T \in SUBSET Nat /\ T # {}
    <2>1. \A x \in S : n - x \in Nat
      OBVIOUS
    <2> QED BY <2>1
  <1>2. PICK k \in T : \A y \in T : k <= y
    BY <1>1, LeastOf
  <1>3. PICK m \in S : k = n - m
    OBVIOUS
  <1>4. \A x \in S : m >= x
    BY <1>2, <1>3
  <1> QED BY <1>4 DEF Max

LEMMA LastSlot == ASSUME NEW S \in SUBSET Slots, S # {} PROVE Max(S) \in S
  <1>1. Cardinality(Slots) \in Nat /\ Slots = 1..Cardinality(Slots)
    BY SopsFileAssumption, FS_CardinalityType
  <1> QED BY <1>1, GreatestOf

LEMMA SlotsAreNumbers == Slots \subseteq Nat \ {0}
  <1>1. Cardinality(Slots) \in Nat /\ Slots = 1..Cardinality(Slots)
    BY SopsFileAssumption, FS_CardinalityType
  <1> QED BY <1>1
-----------------------------------------------------------------------------
\* What encryption recalls is the nonce of a leaf with that value there.
LEMMA RecallsATwin ==
  ASSUME NEW d \in SopsDocs, NEW i \in Invocations, NEW s \in Slots, NEW v
  PROVE  LET r == Recall(StashOf(d, i), s, v) IN
         \/ Twins(d, Aad[s], v) = {} /\ r = None
         \/ \E t \in Twins(d, Aad[s], v) : r = d.cell[t].nonce /\ r \in Nonces
  <1> DEFINE st == StashOf(d, i)
             T  == Twins(d, Aad[s], v)
  <1>1. st # None /\ st.cell = d.cell
    <2>1. st \in Stashes
      BY SopsFileAssumption DEF StashOf, Stashes, SopsDocs, Lines
    <2> QED BY <2>1, SopsFileAssumption DEF StashOf
  <1>2. Twins(st, Aad[s], v) = T
    BY <1>1 DEF Twins
  <1>3. Recall(st, s, v) = IF T = {} THEN None ELSE d.cell[Max(T)].nonce
    BY <1>1, <1>2 DEF Recall
  <1>4. ASSUME T # {}
        PROVE  Max(T) \in T /\ d.cell[Max(T)].nonce \in Nonces
    <2>1. Max(T) \in T
      BY <1>4, LastSlot DEF Twins
    <2> QED BY <2>1 DEF Twins, SopsDocs, Cells
  <1> QED BY <1>3, <1>4

LEMMA RecallsNothing ==
  \A s, v, now : Recall(None, s, v) = None /\ RecallMac(None, v, now) = None
  BY DEF Recall, RecallMac

LEMMA RecallsTheMac ==
  ASSUME NEW d \in SopsDocs, NEW i \in Invocations, NEW val, NEW now
  PROVE  LET r == RecallMac(StashOf(d, i), val, now) IN
         \/ r = None
         \/ r = d.mac.nonce /\ r \in Nonces /\ d.mac.of = val /\ d.mac.at = now
  BY DEF RecallMac, StashOf, SopsDocs, Macs
-----------------------------------------------------------------------------
\* What encrypt() makes, whatever nonces it recalls.
LEMMA SealShape ==
  ASSUME NEW c \in Cmds, NEW d, d.age \in AgeLists, d.other \in SUBSET Others,
         NEW val \in LeafMaps, NEW key \in Inodes, NEW stash, NEW now \in Times,
         \A s \in Slots : Nonce(Recall(stash, s, val[s]), c, s) \in Nonces,
         Nonce(RecallMac(stash, val, now), c, 0) \in Nonces
  PROVE  LET b == Seal(c, d, val, key, stash, now) IN
         /\ b \in SopsDocs
         /\ ValOf(b) = val /\ Verifies(b)
         /\ b.key = key /\ b.age = d.age /\ b.other = d.other
         /\ \A s \in Leaves(val) :
              b.cell[s].nonce = Nonce(Recall(stash, s, val[s]), c, s)
         /\ b.mac.nonce = Nonce(RecallMac(stash, val, now), c, 0)
         /\ b.mac.of = val /\ b.mac.at = now
  <1> DEFINE b == Seal(c, d, val, key, stash, now)
             cell == [s \in Slots |->
                        IF val[s] = Absent THEN Absent
                        ELSE [val   |-> val[s],
                              nonce |-> Nonce(Recall(stash, s, val[s]), c, s)]]
             mac == [of |-> val, at |-> now,
                     nonce |-> Nonce(RecallMac(stash, val, now), c, 0)]
  <1>1. b = [kind |-> "sops", key |-> key, age |-> d.age, other |-> d.other,
             time |-> now, cell |-> cell, mac |-> mac]
    BY DEF Seal
  <1>2. \A s \in Slots : val[s] \in Vals \cup {Absent}
    BY DEF LeafMaps
  <1>3. ASSUME NEW s \in Leaves(val)
        PROVE  /\ cell[s].val = val[s]
               /\ cell[s].nonce = Nonce(Recall(stash, s, val[s]), c, s)
               /\ cell[s] \in Cells
    <2>1. s \in Slots /\ val[s] \in Vals
      BY <1>2 DEF Leaves
    <2>2. cell[s] = [val   |-> val[s],
                     nonce |-> Nonce(Recall(stash, s, val[s]), c, s)]
      BY <2>1 DEF Leaves
    <2> HIDE DEF cell
    <2> QED BY <2>1, <2>2 DEF Cells
  <1>4. cell \in [Slots -> Cells \cup {Absent}]
    BY <1>3 DEF Leaves
  <1>5. mac \in Macs
    BY DEF Macs
  <1>6. mac.of = val /\ mac.at = now
        /\ mac.nonce = Nonce(RecallMac(stash, val, now), c, 0)
    OBVIOUS
  <1>7. \A s \in Slots \ Leaves(val) : cell[s] = Absent /\ val[s] = Absent
    BY DEF Leaves
  <1> HIDE DEF cell, mac
  <1>8. b \in SopsDocs
    BY <1>1, <1>4, <1>5 DEF SopsDocs
  <1>9. ValOf(b) = val
    <2>1. \A s \in Slots :
            (IF cell[s] = Absent THEN Absent ELSE cell[s].val) = val[s]
      BY <1>3, <1>7, SopsFileAssumption
    <2> QED BY <1>1, <2>1 DEF ValOf, LeafMaps
  <1>10. Verifies(b)
    BY <1>1, <1>6, <1>9 DEF Verifies
  <1> QED BY <1>1, <1>3, <1>6, <1>8, <1>9, <1>10

\* A nonce that is drawn is the command's own, one for each leaf.
LEMMA DrawnNonces ==
  ASSUME NEW c \in Cmds
  PROVE  /\ \A s \in Slots : Nonce(None, c, s) = <<c, s>> /\ <<c, s>> \in Nonces
         /\ Nonce(None, c, 0) = <<c, 0>> /\ <<c, 0>> \in Nonces
         /\ \A r \in Nonces : \A s : Nonce(r, c, s) = r
  BY SlotsAreNumbers, SopsFileAssumption DEF Nonce, Nonces, Inodes

\* encrypt and rotate draw every nonce.
LEMMA SealAnew ==
  ASSUME NEW c \in Cmds, NEW d, d.age \in AgeLists, d.other \in SUBSET Others,
         NEW val \in LeafMaps, NEW key \in Inodes, NEW now \in Times
  PROVE  LET b == Seal(c, d, val, key, None, now) IN
         /\ b \in SopsDocs
         /\ ValOf(b) = val /\ Verifies(b)
         /\ b.key = key /\ b.age = d.age /\ b.other = d.other
         /\ \A s \in Leaves(val) : b.cell[s].nonce = <<c, s>>
         /\ b.mac.nonce = <<c, 0>>
  <1> DEFINE b == Seal(c, d, val, key, None, now)
  <1>1. ASSUME NEW s \in Slots
        PROVE  /\ Nonce(Recall(None, s, val[s]), c, s) = <<c, s>>
               /\ Nonce(Recall(None, s, val[s]), c, s) \in Nonces
    <2>1. Recall(None, s, val[s]) = None
      BY RecallsNothing
    <2> QED BY <2>1, DrawnNonces
  <1>2. /\ Nonce(RecallMac(None, val, now), c, 0) = <<c, 0>>
        /\ Nonce(RecallMac(None, val, now), c, 0) \in Nonces
    <2>1. RecallMac(None, val, now) = None
      BY RecallsNothing
    <2> QED BY <2>1, DrawnNonces
  <1>3. /\ b \in SopsDocs
        /\ ValOf(b) = val /\ Verifies(b)
        /\ b.key = key /\ b.age = d.age /\ b.other = d.other
        /\ \A s \in Leaves(val) :
             b.cell[s].nonce = Nonce(Recall(None, s, val[s]), c, s)
        /\ b.mac.nonce = Nonce(RecallMac(None, val, now), c, 0)
    <2>1. \A s \in Slots : Nonce(Recall(None, s, val[s]), c, s) \in Nonces
      BY <1>1
    <2>2. Nonce(RecallMac(None, val, now), c, 0) \in Nonces
      BY <1>2
    <2> QED BY <2>1, <2>2, SealShape
  <1> HIDE DEF b
  <1>4. \A s \in Leaves(val) : s \in Slots
    BY DEF Leaves
  <1>5. \A s \in Leaves(val) : b.cell[s].nonce = <<c, s>>
    BY <1>1, <1>3, <1>4
  <1>6. b.mac.nonce = <<c, 0>>
    BY <1>2, <1>3
  <1> QED BY <1>3, <1>5, <1>6 DEF b

\* edit, set and unset keep the nonce of a value that was there before.
LEMMA SealAgain ==
  ASSUME NEW c \in Cmds, NEW d \in SopsDocs, NEW i \in Invocations,
         NEW val \in LeafMaps, NEW now \in Times
  PROVE  LET b == Seal(c, d, val, d.key, StashOf(d, i), now) IN
         /\ b \in SopsDocs
         /\ ValOf(b) = val /\ Verifies(b)
         /\ b.key = d.key /\ b.age = d.age /\ b.other = d.other
         /\ \A s \in Leaves(val) :
              \/ Twins(d, Aad[s], val[s]) = {} /\ b.cell[s].nonce = <<c, s>>
              \/ \E t \in Twins(d, Aad[s], val[s]) : b.cell[s].nonce = d.cell[t].nonce
         /\ \/ b.mac.nonce = <<c, 0>>
            \/ b.mac.nonce = d.mac.nonce /\ b.mac.of = d.mac.of /\ b.mac.at = d.mac.at
  <1> DEFINE st == StashOf(d, i)
             b == Seal(c, d, val, d.key, st, now)
  <1>1. d.key \in Inodes /\ d.age \in AgeLists /\ d.other \in SUBSET Others
    BY DEF SopsDocs
  <1>2. ASSUME NEW s \in Slots
        PROVE  /\ Nonce(Recall(st, s, val[s]), c, s) \in Nonces
               /\ \/ /\ Twins(d, Aad[s], val[s]) = {}
                     /\ Nonce(Recall(st, s, val[s]), c, s) = <<c, s>>
                  \/ \E t \in Twins(d, Aad[s], val[s]) :
                       Nonce(Recall(st, s, val[s]), c, s) = d.cell[t].nonce
    <2>1. \/ Twins(d, Aad[s], val[s]) = {} /\ Recall(st, s, val[s]) = None
          \/ \E t \in Twins(d, Aad[s], val[s]) :
               /\ Recall(st, s, val[s]) = d.cell[t].nonce
               /\ Recall(st, s, val[s]) \in Nonces
      BY RecallsATwin
    <2> HIDE DEF st
    <2> QED BY <2>1, DrawnNonces
  <1>3. /\ Nonce(RecallMac(st, val, now), c, 0) \in Nonces
        /\ \/ Nonce(RecallMac(st, val, now), c, 0) = <<c, 0>>
           \/ /\ Nonce(RecallMac(st, val, now), c, 0) = d.mac.nonce
              /\ d.mac.of = val /\ d.mac.at = now
    <2>1. \/ RecallMac(st, val, now) = None
          \/ /\ RecallMac(st, val, now) = d.mac.nonce
             /\ RecallMac(st, val, now) \in Nonces
             /\ d.mac.of = val /\ d.mac.at = now
      BY RecallsTheMac
    <2> HIDE DEF st
    <2> QED BY <2>1, DrawnNonces
  <1> HIDE DEF st
  <1>4. /\ b \in SopsDocs
        /\ ValOf(b) = val /\ Verifies(b)
        /\ b.key = d.key /\ b.age = d.age /\ b.other = d.other
        /\ \A s \in Leaves(val) :
             b.cell[s].nonce = Nonce(Recall(st, s, val[s]), c, s)
        /\ b.mac.nonce = Nonce(RecallMac(st, val, now), c, 0)
        /\ b.mac.of = val /\ b.mac.at = now
    <2>1. \A s \in Slots : Nonce(Recall(st, s, val[s]), c, s) \in Nonces
      BY <1>2
    <2>2. Nonce(RecallMac(st, val, now), c, 0) \in Nonces
      BY <1>3
    <2> QED BY <1>1, <2>1, <2>2, SealShape
  <1> HIDE DEF b
  <1>5. \A s \in Leaves(val) :
          \/ Twins(d, Aad[s], val[s]) = {} /\ b.cell[s].nonce = <<c, s>>
          \/ \E t \in Twins(d, Aad[s], val[s]) : b.cell[s].nonce = d.cell[t].nonce
    <2>1. \A s \in Leaves(val) : s \in Slots
      BY DEF Leaves
    <2> QED BY <1>2, <1>4, <2>1
  <1>6. \/ b.mac.nonce = <<c, 0>>
        \/ b.mac.nonce = d.mac.nonce /\ b.mac.of = d.mac.of /\ b.mac.at = d.mac.at
    BY <1>3, <1>4
  <1> QED BY <1>4, <1>5, <1>6 DEF b, st
-----------------------------------------------------------------------------
(***************************************************************************)
(* What a command may make of the document it read: this outlives the step *)
(* that computes it, so every later step knows where a body comes from.    *)
(***************************************************************************)
Made(c, i, d, b) ==
    \/ /\ i.verb = "decrypt" /\ OpensStream(d, i)
       /\ b = [kind |-> "plain", val |-> ValOf(d)]
    \/ /\ i.verb = "encrypt" /\ d.kind = "plain"
       /\ \E now \in Times : b = Seal(c, NewFile(i.age), d.val, c, None, now)
    \/ /\ i.verb = "rotate" /\ Opens(d, i)
       /\ \E now \in Times :
            b = Seal(c, Rewrap(d, d.age), ValOf(d), c, None, now)
    \/ /\ i.verb = "updatekeys" /\ d.kind = "sops" /\ i.age # d.age
       /\ b = Rewrap(d, i.age)
    \/ /\ i.verb \in {"edit", "set", "unset"} /\ Opens(d, i)
       /\ \E now \in Times, val \in LeafMaps :
            b = Seal(c, d, val, d.key, StashOf(d, i), now)

Editing == {"mkdir", "scratch", "editor", "reseal"}
Saving  == {"create", "write", "chmod", "rename"}

\* What a command holds, by where it is.
RunOK(c, p) ==
    /\ p.pc = "start" => p.inv = None
    /\ p.inv = None <=> p.src = None
    /\ p.inv = None => p.pc \in {"start", "killed"} /\ p.body = None /\ p.exit = None
                       /\ ~p.guard
    /\ p.pc \in Editing => /\ p.inv.verb = "edit" /\ Opens(p.src, p.inv)
                           /\ p.body = None /\ p.exit = None
                           /\ p.guard <=> p.pc # "mkdir"
    /\ p.pc = "reseal" => p.scratch # None
    /\ p.pc \in Saving => p.body # None /\ p.exit = None /\ p.inv.to \in {"file", "out"}
    /\ p.pc \in Saving \ {"create"} => p.fd # None
    /\ p.pc = "print" => p.exit = None /\ p.inv.to = "stdout"
    /\ p.pc \in {"shred", "ended"} => p.exit # None
    /\ ~p.guard \/ p.pc = "ended" => p.scratch = None
    /\ p.body # None => Made(c, p.inv, p.src, p.body)

TypeInv == TypeOK /\ \A c \in Cmds : RunOK(c, proc[c])

LEMMA DocKinds ==
  /\ \A d \in PlainDocs : d.kind = "plain" /\ d.val \in LeafMaps
  /\ \A d \in SopsDocs : d.kind = "sops"
  /\ Torn.kind = "torn"
  BY DEF PlainDocs, SopsDocs, Torn

LEMMA ValuesOf == ASSUME NEW d \in Docs PROVE ValOf(d) \in LeafMaps
  <1>1. CASE d \in PlainDocs
    BY <1>1 DEF PlainDocs, ValOf
  <1>2. CASE d \in SopsDocs
    <2>1. \A s \in Slots :
            (IF d.cell[s] = Absent THEN Absent ELSE d.cell[s].val) \in Vals \cup {Absent}
      BY <1>2 DEF SopsDocs, Cells
    <2>2. d.kind = "sops"
      BY <1>2, DocKinds
    <2> QED BY <2>1, <2>2 DEF ValOf, LeafMaps
  <1> QED BY <1>1, <1>2 DEF Docs

LEMMA InitType == Init => TypeInv
  <1> SUFFICES ASSUME Init PROVE TypeInv OBVIOUS
  <1>1. Idle \in Commands
    BY DEF Idle, Commands, Phases
  <1>2. TypeOK
    BY <1>1, SopsFileAssumption DEF Init, TypeOK, Inodes, Idle, At, Writing
  <1>3. \A c \in Cmds : RunOK(c, proc[c])
    BY DEF Init, Idle, RunOK, Editing, Saving
  <1> QED BY <1>2, <1>3 DEF TypeInv

LEMMA MakeScratchDirType ==
  ASSUME NEW c \in Cmds, TypeInv, MakeScratchDir(c)
  PROVE  TypeInv'
  <1>1. TypeOK'
    BY DEF TypeInv, TypeOK, MakeScratchDir, Commands, Phases, At, Writing
  <1>2. ASSUME NEW d \in Cmds PROVE RunOK(d, proc[d])'
    BY DEF TypeInv, TypeOK, RunOK, MakeScratchDir, Commands, At, Editing, Saving
  <1> QED BY <1>1, <1>2 DEF TypeInv

LEMMA WriteScratchType ==
  ASSUME NEW c \in Cmds, TypeInv, WriteScratch(c)
  PROVE  TypeInv'
  <1>1. TypeOK'
    BY ValuesOf DEF TypeInv, TypeOK, WriteScratch, Commands, Phases, At, Writing, Docs
  <1>2. ASSUME NEW d \in Cmds PROVE RunOK(d, proc[d])'
    BY ValuesOf DEF TypeInv, TypeOK, RunOK, WriteScratch, Commands, At, Editing, Saving, Docs
  <1> QED BY <1>1, <1>2 DEF TypeInv

LEMMA EditorSavesType ==
  ASSUME NEW c \in Cmds, TypeInv, EditorSaves(c)
  PROVE  TypeInv'
  <1>1. TypeOK'
    BY DEF TypeInv, TypeOK, EditorSaves, Commands, Phases, At, Writing, Edits, LeafMaps
  <1>2. ASSUME NEW d \in Cmds PROVE RunOK(d, proc[d])'
    BY DEF TypeInv, TypeOK, RunOK, EditorSaves, Commands, At, Editing, Saving, Edits, LeafMaps
  <1> QED BY <1>1, <1>2 DEF TypeInv

LEMMA ShredType ==
  ASSUME NEW c \in Cmds, TypeInv, Shred(c)
  PROVE  TypeInv'
  <1>1. TypeOK'
    BY DEF TypeInv, TypeOK, Shred, Commands, Phases, At, Writing
  <1>2. ASSUME NEW d \in Cmds PROVE RunOK(d, proc[d])'
    BY DEF TypeInv, TypeOK, RunOK, Shred, Commands, At, Editing, Saving
  <1> QED BY <1>1, <1>2 DEF TypeInv

\* What the steps of one command share: the others are where they were.
Moves(c) == /\ proc' \in [Cmds -> Commands]
            /\ \A d \in Cmds \ {c} : proc'[d] = proc[d]

LEMMA ReturnLeads ==
  ASSUME TypeOK, NEW c \in Cmds, NEW code \in Exits, Return(c, code)
  PROVE  /\ Moves(c)
         /\ proc'[c].exit = code
         /\ proc'[c].pc = IF proc[c].guard THEN "shred" ELSE "ended"
         /\ proc'[c].inv = proc[c].inv /\ proc'[c].src = proc[c].src
         /\ proc'[c].body = proc[c].body /\ proc'[c].fd = proc[c].fd
         /\ proc'[c].guard = proc[c].guard /\ proc'[c].scratch = proc[c].scratch
  <1> DEFINE p == proc[c]
             q == Returned(p, code)
  <1>1. p \in Commands /\ proc \in [Cmds -> Commands]
    BY DEF TypeOK
  <1>2. proc' = [proc EXCEPT ![c] = q]
    BY DEF Return
  <1> HIDE DEF p
  <1>3. /\ q.exit = code /\ q.pc = IF p.guard THEN "shred" ELSE "ended"
        /\ q.inv = p.inv /\ q.src = p.src /\ q.body = p.body /\ q.fd = p.fd
        /\ q.guard = p.guard /\ q.scratch = p.scratch
    BY <1>1 DEF Returned, Commands
  <1>4. q \in Commands
    BY <1>1 DEF Returned, Commands, Phases
  <1> HIDE DEF q
  <1> QED BY <1>1, <1>2, <1>3, <1>4 DEF p, Moves

\* A command returns from a phase in which nothing but its exit is missing.
LEMMA ReturnType ==
  ASSUME NEW c \in Cmds, NEW code \in Exits, TypeInv, Return(c, code),
         proc[c].pc \in Editing \cup Saving \cup {"print"},
         names' \in [{"file", "file.tmp", "out", "out.tmp"} -> Inodes \cup {None}],
         names'["file"] # None,
         private' \in [Inodes -> BOOLEAN],
         data' \in [Inodes -> Docs \cup {Torn}]
  PROVE  TypeInv'
  <1>1. code # None
    BY SopsFileAssumption
  <1>2. TypeOK'
    BY <1>1, ReturnLeads DEF TypeInv, TypeOK, At, Writing, Moves
  <1>3. RunOK(c, proc'[c])
    BY <1>1, ReturnLeads DEF TypeInv, RunOK, Editing, Saving
  <1>4. \A d \in Cmds \ {c} : RunOK(d, proc'[d])
    BY ReturnLeads DEF TypeInv, Moves
  <1> QED BY <1>2, <1>3, <1>4 DEF TypeInv

LEMMA ToStdoutType ==
  ASSUME NEW c \in Cmds, TypeInv, ToStdout(c)
  PROVE  TypeInv'
  <1> USE DEF Exits
  <1> QED BY ReturnType DEF ToStdout, TypeInv, TypeOK, At

LEMMA FailsType ==
  ASSUME NEW c \in Cmds, TypeInv, Fails(c)
  PROVE  TypeInv'
  <1>1. Return(c, "failed")
    BY DEF Fails, MakeScratchDirFails, WriteScratchFails, EditorFails, CreateFails,
       WriteFails, ChmodFails, RenameFails
  <1>2. proc[c].pc \in Editing \cup Saving
    BY DEF Fails, MakeScratchDirFails, WriteScratchFails, EditorFails, CreateFails,
       WriteFails, ChmodFails, RenameFails, At, Editing, Saving
  <1>3. /\ names' \in [{"file", "file.tmp", "out", "out.tmp"} -> Inodes \cup {None}]
        /\ names'["file"] # None
        /\ private' = private
        /\ data' \in [Inodes -> Docs \cup {Torn}]
    BY DEF TypeInv, TypeOK, Fails, MakeScratchDirFails, WriteScratchFails, EditorFails,
       CreateFails, WriteFails, ChmodFails, RenameFails, Tmp, Temp
  <1>4. private' \in [Inodes -> BOOLEAN] /\ "failed" \in Exits
    BY <1>3 DEF TypeInv, TypeOK, Exits
  <1> QED BY <1>1, <1>2, <1>3, <1>4, ReturnType

LEMMA KillType ==
  ASSUME NEW c \in Cmds, TypeInv, Kill(c)
  PROVE  TypeInv'
  <1>1. TypeOK'
    BY DEF TypeInv, TypeOK, Kill, Commands, Phases, At, Writing
  <1>2. ASSUME NEW d \in Cmds PROVE RunOK(d, proc[d])'
    BY DEF TypeInv, TypeOK, RunOK, Kill, Commands, At, Editing, Saving
  <1> QED BY <1>1, <1>2 DEF TypeInv
-----------------------------------------------------------------------------
LEMMA Rewrapped ==
  ASSUME NEW d \in SopsDocs, NEW age \in AgeLists
  PROVE  LET b == Rewrap(d, age) IN
         /\ b \in SopsDocs
         /\ b.kind = "sops" /\ b.key = d.key /\ b.cell = d.cell /\ b.time = d.time
         /\ b.mac = d.mac /\ b.age = age /\ b.other = {}
         /\ ValOf(b) = ValOf(d)
  <1> DEFINE b == Rewrap(d, age)
  <1>1. /\ b \in SopsDocs
        /\ b.kind = "sops" /\ b.key = d.key /\ b.cell = d.cell /\ b.time = d.time
        /\ b.mac = d.mac /\ b.age = age /\ b.other = {}
    BY DEF Rewrap, SopsDocs
  <1> HIDE DEF b
  <1>2. ValOf(b) = ValOf(d)
    BY <1>1, DocKinds DEF ValOf
  <1> QED BY <1>1, <1>2 DEF b

\* What a command makes is a document, and a sealed one verifies, but for what
\* updatekeys leaves as it was.
LEMMA MadeIsDoc ==
  ASSUME NEW c \in Cmds, NEW i \in Invocations, NEW d \in Docs \cup {Torn}, NEW b,
         Made(c, i, d, b)
  PROVE  /\ b \in Docs
         /\ i.verb = "decrypt" \/ b.kind = "sops"
         /\ b.kind = "sops" => Verifies(b) \/ (d.kind = "sops" /\ ValOf(b) = ValOf(d)
                                               /\ b.mac = d.mac /\ b.time = d.time)
  <1>1. i \in Lines
    BY SopsFileAssumption
  <1>2. /\ d.kind = "plain" => d \in PlainDocs /\ d.val \in LeafMaps
        /\ d.kind = "sops" => d \in SopsDocs /\ ValOf(d) \in LeafMaps
        /\ d.kind = "sops" => d.age \in AgeLists /\ d.other \in SUBSET Others
    BY DocKinds, ValuesOf DEF Docs, SopsDocs
  <1>3. c \in Inodes
    BY DEF Inodes
  <1>4. CASE i.verb = "decrypt" /\ OpensStream(d, i)
             /\ b = [kind |-> "plain", val |-> ValOf(d)]
    BY <1>2, <1>4 DEF OpensStream, PlainDocs, Docs
  <1>5. CASE /\ i.verb = "encrypt" /\ d.kind = "plain"
             /\ \E now \in Times : b = Seal(c, NewFile(i.age), d.val, c, None, now)
    <2>1. NewFile(i.age).age \in AgeLists /\ NewFile(i.age).other \in SUBSET Others
      BY <1>1 DEF NewFile, Lines
    <2>2. PICK now \in Times : b = Seal(c, NewFile(i.age), d.val, c, None, now)
      BY <1>5
    <2>3. b \in SopsDocs /\ Verifies(b)
      BY <1>2, <1>3, <1>5, <2>1, <2>2, SealAnew
    <2> QED BY <2>3, DocKinds DEF Docs
  <1>6. CASE /\ i.verb = "rotate" /\ Opens(d, i)
             /\ \E now \in Times :
                  b = Seal(c, Rewrap(d, d.age), ValOf(d), c, None, now)
    <2>1. d \in SopsDocs
      BY <1>2, <1>6 DEF Opens
    <2>2. /\ Rewrap(d, d.age).age \in AgeLists
          /\ Rewrap(d, d.age).other \in SUBSET Others
      BY <1>2, <2>1, Rewrapped, DocKinds
    <2>3. PICK now \in Times : b = Seal(c, Rewrap(d, d.age), ValOf(d), c, None, now)
      BY <1>6
    <2>4. b \in SopsDocs /\ Verifies(b)
      BY <1>2, <1>3, <2>1, <2>2, <2>3, SealAnew, DocKinds
    <2> QED BY <2>4, DocKinds DEF Docs
  <1>7. CASE i.verb = "updatekeys" /\ d.kind = "sops" /\ i.age # d.age
             /\ b = Rewrap(d, i.age)
    <2>1. i.age \in AgeLists
      BY <1>1 DEF Lines
    <2> QED BY <1>2, <1>7, <2>1, Rewrapped DEF Docs
  <1>8. CASE /\ i.verb \in {"edit", "set", "unset"} /\ Opens(d, i)
             /\ \E now \in Times, val \in LeafMaps :
                  b = Seal(c, d, val, d.key, StashOf(d, i), now)
    <2>1. d \in SopsDocs
      BY <1>2, <1>8 DEF Opens
    <2>2. PICK now \in Times, val \in LeafMaps :
                  b = Seal(c, d, val, d.key, StashOf(d, i), now)
      BY <1>8
    <2>3. b \in SopsDocs /\ Verifies(b)
      BY <2>1, <2>2, SealAgain
    <2> QED BY <2>3, DocKinds DEF Docs
  <1> QED BY <1>4, <1>5, <1>6, <1>7, <1>8 DEF Made
-----------------------------------------------------------------------------
LEMMA GoesType ==
  ASSUME TypeInv, NEW c \in Cmds, NEW i \in Invocations, NEW body,
         At(c, "start"), Goes(c, i, body), Made(c, i, File, body),
         UNCHANGED <<data, private, names>>
  PROVE  /\ TypeInv'
         /\ Moves(c)
         /\ proc'[c].src = File /\ proc'[c].body = body /\ proc'[c].inv = i
         /\ proc'[c].fd = proc[c].fd
  <1> DEFINE p == proc[c]
             q == [p EXCEPT !.inv = i, !.src = File, !.body = body,
                            !.pc = IF i.to = "stdout" THEN "print" ELSE "create"]
  <1>1. p \in Commands /\ proc \in [Cmds -> Commands] /\ RunOK(c, p)
        /\ p.pc = "start"
    BY DEF TypeInv, TypeOK, At
  <1>2. proc' = [proc EXCEPT ![c] = q]
    BY DEF Goes
  <1>3. File \in Docs \cup {Torn} /\ File # None
    BY SopsFileAssumption DEF TypeInv, TypeOK, File
  <1>4. body \in Docs /\ body # None
    BY <1>3, MadeIsDoc, SopsFileAssumption
  <1>5. i \in Lines /\ i # None
    BY SopsFileAssumption
  <1> HIDE DEF p
  <1>6. /\ q.inv = i /\ q.src = File /\ q.body = body
        /\ q.pc = IF i.to = "stdout" THEN "print" ELSE "create"
        /\ q.fd = p.fd /\ q.exit = p.exit /\ q.guard = p.guard
        /\ q.scratch = p.scratch
    BY <1>1 DEF Commands
  <1>7. q \in Commands
    BY <1>1, <1>3, <1>4 DEF Commands, Phases
  <1> HIDE DEF q
  <1>8. proc'[c] = q /\ Moves(c)
    BY <1>1, <1>2, <1>7 DEF Moves
  <1>9. TypeOK'
    BY <1>1, <1>6, <1>7, <1>8 DEF TypeInv, TypeOK, At, Writing, Moves
  <1>10. RunOK(c, q)
    BY <1>1, <1>3, <1>4, <1>5, <1>6 DEF RunOK, Editing, Saving, Lines
  <1>11. \A d \in Cmds \ {c} : RunOK(d, proc'[d])
    BY <1>8 DEF TypeInv, Moves
  <1> QED BY <1>6, <1>8, <1>9, <1>10, <1>11 DEF TypeInv, p

LEMMA ReadType ==
  ASSUME TypeInv, NEW c \in Cmds, NEW i \in Invocations, NEW code \in Exits,
         At(c, "start"), Read(c, i, code), UNCHANGED <<data, private, names>>
  PROVE  /\ TypeInv'
         /\ Moves(c)
         /\ proc'[c].src = File /\ proc'[c].body = None /\ proc'[c].inv = i
         /\ proc'[c].fd = proc[c].fd
         /\ proc'[c].exit = code /\ proc'[c].pc = "ended"
  <1> DEFINE p == proc[c]
             r == [p EXCEPT !.inv = i, !.src = File]
             q == Returned(r, code)
  <1>1. p \in Commands /\ proc \in [Cmds -> Commands] /\ RunOK(c, p)
        /\ p.pc = "start"
    BY DEF TypeInv, TypeOK, At
  <1>2. proc' = [proc EXCEPT ![c] = q]
    BY DEF Read
  <1>3. File \in Docs \cup {Torn} /\ File # None
    BY SopsFileAssumption DEF TypeInv, TypeOK, File
  <1>4. i # None /\ code # None
    BY SopsFileAssumption
  <1> HIDE DEF p
  <1>5. /\ r.inv = i /\ r.src = File /\ r.body = p.body /\ r.fd = p.fd
        /\ r.guard = p.guard /\ r.scratch = p.scratch /\ r \in Commands
    BY <1>1, <1>3 DEF Commands
  <1> HIDE DEF r
  <1>6. /\ q.inv = i /\ q.src = File /\ q.body = p.body /\ q.fd = p.fd
        /\ q.guard = p.guard /\ q.scratch = p.scratch /\ q \in Commands
        /\ q.exit = code /\ q.pc = IF r.guard THEN "shred" ELSE "ended"
    BY <1>5 DEF Commands, Returned, Phases
  <1> HIDE DEF q
  <1>7. proc'[c] = q /\ Moves(c)
    BY <1>1, <1>2, <1>6 DEF Moves
  <1>8. ~r.guard /\ p.body = None
    BY <1>1, <1>5 DEF RunOK
  <1>9. TypeOK'
    BY <1>1, <1>4, <1>6, <1>7, <1>8 DEF TypeInv, TypeOK, At, Writing, Moves
  <1>10. RunOK(c, q)
    BY <1>1, <1>3, <1>4, <1>5, <1>6, <1>8 DEF RunOK, Editing, Saving
  <1>11. \A d \in Cmds \ {c} : RunOK(d, proc'[d])
    BY <1>7 DEF TypeInv, Moves
  <1> QED BY <1>6, <1>7, <1>8, <1>9, <1>10, <1>11 DEF TypeInv, p

LEMMA EditType ==
  ASSUME TypeInv, NEW c \in Cmds, NEW i \in Invocations,
         At(c, "start"), Edit(c, i), UNCHANGED <<data, private, names>>
  PROVE  /\ TypeInv'
         /\ Moves(c)
         /\ proc'[c].src = File /\ proc'[c].body = None /\ proc'[c].inv = i
         /\ proc'[c].fd = proc[c].fd
  <1> DEFINE p == proc[c]
             q == [p EXCEPT !.inv = i, !.src = File, !.pc = "mkdir"]
  <1>1. p \in Commands /\ proc \in [Cmds -> Commands] /\ RunOK(c, p)
        /\ p.pc = "start"
    BY DEF TypeInv, TypeOK, At
  <1>2. proc' = [proc EXCEPT ![c] = q]
    BY DEF Edit
  <1>3. File \in Docs \cup {Torn} /\ File # None
    BY SopsFileAssumption DEF TypeInv, TypeOK, File
  <1>4. i # None /\ i.verb = "edit" /\ Opens(File, i)
    BY SopsFileAssumption DEF Edit, Accepts
  <1> HIDE DEF p
  <1>5. /\ q.inv = i /\ q.src = File /\ q.body = p.body /\ q.fd = p.fd
        /\ q.guard = p.guard /\ q.scratch = p.scratch /\ q \in Commands
        /\ q.exit = p.exit /\ q.pc = "mkdir"
    BY <1>1, <1>3 DEF Commands, Phases
  <1> HIDE DEF q
  <1>6. proc'[c] = q /\ Moves(c)
    BY <1>1, <1>2, <1>5 DEF Moves
  <1>7. TypeOK'
    BY <1>1, <1>5, <1>6 DEF TypeInv, TypeOK, At, Writing, Moves
  <1>8. RunOK(c, q)
    BY <1>1, <1>3, <1>4, <1>5 DEF RunOK, Editing, Saving
  <1>9. \A d \in Cmds \ {c} : RunOK(d, proc'[d])
    BY <1>6 DEF TypeInv, Moves
  <1>10. p.body = None
    BY <1>1 DEF RunOK
  <1> QED BY <1>5, <1>6, <1>7, <1>8, <1>9, <1>10 DEF TypeInv, p

\* Reading the file leaves it alone, and the body, if there is one already, is
\* made of what was read.
LEMMA RunGoes ==
  ASSUME TypeInv, NEW c \in Cmds, Run(c)
  PROVE  \E i \in Invocations :
           \/ Edit(c, i)
           \/ Read(c, i, "failed")
           \/ /\ Read(c, i, "unchanged")
              /\ i.verb \in {"updatekeys", "set", "unset"}
           \/ \E body : Goes(c, i, body) /\ Made(c, i, File, body)
  <1>1. PICK i \in Invocations :
         \/ Decrypt(c, i) \/ Encrypt(c, i) \/ Rotate(c, i) \/ Edit(c, i)
         \/ UpdateKeys(c, i) \/ SetOrUnset(c, i)
         \/ Refuse(c, i)
    BY DEF Run
  <1>2. CASE Decrypt(c, i)
    BY <1>2 DEF Decrypt, Accepts, Made
  <1>3. CASE Encrypt(c, i)
    <2>1. PICK now \in Times : Goes(c, i, Seal(c, NewFile(i.age), File.val, c, None, now))
      BY <1>3 DEF Encrypt
    <2>2. i.verb = "encrypt" /\ File.kind = "plain"
      BY <1>3 DEF Encrypt, Accepts
    <2> QED BY <2>1, <2>2 DEF Made
  <1>4. CASE Rotate(c, i)
    <2>1. PICK now \in Times :
            Goes(c, i, Seal(c, Rewrap(File, File.age), ValOf(File), c, None, now))
      BY <1>4 DEF Rotate
    <2>2. i.verb = "rotate" /\ Opens(File, i)
      BY <1>4 DEF Rotate, Accepts
    <2> QED BY <2>1, <2>2 DEF Made
  <1>5. CASE UpdateKeys(c, i)
    BY <1>5 DEF UpdateKeys, Accepts, Made
  <1>6. CASE SetOrUnset(c, i)
    <2> DEFINE after == Mutated(ValOf(File), i)
    <2>1. i.verb \in {"set", "unset"} /\ Opens(File, i)
      BY <1>6 DEF SetOrUnset, Accepts
    <2>2. after \in LeafMaps
      <3>1. File \in Docs
        BY <2>1, DocKinds DEF Opens, TypeInv, TypeOK, File
      <3>2. ValOf(File) \in LeafMaps
        BY <3>1, ValuesOf
      <3>3. i.val \in Vals
        BY SopsFileAssumption DEF Lines
      <3> QED BY <3>2, <3>3 DEF Mutated, LeafMaps
    <2> HIDE DEF after
    <2>3. \/ Read(c, i, "unchanged")
          \/ \E now \in Times :
               Goes(c, i, Seal(c, File, after, File.key, StashOf(File, i), now))
      BY <1>6 DEF SetOrUnset, after
    <2> QED BY <2>1, <2>2, <2>3 DEF Made
  <1>7. CASE Refuse(c, i)
    BY <1>7 DEF Refuse
  <1> QED BY <1>1, <1>2, <1>3, <1>4, <1>5, <1>6, <1>7

LEMMA RunType == ASSUME TypeInv, NEW c \in Cmds, Run(c) PROVE TypeInv'
  <1>1. At(c, "start") /\ UNCHANGED <<data, private, names>>
    BY DEF Run
  <1>2. PICK i \in Invocations :
           \/ Edit(c, i)
           \/ \E code \in Exits : Read(c, i, code)
           \/ \E body : Goes(c, i, body) /\ Made(c, i, File, body)
    BY RunGoes DEF Exits
  <1> QED BY <1>1, <1>2, EditType, ReadType, GoesType

\* edit's body is sealed from what it opened and what the editor saved.
LEMMA ResealGoes ==
  ASSUME TypeInv, NEW c \in Cmds, Reseal(c)
  PROVE  \/ Return(c, "unchanged")
         \/ \E body : /\ Made(c, proc[c].inv, proc[c].src, body)
                      /\ proc' = [proc EXCEPT ![c].pc = "create", ![c].body = body]
  <1> DEFINE p == proc[c]
  <1>1. p \in Commands /\ RunOK(c, p) /\ p.pc = "reseal"
    BY DEF TypeInv, TypeOK, Reseal, At
  <1>2. p.scratch \in LeafMaps /\ p.inv.verb = "edit" /\ Opens(p.src, p.inv)
    BY <1>1 DEF RunOK, Commands, Editing
  <1>3. \/ Return(c, "unchanged")
        \/ \E now \in Times :
             proc' = [proc EXCEPT ![c].pc = "create", ![c].body =
                 Seal(c, p.src, p.scratch, p.src.key, StashOf(p.src, p.inv), now)]
    BY DEF Reseal
  <1> HIDE DEF p
  <1>4. ASSUME NEW now \in Times
        PROVE  Made(c, p.inv, p.src,
                 Seal(c, p.src, p.scratch, p.src.key, StashOf(p.src, p.inv), now))
    BY <1>2 DEF Made
  <1> QED BY <1>3, <1>4 DEF p

LEMMA ResealType == ASSUME TypeInv, NEW c \in Cmds, Reseal(c) PROVE TypeInv'
  <1>1. /\ proc \in [Cmds -> Commands] /\ RunOK(c, proc[c])
        /\ proc[c].pc = "reseal" /\ UNCHANGED <<data, private, names>>
    BY DEF TypeInv, TypeOK, Reseal, At
  <1>2. CASE Return(c, "unchanged")
    BY <1>1, <1>2, ReturnType DEF TypeInv, TypeOK, Editing, Exits
  <1>3. CASE \E body : /\ Made(c, proc[c].inv, proc[c].src, body)
                       /\ proc' = [proc EXCEPT ![c].pc = "create", ![c].body = body]
    <2>1. PICK body : /\ Made(c, proc[c].inv, proc[c].src, body)
                      /\ proc' = [proc EXCEPT ![c].pc = "create", ![c].body = body]
      BY <1>3
    <2>2. /\ proc[c].inv \in Invocations /\ proc[c].src \in Docs \cup {Torn}
          /\ proc[c].inv.to = "file"
      <3>1. proc[c].inv # None /\ proc[c].src # None /\ proc[c].inv.verb = "edit"
        BY <1>1 DEF RunOK, Editing
      <3> QED BY <1>1, <3>1, SopsFileAssumption DEF Commands
    <2>3. body \in Docs /\ body # None
      BY <2>1, <2>2, MadeIsDoc, SopsFileAssumption
    <2>4. TypeOK'
      <3> DEFINE q == [[proc[c] EXCEPT !.pc = "create"] EXCEPT !.body = body]
      <3>1. q \in Commands /\ q.pc = "create"
        BY <1>1, <2>3 DEF Commands, Phases
      <3>2. proc' = [proc EXCEPT ![c] = q]
        BY <1>1, <2>1
      <3> HIDE DEF q
      <3> QED BY <1>1, <3>1, <3>2 DEF TypeInv, TypeOK, At, Writing
    <2>5. RunOK(c, proc'[c])
      BY <1>1, <2>1, <2>2, <2>3 DEF RunOK, Editing, Saving, Commands
    <2>6. \A d \in Cmds \ {c} : RunOK(d, proc'[d])
      BY <1>1, <2>1 DEF TypeInv
    <2> QED BY <2>4, <2>5, <2>6 DEF TypeInv
  <1> QED BY <1>2, <1>3, ResealGoes

LEMMA CreateType == ASSUME TypeInv, NEW c \in Cmds, Create(c) PROVE TypeInv'
  <1> DEFINE n == IF names[Tmp(c)] = None THEN c ELSE names[Tmp(c)]
  <1>1. /\ names' = [names EXCEPT ![Tmp(c)] = n]
        /\ data' = [data EXCEPT ![n] = Torn]
        /\ proc' = [proc EXCEPT ![c].fd = n, ![c].pc = "write"]
        /\ private' = private /\ proc[c].pc = "create"
    BY DEF Create, At
  <1>2. n \in Inodes /\ n # None
    BY SopsFileAssumption DEF TypeInv, TypeOK, Tmp, Temp, Inodes
  <1> HIDE DEF n
  <1>3. proc \in [Cmds -> Commands] /\ RunOK(c, proc[c]) /\ proc[c].body # None
    BY <1>1 DEF TypeInv, TypeOK, RunOK, Saving
  <1>4. TypeOK'
    BY <1>1, <1>2, <1>3 DEF TypeInv, TypeOK, Commands, Phases, At, Writing, Tmp, Temp
  <1>5. RunOK(c, proc'[c])
    BY <1>1, <1>2, <1>3 DEF RunOK, Editing, Saving, Commands
  <1>6. \A d \in Cmds \ {c} : RunOK(d, proc'[d])
    BY <1>1, <1>3 DEF TypeInv
  <1> QED BY <1>4, <1>5, <1>6 DEF TypeInv

LEMMA WriteType == ASSUME TypeInv, NEW c \in Cmds, Write(c) PROVE TypeInv'
  <1>1. /\ proc \in [Cmds -> Commands] /\ RunOK(c, proc[c])
        /\ proc[c].body \in Docs /\ proc[c].fd # None
    BY DEF TypeInv, TypeOK, Write, At, Writing, Commands
  <1>2. TypeOK'
    <2>1. PICK r \in Docs \cup {Torn} : data' = [data EXCEPT ![proc[c].fd] = r]
      BY <1>1 DEF Write
    <2>2. /\ proc' = [proc EXCEPT ![c].pc = "chmod"] /\ proc[c].pc = "write"
          /\ UNCHANGED <<private, names>>
      BY DEF Write, At
    <2> QED BY <1>1, <2>1, <2>2 DEF TypeInv, TypeOK, Commands, Phases, At, Writing
  <1>3. RunOK(c, proc'[c])
    BY <1>1 DEF Write, RunOK, Editing, Saving, Commands, At
  <1>4. \A d \in Cmds \ {c} : RunOK(d, proc'[d])
    BY <1>1 DEF Write, TypeInv
  <1> QED BY <1>2, <1>3, <1>4 DEF TypeInv

LEMMA ChmodType == ASSUME TypeInv, NEW c \in Cmds, Chmod(c) PROVE TypeInv'
  <1>1. /\ proc \in [Cmds -> Commands] /\ RunOK(c, proc[c])
        /\ proc[c].body \in Docs /\ proc[c].fd # None
    BY DEF TypeInv, TypeOK, Chmod, At, Writing, Commands
  <1>2. TypeOK'
    BY <1>1 DEF Chmod, TypeInv, TypeOK, Commands, Phases, At, Writing
  <1>3. RunOK(c, proc'[c])
    BY <1>1 DEF Chmod, RunOK, Editing, Saving, Commands, At
  <1>4. \A d \in Cmds \ {c} : RunOK(d, proc'[d])
    BY <1>1 DEF Chmod, TypeInv
  <1> QED BY <1>2, <1>3, <1>4 DEF TypeInv

LEMMA RenameType == ASSUME TypeInv, NEW c \in Cmds, Rename(c) PROVE TypeInv'
  <1>1. /\ Return(c, "ok") /\ UNCHANGED <<data, private>>
        /\ proc[c].pc = "rename" /\ names[Tmp(c)] # None
        /\ names' = [names EXCEPT ![proc[c].inv.to] = names[Tmp(c)],
                                  ![Tmp(c)] = None]
    BY DEF Rename, At
  <1>2. proc[c].inv.to \in {"file", "out"}
    BY <1>1 DEF TypeInv, RunOK, Saving
  <1>3. /\ names' \in [{"file", "file.tmp", "out", "out.tmp"} -> Inodes \cup {None}]
        /\ names'["file"] # None
    BY <1>1, <1>2 DEF TypeInv, TypeOK, Tmp, Temp
  <1>4. /\ "ok" \in Exits /\ private' \in [Inodes -> BOOLEAN]
        /\ data' \in [Inodes -> Docs \cup {Torn}]
        /\ proc[c].pc \in Editing \cup Saving \cup {"print"}
    BY <1>1 DEF TypeInv, TypeOK, Exits, Saving
  <1> QED BY <1>1, <1>3, <1>4, ReturnType

LEMMA NextType == TypeInv /\ [Next]_vars => TypeInv'
  <1> SUFFICES ASSUME TypeInv, [Next]_vars PROVE TypeInv' OBVIOUS
  <1>1. ASSUME NEW c \in Cmds, Proceeds(c) PROVE TypeInv'
    BY <1>1, RunType, MakeScratchDirType, WriteScratchType, EditorSavesType, ResealType,
       ShredType, ToStdoutType, CreateType, WriteType, ChmodType, RenameType DEF Proceeds
  <1>2. ASSUME NEW c \in Cmds, Fails(c) \/ Kill(c) PROVE TypeInv'
    BY <1>2, FailsType, KillType
  <1>3. CASE UNCHANGED vars
    BY <1>3 DEF vars, TypeInv, TypeOK, RunOK, At, Writing
  <1> QED BY <1>1, <1>2, <1>3 DEF Next

LEMMA TypeAlways == Spec => []TypeInv
  <1> QED BY InitType, NextType, PTL DEF Spec

(***************************************************************************)
(* Every state has the type: whatever a command read, and however writers  *)
(* overlap, the file's name leads to a document or to a torn one.          *)
(***************************************************************************)
THEOREM TypeCorrect == Spec => []TypeOK
  <1>1. TypeInv => TypeOK
    BY DEF TypeInv
  <1> QED BY <1>1, TypeAlways, PTL
-----------------------------------------------------------------------------
(***************************************************************************)
(* What any step of a command leaves alone.  The inode the file had at     *)
(* first is never opened for writing: a command opens the temporary name.  *)
(***************************************************************************)
NeverInitial ==
    /\ \A f \in {"file.tmp", "out", "out.tmp"} : names[f] # Initial
    /\ \A c \in Cmds : proc[c].fd # Initial

Steps(c) ==
    /\ Moves(c)
    /\ \/ proc'[c].inv = proc[c].inv /\ proc'[c].src = proc[c].src
       \/ /\ proc[c].inv = None /\ proc[c].src = None
          /\ proc'[c].src = File
    /\ \/ proc'[c].body = proc[c].body
       \/ /\ proc[c].body = None
          /\ Made(c, proc'[c].inv, proc'[c].src, proc'[c].body)
    /\ \A n \in Inodes : \/ data'[n] \in {data[n], Torn}
                         \/ proc[c].body # None /\ data'[n] = proc[c].body
    /\ data'[Initial] = data[Initial]
    /\ NeverInitial'

LEMMA RunSteps ==
  ASSUME TypeInv, NeverInitial, NEW c \in Cmds, Run(c)
  PROVE  Steps(c)
  <1>1. /\ At(c, "start") /\ UNCHANGED <<data, private, names>>
        /\ proc[c].inv = None /\ proc[c].src = None /\ proc[c].body = None
    BY DEF Run, TypeInv, RunOK, At
  <1>2. PICK i \in Invocations :
           \/ Edit(c, i)
           \/ \E code \in Exits : Read(c, i, code)
           \/ \E body : Goes(c, i, body) /\ Made(c, i, File, body)
    BY RunGoes DEF Exits
  <1>3. /\ Moves(c) /\ proc'[c].src = File /\ proc'[c].fd = proc[c].fd
        /\ \/ proc'[c].body = None
           \/ Made(c, proc'[c].inv, File, proc'[c].body)
    BY <1>1, <1>2, EditType, ReadType, GoesType
  <1>4. NeverInitial'
    BY <1>1, <1>3 DEF NeverInitial, Moves
  <1> QED BY <1>1, <1>3, <1>4 DEF Steps

\* A command that does not write, and keeps what it read and made.
LEMMA QuietSteps ==
  ASSUME TypeInv, NeverInitial, NEW c \in Cmds, Moves(c), data' = data,
         proc'[c].src = proc[c].src, proc'[c].body = proc[c].body,
         proc'[c].fd = proc[c].fd, proc'[c].inv = proc[c].inv,
         \A f \in {"file.tmp", "out", "out.tmp"} : names'[f] # Initial
  PROVE  Steps(c)
  BY DEF Steps, NeverInitial, Moves

LEMMA EditSteps ==
  ASSUME TypeInv, NeverInitial, NEW c \in Cmds,
         \/ MakeScratchDir(c) \/ WriteScratch(c) \/ EditorSaves(c) \/ Shred(c)
         \/ Kill(c)
  PROVE  Steps(c)
  <1>1. /\ data' = data /\ names' = names
        /\ proc'[c].src = proc[c].src /\ proc'[c].body = proc[c].body
        /\ proc'[c].fd = proc[c].fd /\ proc'[c].inv = proc[c].inv
        /\ \A d \in Cmds \ {c} : proc'[d] = proc[d]
    <2>1. proc \in [Cmds -> Commands]
      BY DEF TypeInv, TypeOK
    <2>2. CASE MakeScratchDir(c)
      BY <2>1, <2>2 DEF Commands, MakeScratchDir
    <2>3. CASE WriteScratch(c)
      BY <2>1, <2>3 DEF Commands, WriteScratch
    <2>4. CASE EditorSaves(c)
      BY <2>1, <2>4 DEF Commands, EditorSaves
    <2>5. CASE Shred(c)
      BY <2>1, <2>5 DEF Commands, Shred
    <2>6. CASE Kill(c)
      BY <2>1, <2>6 DEF Commands, Kill
    <2> QED BY <2>2, <2>3, <2>4, <2>5, <2>6
  <1>2. TypeInv'
    BY MakeScratchDirType, WriteScratchType, EditorSavesType, ShredType, KillType
  <1> QED BY <1>1, <1>2, QuietSteps DEF Moves, TypeInv, TypeOK, NeverInitial

LEMMA ResealSteps ==
  ASSUME TypeInv, NeverInitial, NEW c \in Cmds, Reseal(c)
  PROVE  Steps(c)
  <1>1. data' = data /\ names' = names /\ proc[c].body = None
    BY DEF Reseal, TypeInv, RunOK, At, Editing
  <1>2. CASE Return(c, "unchanged")
    BY <1>1, <1>2, ReturnLeads, QuietSteps DEF TypeInv, NeverInitial, Exits
  <1>3. CASE \E body : /\ Made(c, proc[c].inv, proc[c].src, body)
                       /\ proc' = [proc EXCEPT ![c].pc = "create", ![c].body = body]
    <2>1. PICK body : /\ Made(c, proc[c].inv, proc[c].src, body)
                      /\ proc' = [proc EXCEPT ![c].pc = "create", ![c].body = body]
      BY <1>3
    <2>2. /\ proc'[c].src = proc[c].src /\ proc'[c].inv = proc[c].inv
          /\ proc'[c].fd = proc[c].fd /\ proc'[c].body = body
          /\ \A d \in Cmds \ {c} : proc'[d] = proc[d]
      BY <2>1 DEF TypeInv, TypeOK, Commands
    <2>3. Moves(c)
      BY <2>2, ResealType DEF Moves, TypeInv, TypeOK
    <2> QED BY <1>1, <2>1, <2>2, <2>3 DEF Steps, NeverInitial, Moves
  <1> QED BY <1>2, <1>3, ResealGoes

LEMMA CreateSteps ==
  ASSUME TypeInv, NeverInitial, NEW c \in Cmds, Create(c)
  PROVE  Steps(c)
  <1> DEFINE n == IF names[Tmp(c)] = None THEN c ELSE names[Tmp(c)]
  <1>1. /\ names' = [names EXCEPT ![Tmp(c)] = n]
        /\ data' = [data EXCEPT ![n] = Torn]
        /\ proc' = [proc EXCEPT ![c].fd = n, ![c].pc = "write"]
    BY DEF Create
  <1>2. n # Initial /\ Tmp(c) \in {"file.tmp", "out.tmp"}
    BY SopsFileAssumption DEF NeverInitial, Tmp, Temp
  <1>3. n \in Inodes
    BY SopsFileAssumption DEF TypeInv, TypeOK, Tmp, Temp, Inodes
  <1> HIDE DEF n
  <1>4. /\ proc'[c].src = proc[c].src /\ proc'[c].body = proc[c].body
        /\ proc'[c].fd = n /\ proc'[c].inv = proc[c].inv
        /\ \A d \in Cmds \ {c} : proc'[d] = proc[d]
    BY <1>1 DEF TypeInv, TypeOK, Commands
  <1>5. Moves(c)
    BY <1>4, CreateType DEF Moves, TypeInv, TypeOK
  <1>6. /\ \A m \in Inodes : data'[m] \in {data[m], Torn}
        /\ data'[Initial] = data[Initial]
    BY <1>1, <1>2, <1>3 DEF TypeInv, TypeOK, Inodes
  <1>7. NeverInitial'
    BY <1>1, <1>2, <1>4 DEF NeverInitial, TypeInv, TypeOK
  <1> QED BY <1>4, <1>5, <1>6, <1>7 DEF Steps

LEMMA WriteSteps ==
  ASSUME TypeInv, NeverInitial, NEW c \in Cmds, Write(c) \/ WriteFails(c)
  PROVE  Steps(c)
  <1>1. /\ proc[c].body # None /\ proc[c].fd \in Cmds
    <2>1. proc[c].fd \in Inodes /\ proc[c].body # None
      BY SopsFileAssumption DEF TypeInv, TypeOK, Write, WriteFails, At, Writing, Commands
    <2> QED BY <2>1 DEF NeverInitial, Inodes
  <1>2. PICK r \in {proc[c].body, Torn} : data' = [data EXCEPT ![proc[c].fd] = r]
    BY DEF Write, WriteFails
  <1>3. /\ proc'[c].src = proc[c].src /\ proc'[c].body = proc[c].body
        /\ proc'[c].fd = proc[c].fd /\ proc'[c].inv = proc[c].inv
        /\ Moves(c) /\ names' = names
    <2>1. CASE Write(c)
      <3>1. proc' = [proc EXCEPT ![c].pc = "chmod"] /\ names' = names
        BY <2>1 DEF Write
      <3>2. proc \in [Cmds -> Commands] /\ proc' \in [Cmds -> Commands]
        BY <2>1, WriteType DEF TypeInv, TypeOK
      <3> QED BY <3>1, <3>2 DEF Commands, Moves
    <2>2. CASE WriteFails(c)
      BY <2>2, ReturnLeads DEF WriteFails, TypeInv, Exits
    <2> QED BY <2>1, <2>2
  <1>4. /\ \A m \in Inodes : data'[m] \in {data[m], Torn, proc[c].body}
        /\ data'[Initial] = data[Initial]
    BY <1>1, <1>2, SopsFileAssumption DEF TypeInv, TypeOK, Inodes
  <1>5. NeverInitial'
    BY <1>3 DEF NeverInitial, Moves
  <1> QED BY <1>1, <1>3, <1>4, <1>5 DEF Steps

LEMMA RenameSteps ==
  ASSUME TypeInv, NeverInitial, NEW c \in Cmds, Rename(c)
  PROVE  Steps(c)
  <1>1. /\ Return(c, "ok") /\ data' = data
        /\ names' = [names EXCEPT ![proc[c].inv.to] = names[Tmp(c)], ![Tmp(c)] = None]
    BY DEF Rename
  <1>2. Tmp(c) \in {"file.tmp", "out.tmp"} /\ names[Tmp(c)] # Initial
    BY DEF NeverInitial, Tmp, Temp
  <1>3. \A f \in {"file.tmp", "out", "out.tmp"} : names'[f] # Initial
    BY <1>1, <1>2, SopsFileAssumption DEF NeverInitial, TypeInv, TypeOK, Inodes
  <1> QED BY <1>1, <1>3, ReturnLeads, QuietSteps DEF TypeInv, Exits

LEMMA OtherSteps ==
  ASSUME TypeInv, NeverInitial, NEW c \in Cmds,
         \/ ToStdout(c) \/ Chmod(c)
         \/ MakeScratchDirFails(c) \/ WriteScratchFails(c) \/ EditorFails(c)
         \/ CreateFails(c) \/ ChmodFails(c) \/ RenameFails(c)
  PROVE  Steps(c)
  <1>1. /\ data' = data
        /\ \A f \in {"file.tmp", "out", "out.tmp"} : names'[f] # Initial
    BY SopsFileAssumption DEF ToStdout, Chmod, MakeScratchDirFails, WriteScratchFails,
       EditorFails, CreateFails, ChmodFails, RenameFails, NeverInitial, TypeInv, TypeOK,
       Inodes, Tmp, Temp
  <1>2. CASE Chmod(c)
    <2>1. /\ proc'[c].src = proc[c].src /\ proc'[c].body = proc[c].body
          /\ proc'[c].fd = proc[c].fd /\ proc'[c].inv = proc[c].inv /\ Moves(c)
      <3>1. proc' = [proc EXCEPT ![c].pc = "rename"]
        BY <1>2 DEF Chmod
      <3>2. proc \in [Cmds -> Commands] /\ proc' \in [Cmds -> Commands]
        BY <1>2, ChmodType DEF TypeInv, TypeOK
      <3> QED BY <3>1, <3>2 DEF Commands, Moves
    <2> QED BY <1>1, <2>1, QuietSteps
  <1>3. CASE Return(c, "ok") \/ Return(c, "failed")
    BY <1>1, <1>3, ReturnLeads, QuietSteps DEF TypeInv, Exits
  <1> QED BY <1>2, <1>3 DEF ToStdout, MakeScratchDirFails, WriteScratchFails, EditorFails,
       CreateFails, ChmodFails, RenameFails

LEMMA AllSteps ==
  ASSUME TypeInv, NeverInitial, NEW c \in Cmds, Proceeds(c) \/ Fails(c) \/ Kill(c)
  PROVE  Steps(c)
  BY RunSteps, EditSteps, ResealSteps, CreateSteps, WriteSteps, RenameSteps, OtherSteps
     DEF Proceeds, Fails
-----------------------------------------------------------------------------
LeafUse(d, s) == [key |-> d.key, aad |-> Aad[s], val |-> d.cell[s].val,
                  nonce |-> d.cell[s].nonce]
MacUse(d) == [key |-> d.key, aad |-> d.mac.at, val |-> d.mac.of,
              nonce |-> d.mac.nonce]

LEMMA UsesAre ==
  \A d : Uses(d) = {LeafUse(d, s) : s \in Leaves(ValOf(d))} \cup {MacUse(d)}
  BY DEF Uses, LeafUse, MacUse

\* Two uses alike in everything are the same.
LEMMA SameUse ==
  /\ \A d, e, s, t : /\ d.key = e.key /\ Aad[s] = Aad[t]
                     /\ d.cell[s].val = e.cell[t].val
                     /\ d.cell[s].nonce = e.cell[t].nonce
                     => LeafUse(d, s) = LeafUse(e, t)
  /\ \A d, e : /\ d.key = e.key /\ d.mac.at = e.mac.at /\ d.mac.of = e.mac.of
               /\ d.mac.nonce = e.mac.nonce
               => MacUse(d) = MacUse(e)
  BY DEF LeafUse, MacUse

\* A leaf of a document is one of its cells.
LEMMA LeavesOf ==
  ASSUME NEW d \in SopsDocs, NEW s
  PROVE  /\ s \in Leaves(ValOf(d)) <=> s \in Slots /\ d.cell[s] # Absent
         /\ s \in Leaves(ValOf(d)) => /\ d.cell[s] \in Cells
                                      /\ ValOf(d)[s] = d.cell[s].val
                                      /\ d.cell[s].val \in Vals
                                      /\ d.cell[s].nonce \in Nonces
  <1>1. /\ d.kind = "sops" /\ d.cell \in [Slots -> Cells \cup {Absent}]
    BY DEF SopsDocs
  <1>2. \A t \in Slots : ValOf(d)[t] = IF d.cell[t] = Absent THEN Absent
                                       ELSE d.cell[t].val
    BY <1>1 DEF ValOf
  <1>3. \A t \in Slots : d.cell[t] # Absent =>
          d.cell[t] \in Cells /\ d.cell[t].val \in Vals /\ d.cell[t].nonce \in Nonces
    BY <1>1 DEF Cells
  <1>4. Absent \notin Vals
    BY SopsFileAssumption
  <1> QED BY <1>2, <1>3, <1>4 DEF Leaves

(***************************************************************************)
(* Every nonce of what a command makes is one it drew for that leaf, or is *)
(* used as in the document it read: same key, place and value.             *)
(***************************************************************************)
LEMMA MadeUses ==
  ASSUME NEW c \in Cmds, NEW i \in Invocations, NEW d \in Docs \cup {Torn}, NEW b,
         Made(c, i, d, b), b.kind = "sops"
  PROVE  /\ b \in SopsDocs
         /\ \A s \in Leaves(ValOf(b)) :
              \/ b.cell[s].nonce = <<c, s>>
              \/ d \in SopsDocs /\ LeafUse(b, s) \in Uses(d)
         /\ \/ b.mac.nonce = <<c, 0>>
            \/ d \in SopsDocs /\ MacUse(b) \in Uses(d)
         /\ \/ b.key = c
            \/ d \in SopsDocs /\ b.key = d.key
  <1>1. i \in Lines
    BY SopsFileAssumption
  <1>2. /\ d.kind = "plain" => d.val \in LeafMaps
        /\ d.kind = "sops" => d \in SopsDocs /\ ValOf(d) \in LeafMaps
        /\ d.kind = "sops" => d.age \in AgeLists /\ d.other \in SUBSET Others
    BY DocKinds, ValuesOf DEF Docs, SopsDocs
  <1>3. c \in Inodes
    BY DEF Inodes
  <1>4. CASE i.verb = "decrypt" /\ OpensStream(d, i)
             /\ b = [kind |-> "plain", val |-> ValOf(d)]
    BY <1>4
  <1>5. CASE /\ i.verb = "encrypt" /\ d.kind = "plain"
             /\ \E now \in Times : b = Seal(c, NewFile(i.age), d.val, c, None, now)
    <2>1. NewFile(i.age).age \in AgeLists /\ NewFile(i.age).other \in SUBSET Others
      BY <1>1 DEF NewFile, Lines
    <2>2. PICK now \in Times : b = Seal(c, NewFile(i.age), d.val, c, None, now)
      BY <1>5
    <2>3. /\ b \in SopsDocs /\ ValOf(b) = d.val
          /\ b.key = c /\ b.mac.nonce = <<c, 0>>
          /\ \A s \in Leaves(d.val) : b.cell[s].nonce = <<c, s>>
      BY <1>2, <1>3, <1>5, <2>1, <2>2, SealAnew
    <2> QED BY <2>3
  <1>6. CASE /\ i.verb = "rotate" /\ Opens(d, i)
             /\ \E now \in Times :
                  b = Seal(c, Rewrap(d, d.age), ValOf(d), c, None, now)
    <2>1. d \in SopsDocs
      BY <1>2, <1>6 DEF Opens
    <2>2. /\ Rewrap(d, d.age).age \in AgeLists
          /\ Rewrap(d, d.age).other \in SUBSET Others
      BY <1>2, <2>1, Rewrapped, DocKinds
    <2>3. PICK now \in Times : b = Seal(c, Rewrap(d, d.age), ValOf(d), c, None, now)
      BY <1>6
    <2>4. /\ b \in SopsDocs /\ ValOf(b) = ValOf(d)
          /\ b.key = c /\ b.mac.nonce = <<c, 0>>
          /\ \A s \in Leaves(ValOf(d)) : b.cell[s].nonce = <<c, s>>
      BY <1>2, <1>3, <2>1, <2>2, <2>3, SealAnew, DocKinds
    <2> QED BY <2>4
  <1>7. CASE i.verb = "updatekeys" /\ d.kind = "sops" /\ i.age # d.age
             /\ b = Rewrap(d, i.age)
    <2>1. i.age \in AgeLists /\ d \in SopsDocs
      BY <1>1, <1>2, <1>7 DEF Lines
    <2>2. /\ b \in SopsDocs /\ b.key = d.key /\ b.cell = d.cell
          /\ b.mac = d.mac /\ ValOf(b) = ValOf(d)
      BY <1>7, <2>1, Rewrapped
    <2>3. MacUse(b) = MacUse(d) /\ \A s : LeafUse(b, s) = LeafUse(d, s)
      BY <2>2, SameUse
    <2> QED BY <2>1, <2>2, <2>3, UsesAre
  <1>8. CASE /\ i.verb \in {"edit", "set", "unset"} /\ Opens(d, i)
             /\ \E now \in Times, val \in LeafMaps :
                  b = Seal(c, d, val, d.key, StashOf(d, i), now)
    <2>1. d \in SopsDocs
      BY <1>2, <1>8 DEF Opens
    <2>2. PICK now \in Times, val \in LeafMaps :
                  b = Seal(c, d, val, d.key, StashOf(d, i), now)
      BY <1>8
    <2>3. /\ b \in SopsDocs /\ ValOf(b) = val /\ b.key = d.key
          /\ \A s \in Leaves(val) :
              \/ Twins(d, Aad[s], val[s]) = {} /\ b.cell[s].nonce = <<c, s>>
              \/ \E t \in Twins(d, Aad[s], val[s]) : b.cell[s].nonce = d.cell[t].nonce
          /\ \/ b.mac.nonce = <<c, 0>>
             \/ b.mac.nonce = d.mac.nonce /\ b.mac.of = d.mac.of /\ b.mac.at = d.mac.at
      <3> DEFINE e == Seal(c, d, val, d.key, StashOf(d, i), now)
      <3>1. /\ e \in SopsDocs /\ ValOf(e) = val /\ e.key = d.key
            /\ \A s \in Leaves(val) :
                \/ Twins(d, Aad[s], val[s]) = {} /\ e.cell[s].nonce = <<c, s>>
                \/ \E t \in Twins(d, Aad[s], val[s]) : e.cell[s].nonce = d.cell[t].nonce
            /\ \/ e.mac.nonce = <<c, 0>>
               \/ e.mac.nonce = d.mac.nonce /\ e.mac.of = d.mac.of /\ e.mac.at = d.mac.at
        BY <2>1, SealAgain
      <3>2. b = e
        BY <2>2
      <3> HIDE DEF e
      <3> QED BY <3>1, <3>2
    <2>4. ASSUME NEW s \in Leaves(val), NEW t \in Twins(d, Aad[s], val[s]),
                 b.cell[s].nonce = d.cell[t].nonce
          PROVE  LeafUse(b, s) \in Uses(d)
      <3>1. /\ t \in Slots /\ Aad[t] = Aad[s] /\ d.cell[t] # Absent
            /\ d.cell[t].val = val[s]
        BY DEF Twins
      <3>2. t \in Leaves(ValOf(d))
        BY <2>1, <3>1, LeavesOf
      <3>3. b.cell[s].val = val[s]
        BY <2>3, LeavesOf
      <3>4. LeafUse(b, s) = LeafUse(d, t)
        BY <2>3, <2>4, <3>1, <3>3, SameUse
      <3> QED BY <3>2, <3>4, UsesAre
    <2>5. \A s \in Leaves(val) :
              b.cell[s].nonce = <<c, s>> \/ LeafUse(b, s) \in Uses(d)
      BY <2>3, <2>4
    <2>6. b.mac.nonce = <<c, 0>> \/ MacUse(b) \in Uses(d)
      BY <2>3, SameUse, UsesAre
    <2> QED BY <2>1, <2>3, <2>5, <2>6
  <1> QED BY <1>4, <1>5, <1>6, <1>7, <1>8 DEF Made
-----------------------------------------------------------------------------
(***************************************************************************)
(* Who drew a nonce has its use in what he made, and has it once: then no  *)
(* two uses can share it.  A command draws under its own name only while   *)
(* it makes its body, so a body that recalls a nonce found it drawn.       *)
(***************************************************************************)
Bodies == {proc[c].body : c \in Cmds} \ {None}
Known  == {data[Initial], Torn} \cup Bodies

Owned(u) ==
    LET o == u.nonce[1] IN
    \/ /\ o = Initial /\ data[Initial] \in SopsDocs
       /\ u \in Uses(data[Initial])
    \/ /\ o \in Cmds /\ proc[o].body \in SopsDocs
       /\ u \in Uses(proc[o].body)

OwnSlots(c, b) ==
    /\ \A s \in Leaves(ValOf(b)) : b.cell[s].nonce[1] = c => b.cell[s].nonce[2] = s
    /\ b.mac.nonce[1] = c => b.mac.nonce[2] = 0

BodyInv(c, b) ==
    b \in SopsDocs => /\ \A u \in Uses(b) : Owned(u)
                      /\ OwnSlots(c, b)
                      /\ b.key \in Cmds => proc[b.key].body # None

NonceInv ==
    /\ NeverInitial
    /\ data[Initial] \in Starts
    /\ \A n \in Inodes : data[n] \in Known
    /\ \A c \in Cmds : proc[c].src \in Known \cup {None}
    /\ \A c \in Cmds : BodyInv(c, proc[c].body)
    /\ \A c \in Cmds : proc[c].src \in SopsDocs => proc[c].src.key # c

LEMMA InitNonces == Init => NonceInv
  <1> SUFFICES ASSUME Init PROVE NonceInv OBVIOUS
  <1>1. None \notin SopsDocs /\ None # Initial
    BY SopsFileAssumption DEF Docs, Inodes
  <1> QED BY <1>1 DEF Init, Idle, NonceInv, NeverInitial, Known, Bodies, BodyInv, Inodes

\* Whatever a command can read, the nonces in it have owners.
LEMMA KnownOwned ==
  ASSUME TypeInv, NonceInv, NEW d \in Known, d \in SopsDocs
  PROVE  /\ \A u \in Uses(d) : Owned(u)
         /\ d.key \in Cmds => proc[d.key].body # None
  <1>1. CASE d = data[Initial]
    <2>1. d \in Starts /\ d.kind = "sops"
      BY <1>1, DocKinds DEF NonceInv
    <2>2. /\ d.key = Initial /\ Initial \notin Cmds
          /\ \A u \in Uses(d) : u.nonce[1] = Initial
      BY <2>1, SopsFileAssumption
    <2> QED BY <1>1, <2>2 DEF Owned
  <1>2. CASE d = Torn
    BY <1>2, DocKinds
  <1>3. CASE d \in Bodies
    BY <1>3 DEF NonceInv, BodyInv, Bodies
  <1> QED BY <1>1, <1>2, <1>3 DEF Known

\* A step keeps every body, so what is known and what is owned stay so.
LEMMA Keeps ==
  ASSUME TypeInv, NEW c \in Cmds, Steps(c)
  PROVE  /\ \A d \in Cmds : proc[d].body # None => proc'[d].body = proc[d].body
         /\ Known \subseteq Known'
         /\ \A u : Owned(u) => Owned(u)'
  <1>1. \A d \in Cmds : proc[d].body # None => proc'[d].body = proc[d].body
    BY DEF Steps, Moves
  <1>2. data'[Initial] = data[Initial]
    BY DEF Steps
  <1>3. Known \subseteq Known'
    BY <1>1, <1>2 DEF Known, Bodies
  <1>4. None \notin SopsDocs
    BY SopsFileAssumption DEF Docs
  <1>5. ASSUME NEW u, Owned(u) PROVE Owned(u)'
    BY <1>1, <1>2, <1>4, <1>5 DEF Owned
  <1> QED BY <1>1, <1>3, <1>5

LEMMA FreshBody ==
  ASSUME TypeInv, TypeInv', NonceInv, NEW c \in Cmds, Steps(c), proc[c].body = None,
         Made(c, proc'[c].inv, proc'[c].src, proc'[c].body)
  PROVE  BodyInv(c, proc[c].body)'
  <1>0. PICK b, d, i : b = proc'[c].body /\ d = proc'[c].src /\ i = proc'[c].inv
    OBVIOUS
  <1>1. SUFFICES ASSUME b \in SopsDocs
                 PROVE  /\ \A u \in Uses(b) : Owned(u)'
                        /\ OwnSlots(c, b)
                        /\ b.key \in Cmds => proc'[b.key].body # None
    BY <1>0 DEF BodyInv
  <1>2. b # None
    BY <1>1, SopsFileAssumption DEF Docs
  <1>3. i \in Invocations /\ d \in Docs \cup {Torn}
    BY <1>0, <1>2 DEF TypeInv, TypeOK, Commands, RunOK
  <1>4. d \in Known
    <2>1. \A n \in Inodes : data[n] \in Known
      BY DEF NonceInv
    <2>2. File \in Known
      BY <2>1 DEF TypeInv, TypeOK, File
    <2>3. d # None
      BY <1>3, SopsFileAssumption
    <2> QED BY <1>0, <2>2, <2>3 DEF Steps, NonceInv
  <1>5. b.kind = "sops"
    BY <1>1, DocKinds
  <1>6. /\ \A s \in Leaves(ValOf(b)) :
              \/ b.cell[s].nonce = <<c, s>>
              \/ d \in SopsDocs /\ LeafUse(b, s) \in Uses(d)
        /\ \/ b.mac.nonce = <<c, 0>>
           \/ d \in SopsDocs /\ MacUse(b) \in Uses(d)
        /\ \/ b.key = c
           \/ d \in SopsDocs /\ b.key = d.key
    BY <1>0, <1>3, <1>5, MadeUses
  <1>7. ASSUME NEW u \in Uses(d), d \in SopsDocs
        PROVE  Owned(u) /\ u.nonce[1] # c
    <2>1. Owned(u)
      BY <1>4, <1>7, KnownOwned
    <2>2. Initial \notin Cmds /\ None \notin SopsDocs
      BY SopsFileAssumption DEF Docs
    <2> QED BY <2>1, <2>2 DEF Owned
  <1>8. ASSUME NEW u \in Uses(b), u.nonce[1] = c PROVE Owned(u)'
    BY <1>0, <1>1, <1>8 DEF Owned
  <1>9. ASSUME NEW u, Owned(u) PROVE Owned(u)'
    BY <1>9, Keeps
  <1>10. ASSUME NEW s \in Leaves(ValOf(b))
         PROVE  /\ Owned(LeafUse(b, s))'
                /\ b.cell[s].nonce[1] = c => b.cell[s].nonce[2] = s
    <2>1. LeafUse(b, s) \in Uses(b) /\ LeafUse(b, s).nonce = b.cell[s].nonce
      BY UsesAre DEF LeafUse
    <2> QED BY <1>6, <1>7, <1>8, <1>9, <2>1
  <1>11. /\ Owned(MacUse(b))'
         /\ b.mac.nonce[1] = c => b.mac.nonce[2] = 0
    <2>1. MacUse(b) \in Uses(b) /\ MacUse(b).nonce = b.mac.nonce
      BY UsesAre DEF MacUse
    <2> QED BY <1>6, <1>7, <1>8, <1>9, <2>1
  <1>12. \A u \in Uses(b) : Owned(u)'
    BY <1>10, <1>11, UsesAre
  <1>13. b.key \in Cmds => proc'[b.key].body # None
    <2>1. CASE b.key = c
      BY <1>0, <1>2, <2>1
    <2>2. CASE d \in SopsDocs /\ b.key = d.key
      BY <1>4, <2>2, KnownOwned, Keeps
    <2> QED BY <1>6, <2>1, <2>2
  <1> QED BY <1>10, <1>11, <1>12, <1>13 DEF OwnSlots

LEMMA NonceStep ==
  ASSUME TypeInv, TypeInv', NonceInv, NEW c \in Cmds, Steps(c)
  PROVE  NonceInv'
  <1>1. NeverInitial' /\ data'[Initial] \in Starts
    BY DEF Steps, NonceInv
  <1>2. ASSUME NEW n \in Inodes PROVE data'[n] \in Known'
    <2>1. Torn \in Known /\ (proc[c].body # None => proc[c].body \in Known)
      BY DEF Known, Bodies
    <2>2. data'[n] \in Known
      BY <2>1 DEF Steps, NonceInv
    <2> QED BY <2>2, Keeps
  <1>3. ASSUME NEW d \in Cmds PROVE proc'[d].src \in Known' \cup {None}
    <2>1. File \in Known
      BY DEF NonceInv, TypeInv, TypeOK, File
    <2>2. proc'[d].src \in Known \cup {None}
      BY <2>1 DEF Steps, Moves, NonceInv
    <2> QED BY <2>2, Keeps
  <1>4. ASSUME NEW d \in Cmds PROVE BodyInv(d, proc[d].body)'
    <2>1. CASE proc'[d].body = proc[d].body
      <3> DEFINE b == proc[d].body
      <3>1. BodyInv(d, b)
        BY DEF NonceInv
      <3>2. (\A u \in Uses(b) : Owned(u)) => (\A u \in Uses(b) : Owned(u)')
        BY Keeps
      <3>3. \A e \in Cmds : proc[e].body # None => proc'[e].body # None
        BY Keeps
      <3> QED BY <2>1, <3>1, <3>2, <3>3 DEF BodyInv
    <2>2. CASE proc'[d].body # proc[d].body
      <3>1. d = c /\ proc[c].body = None
            /\ Made(c, proc'[c].inv, proc'[c].src, proc'[c].body)
        BY <2>2 DEF Steps, Moves
      <3> QED BY <3>1, FreshBody
    <2> QED BY <2>1, <2>2
  <1>5. ASSUME NEW d \in Cmds, proc'[d].src \in SopsDocs PROVE proc'[d].src.key # d
    <2>1. CASE proc'[d].src = proc[d].src
      BY <1>5, <2>1 DEF NonceInv
    <2>2. CASE d = c /\ proc[c].inv = None /\ proc'[c].src = File
      <3>1. File \in Known /\ proc[c].body = None
        BY <2>2 DEF NonceInv, TypeInv, TypeOK, File, RunOK
      <3> QED BY <1>5, <2>2, <3>1, KnownOwned
    <2> QED BY <2>1, <2>2 DEF Steps, Moves
  <1> QED BY <1>1, <1>2, <1>3, <1>4, <1>5 DEF NonceInv

LEMMA NonceAlways == Spec => [](TypeInv /\ NonceInv)
  <1>1. Init => TypeInv /\ NonceInv
    BY InitType, InitNonces
  <1>2. ASSUME TypeInv, NonceInv, [Next]_vars PROVE TypeInv' /\ NonceInv'
    <2>1. TypeInv'
      BY <1>2, NextType
    <2>2. ASSUME NEW c \in Cmds, Proceeds(c) \/ Fails(c) \/ Kill(c) PROVE NonceInv'
      <3>1. Steps(c)
        BY <1>2, <2>2, AllSteps DEF NonceInv
      <3> QED BY <1>2, <2>1, <3>1, NonceStep
    <2>3. CASE UNCHANGED vars
      <3>1. data' = data /\ names' = names /\ proc' = proc
        BY <2>3 DEF vars
      <3>2. \A u : Owned(u) => Owned(u)'
        BY <3>1 DEF Owned
      <3>3. Known' = Known
        BY <3>1 DEF Known, Bodies
      <3>4. \A c \in Cmds : BodyInv(c, proc[c].body)'
        BY <1>2, <3>1, <3>2 DEF NonceInv, BodyInv
      <3>5. /\ NeverInitial' /\ data'[Initial] \in Starts
            /\ \A n \in Inodes : data'[n] \in Known'
            /\ \A c \in Cmds : proc'[c].src \in Known' \cup {None}
            /\ \A c \in Cmds : proc'[c].src \in SopsDocs => proc'[c].src.key # c
        BY <1>2, <3>1, <3>3 DEF NonceInv, NeverInitial
      <3> QED BY <2>1, <3>4, <3>5 DEF NonceInv
    <2> QED BY <1>2, <2>1, <2>2, <2>3 DEF Next
  <1> QED BY <1>1, <1>2, PTL DEF Spec

LEMMA NoncesFollow == ASSUME TypeInv, NonceInv PROVE NoncesOnce
  <1>1. ASSUME NEW d \in Sealed PROVE d \in Known /\ d \in SopsDocs
    <2>1. d \in Known /\ d.kind = "sops"
      BY DEF Sealed, Known, Bodies, NonceInv
    <2>2. d \in Docs \cup {Torn}
      BY <2>1 DEF Known, Bodies, TypeInv, TypeOK, Commands, Inodes
    <2> QED BY <2>1, <2>2, DocKinds DEF Docs
  <1>2. ASSUME NEW u, Owned(u), NEW w, Owned(w), u.nonce = w.nonce PROVE u = w
    <2>1. CASE u.nonce[1] = Initial
      <3>1. data[Initial] \in Starts /\ data[Initial].kind = "sops"
            /\ u \in Uses(data[Initial]) /\ w \in Uses(data[Initial])
        BY <1>2, <2>1, SopsFileAssumption, DocKinds DEF Owned, NonceInv
      <3> QED BY <1>2, <3>1, SopsFileAssumption
    <2>2. CASE u.nonce[1] \in Cmds
      <3> DEFINE c == u.nonce[1]
                 b == proc[c].body
      <3>1. b \in SopsDocs /\ u \in Uses(b) /\ w \in Uses(b)
        BY <1>2, <2>2, SopsFileAssumption DEF Owned
      <3>2. OwnSlots(c, b)
        BY <2>2, <3>1 DEF NonceInv, BodyInv
      <3> HIDE DEF b
      <3>3. /\ u = MacUse(b) \/ \E s \in Leaves(ValOf(b)) : u = LeafUse(b, s)
            /\ w = MacUse(b) \/ \E s \in Leaves(ValOf(b)) : w = LeafUse(b, s)
        BY <3>1, UsesAre
      <3>4. MacUse(b).nonce = b.mac.nonce
            /\ \A s : LeafUse(b, s).nonce = b.cell[s].nonce
        BY DEF MacUse, LeafUse
      <3>5. ASSUME NEW s \in Leaves(ValOf(b)), NEW v \in {u, w}, v = LeafUse(b, s)
            PROVE  v.nonce[2] = s /\ s # 0
        BY <1>2, <3>1, <3>2, <3>4, <3>5, LeavesOf, SlotsAreNumbers DEF OwnSlots
      <3>6. ASSUME NEW v \in {u, w}, v = MacUse(b) PROVE v.nonce[2] = 0
        BY <1>2, <3>2, <3>4, <3>6 DEF OwnSlots
      <3> QED BY <1>2, <3>3, <3>5, <3>6
    <2> QED BY <1>2, <2>1, <2>2 DEF Owned
  <1>3. \A d \in Sealed : \A u \in Uses(d) : Owned(u)
    BY <1>1, KnownOwned
  <1> QED BY <1>2, <1>3 DEF NoncesOnce

(***************************************************************************)
(* A nonce stands for one value at one place under one data key, over all  *)
(* the commands ever sealed, however they overlapped, were killed, or lost *)
(* each other's changes (cipher.rs:219, app.rs:497).                       *)
(***************************************************************************)
THEOREM NoncesServeOnce == Spec => []NoncesOnce
  <1>1. TypeInv /\ NonceInv => NoncesOnce
    BY NoncesFollow
  <1> QED BY <1>1, NonceAlways, PTL
-----------------------------------------------------------------------------
(***************************************************************************)
(* One writer at a time.  The four names lead to different inodes; the     *)
(* writer's temporary name leads to the inode it holds open, which holds   *)
(* nothing whole until it has written and is private once it can rename.   *)
(***************************************************************************)
Unborn(c) == proc[c].pc \in {"start", "create", "print"} \cup Editing

NamesApart == \A f, g \in {"file", "file.tmp", "out", "out.tmp"} :
                names[f] = names[g] /\ names[f] # None => f = g

NamedLater == \A c \in Cmds : Unborn(c) =>
                \A f \in {"file", "file.tmp", "out", "out.tmp"} : names[f] # c

OneWriter == \A c, d \in Cmds : Writing(c) /\ Writing(d) => c = d

WriterOK(c) ==
    /\ Writing(c) => names[Tmp(c)] = proc[c].fd
    /\ At(c, "write") => data[proc[c].fd] = Torn
    /\ proc[c].pc \in {"chmod", "rename"} => data[proc[c].fd] = proc[c].body
    /\ At(c, "rename") => private[proc[c].fd]

WriterInv ==
    /\ OneWriter /\ NamesApart /\ NamedLater
    /\ \A c \in Cmds : WriterOK(c)
    /\ PrivateWhenVisible
    /\ File # Torn

LEMMA InitWriter == Init => WriterInv
  <1> SUFFICES ASSUME Init PROVE WriterInv OBVIOUS
  <1>1. /\ \A c \in Cmds : proc[c].pc = "start"
        /\ names = [n \in {"file", "file.tmp", "out", "out.tmp"} |->
                  IF n = "file" THEN Initial ELSE None]
        /\ data[Initial] \in Starts
    BY DEF Init, Idle, Inodes
  <1>2. Initial \notin Cmds /\ None \notin Cmds /\ Torn \notin Starts
    BY SopsFileAssumption, DocKinds DEF Inodes, Docs
  <1> QED BY <1>1, <1>2 DEF WriterInv, OneWriter, NamesApart, NamedLater, WriterOK,
       PrivateWhenVisible, File, Writing, At

\* A step outside a write, whatever it computes.
LEMMA WriterQuiet ==
  ASSUME TypeInv, WriterInv, NEW c \in Cmds, Moves(c),
         UNCHANGED <<data, private, names>>,
         proc'[c].pc \notin {"write", "chmod", "rename"},
         Unborn(c)' => Unborn(c)
  PROVE  WriterInv'
  <1>1. OneWriter' /\ NamesApart' /\ PrivateWhenVisible' /\ (File # Torn)'
    BY DEF WriterInv, OneWriter, NamesApart, PrivateWhenVisible, File, Writing, Moves
  <1>2. NamedLater'
    BY DEF WriterInv, NamedLater, Unborn, Moves
  <1>3. \A d \in Cmds : WriterOK(d)'
    BY DEF WriterInv, WriterOK, Writing, At, Tmp, Moves
  <1> QED BY <1>1, <1>2, <1>3 DEF WriterInv

\* A writer's target and temporary name.
LEMMA WriterNames ==
  ASSUME TypeInv, NEW c \in Cmds, proc[c].pc \in Saving
  PROVE  \/ proc[c].inv.to = "file" /\ Tmp(c) = "file.tmp"
         \/ proc[c].inv.to = "out" /\ Tmp(c) = "out.tmp"
  BY DEF TypeInv, RunOK, Tmp, Temp

\* A step of the one writer: what it must establish.
LEMMA WriterMoves ==
  ASSUME TypeInv, WriterInv, NEW c \in Cmds, Moves(c),
         \A d \in Cmds \ {c} : ~Writing(d),
         proc'[c].pc \notin {"start", "create", "print"} \cup Editing,
         NamesApart', PrivateWhenVisible', (File # Torn)', WriterOK(c)',
         \A d \in Cmds \ {c} : (\A f \in {"file", "file.tmp", "out", "out.tmp"} :
           names'[f] = d => \E g \in {"file", "file.tmp", "out", "out.tmp"} : names[g] = d)
  PROVE  WriterInv'
  <1>1. OneWriter'
    BY DEF OneWriter, Writing, Moves
  <1>2. NamedLater'
    BY DEF WriterInv, NamedLater, Unborn, Moves
  <1>3. \A d \in Cmds \ {c} : WriterOK(d)'
    BY DEF WriterOK, Writing, At, Moves
  <1> QED BY <1>1, <1>2, <1>3 DEF WriterInv

LEMMA CreateWriter ==
  ASSUME TypeInv, NeverInitial, WriterInv, ~WritersOverlap, NEW c \in Cmds, Create(c)
  PROVE  WriterInv'
  <1> DEFINE n == IF names[Tmp(c)] = None THEN c ELSE names[Tmp(c)]
  <1>1. /\ names' = [names EXCEPT ![Tmp(c)] = n]
        /\ data' = [data EXCEPT ![n] = Torn]
        /\ proc' = [proc EXCEPT ![c].fd = n, ![c].pc = "write"]
        /\ private' = private /\ proc[c].pc = "create"
        /\ \A d \in Cmds : ~Writing(d)
    BY DEF Create, At
  <1>2. /\ Tmp(c) \in {"file.tmp", "out.tmp"}
        /\ \A f \in {"file", "file.tmp", "out", "out.tmp"} : names[f] # c
    BY <1>1, WriterNames DEF Saving, WriterInv, NamedLater, Unborn
  <1>3. /\ n \in Inodes /\ n # None
        /\ n = c \/ n = names[Tmp(c)]
    BY SopsFileAssumption DEF TypeInv, TypeOK, Tmp, Temp, Inodes
  <1>4. \A f \in {"file", "file.tmp", "out", "out.tmp"} : names[f] = n => f = Tmp(c)
    BY <1>2, <1>3 DEF WriterInv, NamesApart
  <1> HIDE DEF n
  <1>5. /\ proc'[c].fd = n /\ proc'[c].pc = "write" /\ proc'[c].inv = proc[c].inv
        /\ Moves(c) /\ Tmp(c)' = Tmp(c)
    <2>1. proc' \in [Cmds -> Commands]
      BY CreateType DEF TypeInv, TypeOK
    <2>2. /\ proc'[c].fd = n /\ proc'[c].pc = "write" /\ proc'[c].inv = proc[c].inv
          /\ \A d \in Cmds \ {c} : proc'[d] = proc[d]
      BY <1>1 DEF TypeInv, TypeOK, Commands
    <2> QED BY <2>1, <2>2 DEF Moves, Tmp
  <1>6. /\ names'[Tmp(c)] = n
        /\ \A f \in {"file", "file.tmp", "out", "out.tmp"} \ {Tmp(c)} : names'[f] = names[f]
        /\ data'[n] = Torn /\ \A m \in Inodes \ {n} : data'[m] = data[m]
    BY <1>1, <1>2, <1>3 DEF TypeInv, TypeOK
  <1>7. NamesApart' /\ PrivateWhenVisible'
    BY <1>1, <1>2, <1>4, <1>6 DEF WriterInv, NamesApart, PrivateWhenVisible
  <1>8. (File # Torn)'
    <2>1. names["file"] # n /\ names["file"] \in Inodes /\ names'["file"] = names["file"]
      BY <1>2, <1>4, <1>6 DEF TypeInv, TypeOK
    <2> QED BY <1>6, <2>1 DEF WriterInv, File
  <1>9. WriterOK(c)'
    BY <1>5, <1>6 DEF WriterOK, Writing, At
  <1>10. \A d \in Cmds \ {c} : \A f \in {"file", "file.tmp", "out", "out.tmp"} :
           names'[f] = d => names[f] = d
    BY <1>2, <1>3, <1>6
  <1> QED BY <1>1, <1>5, <1>7, <1>8, <1>9, <1>10, WriterMoves DEF Editing

\* What is true of the writer as it takes a step.
LEMMA TheWriter ==
  ASSUME TypeInv, NeverInitial, WriterInv, NEW c \in Cmds, Writing(c)
  PROVE  /\ \A d \in Cmds \ {c} : ~Writing(d)
         /\ proc[c].fd \in Cmds /\ proc[c].fd \in Inodes /\ proc[c].fd # None
         /\ proc[c].body \in Docs
         /\ names[Tmp(c)] = proc[c].fd
         /\ Tmp(c) \in {"file.tmp", "out.tmp"}
         /\ \A f \in {"file", "file.tmp", "out", "out.tmp"} \ {Tmp(c)} :
              names[f] # proc[c].fd
         /\ names["file"] \in Inodes
  <1>1. \A d \in Cmds \ {c} : ~Writing(d)
    BY DEF WriterInv, OneWriter
  <1>2. names[Tmp(c)] = proc[c].fd
    BY DEF WriterInv, WriterOK
  <1>3. /\ proc[c].fd \in Cmds /\ proc[c].fd \in Inodes /\ proc[c].fd # None
        /\ proc[c].body \in Docs
    BY SopsFileAssumption DEF TypeInv, TypeOK, Commands, NeverInitial, Inodes
  <1>4. Tmp(c) \in {"file.tmp", "out.tmp"}
    BY WriterNames DEF Writing, Saving
  <1> QED BY <1>1, <1>2, <1>3, <1>4 DEF WriterInv, NamesApart, TypeInv, TypeOK

LEMMA WriteWriter ==
  ASSUME TypeInv, NeverInitial, WriterInv, NEW c \in Cmds, Write(c)
  PROVE  WriterInv'
  <1> USE TheWriter
  <1>1. /\ proc' = [proc EXCEPT ![c].pc = "chmod"] /\ proc[c].pc = "write"
        /\ names' = names /\ private' = private /\ Writing(c)
        /\ data[proc[c].fd] = Torn
    BY DEF Write, Writing, At, WriterInv, WriterOK
  <1>2. data' = [data EXCEPT ![proc[c].fd] = proc[c].body]
    BY <1>1 DEF Write
  <1>3. /\ proc'[c].fd = proc[c].fd /\ proc'[c].pc = "chmod"
        /\ proc'[c].inv = proc[c].inv /\ proc'[c].body = proc[c].body
        /\ Moves(c) /\ Tmp(c)' = Tmp(c)
    BY <1>1, WriteType DEF TypeInv, TypeOK, Commands, Moves, Tmp
  <1>4. NamesApart' /\ PrivateWhenVisible'
    BY <1>1 DEF WriterInv, NamesApart, PrivateWhenVisible
  <1>5. (File # Torn)'
    BY <1>1, <1>2 DEF WriterInv, File, TypeInv, TypeOK
  <1>6. WriterOK(c)'
    BY <1>1, <1>2, <1>3 DEF WriterOK, Writing, At, TypeInv, TypeOK
  <1> QED BY <1>1, <1>3, <1>4, <1>5, <1>6, WriterMoves DEF Editing

LEMMA ChmodWriter ==
  ASSUME TypeInv, NeverInitial, WriterInv, NEW c \in Cmds, Chmod(c)
  PROVE  WriterInv'
  <1> USE TheWriter
  <1>1. /\ proc' = [proc EXCEPT ![c].pc = "rename"] /\ proc[c].pc = "chmod"
        /\ names' = names /\ data' = data /\ Writing(c)
        /\ private' = [private EXCEPT ![proc[c].fd] = TRUE]
        /\ data[proc[c].fd] = proc[c].body
    BY DEF Chmod, Writing, At, WriterInv, WriterOK
  <1>2. /\ proc'[c].fd = proc[c].fd /\ proc'[c].pc = "rename"
        /\ proc'[c].inv = proc[c].inv /\ proc'[c].body = proc[c].body
        /\ Moves(c) /\ Tmp(c)' = Tmp(c)
    BY <1>1, ChmodType DEF TypeInv, TypeOK, Commands, Moves, Tmp
  <1>3. NamesApart' /\ (File # Torn)'
    BY <1>1 DEF WriterInv, NamesApart, File
  <1>4. PrivateWhenVisible'
    BY <1>1 DEF WriterInv, PrivateWhenVisible, TypeInv, TypeOK, Inodes
  <1>5. WriterOK(c)'
    BY <1>1, <1>2 DEF WriterOK, Writing, At, TypeInv, TypeOK, WriterInv
  <1> QED BY <1>1, <1>2, <1>3, <1>4, <1>5, WriterMoves DEF Editing

\* A writer returns: its temporary name is gone, or leads to a torn inode.
LEMMA ReturnWriter ==
  ASSUME TypeInv, NeverInitial, WriterInv, NEW c \in Cmds, Writing(c),
         NEW code \in Exits, Return(c, code), private' = private,
         NamesApart', PrivateWhenVisible', (File # Torn)',
         \A f \in {"file", "file.tmp", "out", "out.tmp"} :
           names'[f] # None =>
             \E g \in {"file", "file.tmp", "out", "out.tmp"} : names[g] = names'[f]
  PROVE  WriterInv'
  <1>1. Moves(c) /\ proc'[c].pc \in {"shred", "ended"}
    BY ReturnLeads DEF TypeInv
  <1>2. WriterOK(c)'
    BY <1>1 DEF WriterOK, Writing, At
  <1>3. \A d \in Cmds \ {c} : ~Writing(d) /\ d # None
    BY TheWriter, SopsFileAssumption DEF Inodes
  <1> QED BY <1>1, <1>2, <1>3, WriterMoves DEF Editing

LEMMA WriteFailsWriter ==
  ASSUME TypeInv, NeverInitial, WriterInv, NEW c \in Cmds, WriteFails(c)
  PROVE  WriterInv'
  <1>1. /\ Return(c, "failed") /\ "failed" \in Exits /\ Writing(c)
        /\ private' = private /\ names' = names
        /\ data' = [data EXCEPT ![proc[c].fd] = Torn]
    BY DEF WriteFails, Writing, At, Exits
  <1>2. NamesApart' /\ PrivateWhenVisible'
    BY <1>1 DEF WriterInv, NamesApart, PrivateWhenVisible
  <1>3. (File # Torn)'
    BY <1>1, TheWriter DEF WriterInv, File, TypeInv, TypeOK
  <1> QED BY <1>1, <1>2, <1>3, ReturnWriter

LEMMA RenameFailsWriter ==
  ASSUME TypeInv, NeverInitial, WriterInv, NEW c \in Cmds, RenameFails(c)
  PROVE  WriterInv'
  <1>1. /\ Return(c, "failed") /\ "failed" \in Exits /\ Writing(c)
        /\ private' = private /\ data' = data
        /\ names' = [names EXCEPT ![Tmp(c)] = None]
    BY DEF RenameFails, Writing, At, Exits
  <1>2. /\ names'[Tmp(c)] = None
        /\ \A f \in {"file", "file.tmp", "out", "out.tmp"} \ {Tmp(c)} : names'[f] = names[f]
        /\ names'["file"] = names["file"] /\ names'["out"] = names["out"]
    BY <1>1, TheWriter DEF TypeInv, TypeOK
  <1>3. NamesApart' /\ PrivateWhenVisible' /\ (File # Torn)'
    BY <1>1, <1>2 DEF WriterInv, NamesApart, PrivateWhenVisible, File
  <1> QED BY <1>1, <1>2, <1>3, ReturnWriter

LEMMA RenameWriter ==
  ASSUME TypeInv, NeverInitial, WriterInv, NEW c \in Cmds, Rename(c)
  PROVE  WriterInv'
  <1>1. /\ Return(c, "ok") /\ "ok" \in Exits /\ Writing(c)
        /\ private' = private /\ data' = data /\ names[Tmp(c)] = proc[c].fd
        /\ names' = [names EXCEPT ![proc[c].inv.to] = names[Tmp(c)], ![Tmp(c)] = None]
        /\ private[proc[c].fd] /\ data[proc[c].fd] = proc[c].body
    BY TheWriter DEF Rename, Writing, At, Exits, WriterInv, WriterOK
  <1>2. /\ names'[Tmp(c)] = None /\ names'[proc[c].inv.to] = proc[c].fd
        /\ \A f \in {"file", "file.tmp", "out", "out.tmp"} \ {Tmp(c), proc[c].inv.to} :
             names'[f] = names[f]
        /\ proc[c].inv.to \in {"file", "out"}
    BY <1>1, TheWriter, WriterNames DEF TypeInv, TypeOK, Writing, Saving
  <1>3. NamesApart'
    BY <1>1, <1>2, TheWriter DEF WriterInv, NamesApart
  <1>4. PrivateWhenVisible'
    BY <1>1, <1>2, TheWriter DEF WriterInv, PrivateWhenVisible
  <1>5. (File # Torn)'
    <2>1. proc[c].body # Torn
      BY <1>1, TheWriter, DocKinds DEF Docs
    <2> QED BY <1>1, <1>2, <2>1, TheWriter DEF WriterInv, File
  <1>6. \A f \in {"file", "file.tmp", "out", "out.tmp"} :
           names'[f] # None =>
             \E g \in {"file", "file.tmp", "out", "out.tmp"} : names[g] = names'[f]
    BY <1>1, <1>2, TheWriter
  <1> QED BY <1>1, <1>3, <1>4, <1>5, <1>6, ReturnWriter

LEMMA WriterStep ==
  ASSUME TypeInv, TypeInv', NeverInitial, WriterInv, ~WritersOverlap, NEW c \in Cmds,
         Proceeds(c) \/ Fails(c) \/ Kill(c)
  PROVE  WriterInv'
  <1>1. CASE Create(c) \/ Write(c) \/ Chmod(c) \/ Rename(c) \/ WriteFails(c) \/ RenameFails(c)
    BY <1>1, CreateWriter, WriteWriter, ChmodWriter, RenameWriter, WriteFailsWriter,
       RenameFailsWriter
  <1>2. Moves(c)
    BY AllSteps DEF Steps
  <1>3. CASE Run(c)
    <2>1. /\ UNCHANGED <<data, private, names>> /\ Unborn(c)
          /\ proc'[c].pc \in {"mkdir", "create", "print", "ended"}
      <3>1. PICK i \in Invocations :
             \/ Edit(c, i)
             \/ \E code \in Exits : Read(c, i, code)
             \/ \E body : Goes(c, i, body) /\ Made(c, i, File, body)
        BY <1>3, RunGoes DEF Exits
      <3>2. At(c, "start") /\ UNCHANGED <<data, private, names>>
        BY <1>3 DEF Run
      <3>3. proc \in [Cmds -> Commands]
        BY DEF TypeInv, TypeOK
      <3>4. CASE Edit(c, i)
        BY <3>2, <3>3, <3>4 DEF Edit, Unborn, At, Commands
      <3>5. CASE \E code \in Exits : Read(c, i, code)
        BY <3>2, <3>5, ReadType DEF Unborn, At
      <3>6. CASE \E body : Goes(c, i, body) /\ Made(c, i, File, body)
        BY <3>2, <3>3, <3>6 DEF Goes, Unborn, At, Commands
      <3> QED BY <3>1, <3>4, <3>5, <3>6
    <2> QED BY <1>2, <2>1, WriterQuiet
  <1>4. CASE \/ MakeScratchDir(c) \/ WriteScratch(c) \/ EditorSaves(c) \/ Reseal(c)
             \/ MakeScratchDirFails(c) \/ WriteScratchFails(c) \/ EditorFails(c)
             \/ ToStdout(c) \/ CreateFails(c) \/ ChmodFails(c)
             \/ Shred(c) \/ Kill(c)
    <2>1. UNCHANGED <<data, private, names>>
      BY <1>4 DEF MakeScratchDir, WriteScratch, EditorSaves, Reseal, MakeScratchDirFails,
         WriteScratchFails, EditorFails, ToStdout, CreateFails, ChmodFails, Shred, Kill
    <2>2. proc'[c].pc \notin {"write", "chmod", "rename"} /\ (Unborn(c)' => Unborn(c))
      <3>1. CASE MakeScratchDir(c) \/ WriteScratch(c) \/ EditorSaves(c)
        <4>1. proc[c].pc \in Editing /\ proc'[c].pc \in Editing
          BY <3>1 DEF MakeScratchDir, WriteScratch, EditorSaves, At, Editing,
             TypeInv, TypeOK, Commands
        <4> QED BY <4>1 DEF Unborn, Editing
      <3>2. CASE Shred(c) \/ Kill(c)
        BY <3>2 DEF Shred, Kill, At, Unborn, Editing, TypeInv, TypeOK, Commands
      <3>3. CASE Return(c, "ok") \/ Return(c, "failed") \/ Return(c, "unchanged")
        BY <3>3, ReturnLeads DEF TypeInv, Exits, Unborn, Editing
      <3>4. CASE Reseal(c)
        <4>1. CASE Return(c, "unchanged")
          BY <3>3, <4>1
        <4>2. CASE \E body : proc' = [proc EXCEPT ![c].pc = "create", ![c].body = body]
          <5>1. PICK body : proc' = [proc EXCEPT ![c].pc = "create", ![c].body = body]
            BY <4>2
          <5>2. proc[c].pc = "reseal"
            BY <3>4 DEF Reseal, At
          <5>3. proc \in [Cmds -> Commands]
            BY DEF TypeInv, TypeOK
          <5>4. proc'[c].pc = "create"
            BY <5>1, <5>3 DEF Commands
          <5> QED BY <5>2, <5>4 DEF Unborn, Editing
        <4> QED BY <3>4, <4>1, <4>2, ResealGoes
      <3> QED BY <1>4, <3>1, <3>2, <3>3, <3>4 DEF MakeScratchDirFails, WriteScratchFails,
           EditorFails, ToStdout, CreateFails, ChmodFails
    <2> QED BY <1>2, <2>1, <2>2, WriterQuiet
  <1> QED BY <1>1, <1>3, <1>4 DEF Proceeds, Fails

LEMMA WriterAlways ==
  ASSUME ~WritersOverlap
  PROVE  Spec => [](TypeInv /\ NonceInv /\ WriterInv)
  <1>1. Init => WriterInv
    BY InitWriter
  <1>2. ASSUME TypeInv, TypeInv', NonceInv, WriterInv, [Next]_vars PROVE WriterInv'
    <2>1. ASSUME NEW c \in Cmds, Proceeds(c) \/ Fails(c) \/ Kill(c) PROVE WriterInv'
      BY <1>2, <2>1, WriterStep DEF NonceInv
    <2>2. CASE UNCHANGED vars
      <3>1. UNCHANGED <<data, private, names, proc>>
        BY <2>2 DEF vars
      <3> QED BY <1>2, <3>1 DEF WriterInv, OneWriter, NamesApart, NamedLater, WriterOK,
           PrivateWhenVisible, File, Writing, Unborn, At, Tmp
    <2> QED BY <1>2, <2>1, <2>2 DEF Next
  <1> QED BY <1>1, <1>2, NonceAlways, PTL DEF Spec

(***************************************************************************)
(* "The mode applied before the contents are visible" (env.rs:33), while   *)
(* one command at a time is inside a write: what is under the target's     *)
(* name and a command made is private.                                     *)
(***************************************************************************)
THEOREM VisibleIsPrivate ==
  ASSUME ~WritersOverlap PROVE Spec => []PrivateWhenVisible
  <1>1. WriterInv => PrivateWhenVisible
    BY DEF WriterInv
  <1> QED BY <1>1, WriterAlways, PTL

(***************************************************************************)
(* "A reader never sees a half-written file" (env.rs:102), while one       *)
(* command at a time is inside a write; ClaimAtomic shows that it does     *)
(* when two are.                                                           *)
(***************************************************************************)
THEOREM FileIsWhole ==
  ASSUME ~WritersOverlap PROVE Spec => []WholeFile
  <1>1. WriterInv => WholeFile
    BY DEF WriterInv, WholeFile
  <1> QED BY <1>1, WriterAlways, PTL
-----------------------------------------------------------------------------
(***************************************************************************)
(* While no command ignores the MAC, nothing but updatekeys makes anything *)
(* of a damaged file, and what it makes is as damaged.                     *)
(***************************************************************************)
MacChecked == \A c \in Cmds : proc[c].inv # None => ~proc[c].inv.ignore_mac

DamageInv == Damaged(data[Initial]) /\ MacChecked =>
               \A c \in Cmds : proc[c].body # None => Damaged(proc[c].body)

LEMMA MadeOfDamage ==
  ASSUME NEW c \in Cmds, NEW i \in Invocations, NEW d \in Docs \cup {Torn}, NEW b,
         Made(c, i, d, b), Damaged(d), ~i.ignore_mac
  PROVE  Damaged(b)
  <1>1. d.kind = "sops" /\ ~Verifies(d) /\ d \in SopsDocs
    BY DocKinds DEF Damaged, Docs
  <1>2. ~Opens(d, i) /\ ~OpensStream(d, i)
    BY <1>1 DEF Opens, OpensStream
  <1>3. i.verb = "updatekeys" /\ b = Rewrap(d, i.age)
    BY <1>1, <1>2 DEF Made
  <1>4. i.age \in AgeLists
    BY SopsFileAssumption DEF Lines
  <1>5. /\ b.kind = "sops" /\ b.time = d.time /\ b.mac = d.mac
        /\ ValOf(b) = ValOf(d)
    BY <1>1, <1>3, <1>4, Rewrapped
  <1> QED BY <1>1, <1>5 DEF Damaged, Verifies

LEMMA DamageStep ==
  ASSUME TypeInv, TypeInv', NonceInv, WriterInv, DamageInv, NEW c \in Cmds, Steps(c)
  PROVE  DamageInv'
  <1>1. SUFFICES ASSUME Damaged(data[Initial])', MacChecked', NEW d \in Cmds,
                        proc'[d].body # None
                 PROVE  Damaged(proc[d].body)'
    BY DEF DamageInv
  <1>2. Damaged(data[Initial])
    BY <1>1 DEF Steps, Damaged, Verifies, ValOf
  <1>3. MacChecked
    BY <1>1 DEF Steps, Moves, MacChecked
  <1>4. \A e \in Cmds : proc[e].body # None => Damaged(proc[e].body)
    BY <1>2, <1>3 DEF DamageInv
  <1>5. CASE proc'[d].body = proc[d].body
    BY <1>1, <1>4, <1>5 DEF Damaged, Verifies, ValOf
  <1>6. CASE /\ d = c
             /\ Made(c, proc'[c].inv, proc'[c].src, proc'[c].body)
    <2>1. PICK i, s, b : i = proc'[c].inv /\ s = proc'[c].src /\ b = proc'[c].body
      OBVIOUS
    <2>2. i \in Invocations /\ s \in Docs \cup {Torn} /\ s # None
      BY <1>1, <1>6, <2>1 DEF TypeInv, TypeOK, Commands, RunOK
    <2>3. ~i.ignore_mac
      BY <1>1, <2>1, <2>2, SopsFileAssumption DEF MacChecked
    <2>4. s.kind \in {"plain", "sops"}
      <3>1. Made(c, i, s, b)
        BY <1>6, <2>1
      <3> QED BY <3>1 DEF Made, Opens, OpensStream
    <2>5. s \in Known
      <3>1. File \in Known
        BY DEF NonceInv, TypeInv, TypeOK, File
      <3> QED BY <2>1, <2>2, <3>1 DEF Steps, NonceInv
    <2>6. Damaged(s)
      BY <1>2, <1>4, <2>4, <2>5, DocKinds DEF Known, Bodies
    <2>7. Damaged(b)
      BY <1>6, <2>1, <2>2, <2>3, <2>6, MadeOfDamage
    <2> QED BY <1>6, <2>1, <2>7
  <1> QED BY <1>5, <1>6 DEF Steps, Moves

LEMMA DamageAlways ==
  ASSUME ~WritersOverlap
  PROVE  Spec => [](TypeInv /\ NonceInv /\ WriterInv /\ DamageInv)
  <1>1. Init => DamageInv
    BY DEF Init, Idle, DamageInv
  <1>2. ASSUME TypeInv, TypeInv', NonceInv, WriterInv, DamageInv, [Next]_vars
        PROVE  DamageInv'
    <2>1. ASSUME NEW c \in Cmds, Proceeds(c) \/ Fails(c) \/ Kill(c) PROVE DamageInv'
      <3>1. Steps(c)
        BY <1>2, <2>1, AllSteps DEF NonceInv
      <3> QED BY <1>2, <3>1, DamageStep
    <2>2. CASE UNCHANGED vars
      <3>1. data' = data /\ proc' = proc
        BY <2>2 DEF vars
      <3> QED BY <1>2, <3>1 DEF DamageInv, MacChecked, Damaged, Verifies, ValOf
    <2> QED BY <1>2, <2>1, <2>2 DEF Next
  <1> QED BY <1>1, <1>2, WriterAlways, PTL DEF Spec

(***************************************************************************)
(* A file whose MAC does not match never comes to match it, unless some    *)
(* command is told to ignore the MAC: updatekeys, which does not look at   *)
(* it, carries it over.                                                    *)
(***************************************************************************)
THEOREM DamageIsKept ==
  ASSUME ~WritersOverlap PROVE Spec => []DamageStays
  <1>1. TypeInv /\ NonceInv /\ WriterInv /\ DamageInv => DamageStays
    <2> SUFFICES ASSUME TypeInv, NonceInv, WriterInv, DamageInv,
                        Damaged(data[Initial]), MacChecked
                 PROVE  Damaged(File)
      BY DEF DamageStays, MacChecked
    <2>1. File \in Known /\ File # Torn
      BY DEF NonceInv, TypeInv, TypeOK, File, WriterInv
    <2>2. \A c \in Cmds : proc[c].body # None => Damaged(proc[c].body)
      BY DEF DamageInv
    <2> QED BY <2>1, <2>2 DEF Known, Bodies
  <1> QED BY <1>1, DamageAlways, PTL
-----------------------------------------------------------------------------
(***************************************************************************)
(* The refinement.  What a command made of what it read is one of the      *)
(* outcomes SealedFile allows.                                             *)
(***************************************************************************)
LEMMA SealKeeps ==
  ASSUME NEW c \in Cmds, NEW d \in SopsDocs, NEW i \in Invocations,
         NEW val \in LeafMaps, NEW now \in Times, NEW b,
         b = Seal(c, d, val, d.key, StashOf(d, i), now)
  PROVE  SF!Rewritten(d, b)
  <1>1. /\ b \in SopsDocs /\ ValOf(b) = val /\ Verifies(b)
        /\ b.key = d.key /\ b.age = d.age /\ b.other = d.other
        /\ \A s \in Leaves(val) :
              \/ Twins(d, Aad[s], val[s]) = {} /\ b.cell[s].nonce = <<c, s>>
              \/ \E t \in Twins(d, Aad[s], val[s]) : b.cell[s].nonce = d.cell[t].nonce
    <2> DEFINE e == Seal(c, d, val, d.key, StashOf(d, i), now)
    <2>1. /\ e \in SopsDocs /\ ValOf(e) = val /\ Verifies(e)
          /\ e.key = d.key /\ e.age = d.age /\ e.other = d.other
          /\ \A s \in Leaves(val) :
              \/ Twins(d, Aad[s], val[s]) = {} /\ e.cell[s].nonce = <<c, s>>
              \/ \E t \in Twins(d, Aad[s], val[s]) : e.cell[s].nonce = d.cell[t].nonce
      BY SealAgain
    <2>2. b = e
      OBVIOUS
    <2> HIDE DEF e
    <2> QED BY <2>1, <2>2
  <1>2. ASSUME NEW s \in Leaves(ValOf(d)), s \in Leaves(val), ValOf(d)[s] = val[s]
        PROVE  \E t \in Leaves(ValOf(d)) : Aad[t] = Aad[s] /\ d.cell[t] = b.cell[s]
    <2>1. /\ s \in Slots /\ d.cell[s] # Absent /\ d.cell[s].val = val[s]
          /\ b.cell[s] \in Cells /\ b.cell[s].val = val[s]
      BY <1>1, <1>2, LeavesOf
    <2>2. s \in Twins(d, Aad[s], val[s])
      BY <2>1 DEF Twins
    <2>3. PICK t \in Twins(d, Aad[s], val[s]) : b.cell[s].nonce = d.cell[t].nonce
      BY <1>1, <1>2, <2>2
    <2>4. /\ t \in Slots /\ Aad[t] = Aad[s] /\ d.cell[t] # Absent
          /\ d.cell[t].val = val[s]
      BY DEF Twins
    <2>5. t \in Leaves(ValOf(d)) /\ d.cell[t] \in Cells
      BY <2>4, LeavesOf
    <2>6. \A x, y \in Cells : x.val = y.val /\ x.nonce = y.nonce => x = y
      BY DEF Cells
    <2>7. d.cell[t] = b.cell[s]
      BY <2>1, <2>3, <2>4, <2>5, <2>6
    <2> QED BY <2>4, <2>5, <2>7
  <1>3. /\ \A e : SF!ValOf(e) = ValOf(e)
        /\ \A e : SF!Leaves(e) = Leaves(ValOf(e))
    BY DEF SF!ValOf, SF!Leaves, ValOf, Leaves
  <1>4. SF!KeepsUnchanged(d, b)
    BY <1>1, <1>2, <1>3 DEF SF!KeepsUnchanged
  <1>5. SF!Verifies(b)
    BY <1>1, <1>3, DocKinds DEF SF!Verifies, Verifies
  <1> QED BY <1>1, <1>4, <1>5 DEF SF!Rewritten, SF!Readers

LEMMA MadeOutcome ==
  ASSUME NEW c \in Cmds, NEW i \in Invocations, NEW d \in Docs \cup {Torn}, NEW b,
         Made(c, i, d, b), d \in SopsDocs => d.key # c
  PROVE  SF!Outcome(d, b)
  <1>1. i \in Lines
    BY SopsFileAssumption
  <1>2. /\ d.kind = "plain" => d.val \in LeafMaps
        /\ d.kind = "sops" => d \in SopsDocs /\ ValOf(d) \in LeafMaps
        /\ d.kind = "sops" => d.age \in AgeLists /\ d.other \in SUBSET Others
    BY DocKinds, ValuesOf DEF Docs, SopsDocs
  <1>3. c \in Inodes
    BY DEF Inodes
  <1>4. \A e : SF!ValOf(e) = ValOf(e)
    BY DEF SF!ValOf, ValOf
  <1>5. \A e \in SopsDocs : Verifies(e) => SF!Verifies(e) /\ e.kind = "sops"
    BY <1>4, DocKinds DEF SF!Verifies, Verifies
  <1>6. CASE i.verb = "decrypt" /\ OpensStream(d, i)
             /\ b = [kind |-> "plain", val |-> ValOf(d)]
    <2>1. d.kind = "sops" /\ b.kind = "plain" /\ ValOf(b) = ValOf(d)
      BY <1>6 DEF OpensStream, ValOf
    <2> QED BY <1>4, <2>1 DEF SF!Outcome
  <1>7. CASE /\ i.verb = "encrypt" /\ d.kind = "plain"
             /\ \E now \in Times : b = Seal(c, NewFile(i.age), d.val, c, None, now)
    <2>1. NewFile(i.age).age \in AgeLists /\ NewFile(i.age).other \in SUBSET Others
      BY <1>1 DEF NewFile, Lines
    <2>2. PICK now \in Times : b = Seal(c, NewFile(i.age), d.val, c, None, now)
      BY <1>7
    <2>3. b \in SopsDocs /\ Verifies(b) /\ ValOf(b) = d.val
      BY <1>2, <1>3, <1>7, <2>1, <2>2, SealAnew
    <2>4. ValOf(d) = d.val
      BY <1>7 DEF ValOf
    <2> QED BY <1>4, <1>5, <1>7, <2>3, <2>4 DEF SF!Outcome
  <1>8. CASE /\ i.verb = "rotate" /\ Opens(d, i)
             /\ \E now \in Times :
                  b = Seal(c, Rewrap(d, d.age), ValOf(d), c, None, now)
    <2>1. d \in SopsDocs /\ d.kind = "sops"
      BY <1>2, <1>8 DEF Opens
    <2>2. /\ Rewrap(d, d.age).age = d.age /\ d.age \in AgeLists
          /\ Rewrap(d, d.age).other \in SUBSET Others
      BY <1>2, <2>1, Rewrapped
    <2>3. PICK now \in Times : b = Seal(c, Rewrap(d, d.age), ValOf(d), c, None, now)
      BY <1>8
    <2>4. /\ b \in SopsDocs /\ Verifies(b) /\ ValOf(b) = ValOf(d)
          /\ b.key = c /\ b.age = d.age
      BY <1>2, <1>3, <2>1, <2>2, <2>3, SealAnew
    <2>5. SF!Rekeyed(d, b)
      BY <1>4, <1>5, <2>1, <2>4 DEF SF!Rekeyed
    <2> QED BY <1>5, <2>1, <2>4, <2>5 DEF SF!Outcome
  <1>9. CASE i.verb = "updatekeys" /\ d.kind = "sops" /\ i.age # d.age
             /\ b = Rewrap(d, i.age)
    <2>1. i.age \in AgeLists /\ d \in SopsDocs
      BY <1>1, <1>2, <1>9 DEF Lines
    <2>2. b \in SopsDocs /\ b.kind = "sops" /\ b.age = i.age /\ b.other = {}
      BY <1>9, <2>1, Rewrapped
    <2>3. SF!Readdressed(d, b)
      BY <1>9, <2>2 DEF SF!Readdressed, Rewrap
    <2> QED BY <1>9, <2>2, <2>3 DEF SF!Outcome
  <1>10. CASE /\ i.verb \in {"edit", "set", "unset"} /\ Opens(d, i)
              /\ \E now \in Times, val \in LeafMaps :
                   b = Seal(c, d, val, d.key, StashOf(d, i), now)
    <2>1. d \in SopsDocs /\ d.kind = "sops"
      BY <1>2, <1>10 DEF Opens
    <2>2. SF!Rewritten(d, b)
      BY <1>10, <2>1, SealKeeps
    <2> QED BY <2>1, <2>2 DEF SF!Outcome, SF!Rewritten, SF!Verifies
  <1> QED BY <1>6, <1>7, <1>8, <1>9, <1>10 DEF Made

Seen == [c \in Cmds |-> IF proc[c].exit = "ok" /\ proc[c].inv.to = "file"
                        THEN Initial ELSE proc[c].src]

\* A step that leaves the file and what its command saw alone.
LEMMA Unseen ==
  ASSUME NEW c \in Cmds, Moves(c), names'["file"] = names["file"],
         data'[names["file"]] = data[names["file"]],
         proc'[c].inv = proc[c].inv, proc'[c].src = proc[c].src,
         \/ proc'[c].exit = proc[c].exit
         \/ /\ proc[c].exit = None
            /\ proc'[c].exit # "ok" \/ proc[c].inv.to # "file"
  PROVE  UNCHANGED <<File, Seen>>
  <1>1. None # "ok"
    BY SopsFileAssumption DEF Exits
  <1>2. \A d \in Cmds :
          (IF proc'[d].exit = "ok" /\ proc'[d].inv.to = "file" THEN Initial
           ELSE proc'[d].src)
          = (IF proc[d].exit = "ok" /\ proc[d].inv.to = "file" THEN Initial
             ELSE proc[d].src)
    BY <1>1 DEF Moves
  <1> QED BY <1>2 DEF File, Seen

LEMMA ReturnUnseen ==
  ASSUME TypeInv, NEW c \in Cmds, NEW code \in Exits, Return(c, code),
         proc[c].pc \in Editing \cup Saving \cup {"print"},
         code # "ok" \/ proc[c].inv.to # "file",
         names'["file"] = names["file"], data'[names["file"]] = data[names["file"]]
  PROVE  UNCHANGED <<File, Seen>>
  <1>1. proc[c].exit = None
    BY DEF TypeInv, RunOK, Editing, Saving
  <1> QED BY <1>1, ReturnLeads, Unseen DEF TypeInv

LEMMA RunLooks ==
  ASSUME TypeInv, NEW c \in Cmds, Run(c)
  PROVE  Seen[c] = None /\ Seen' = [Seen EXCEPT ![c] = File] /\ File' = File
  <1>1. /\ At(c, "start") /\ UNCHANGED <<data, private, names>>
        /\ proc[c].src = None /\ proc[c].exit = None
        /\ proc \in [Cmds -> Commands]
    BY DEF Run, TypeInv, TypeOK, RunOK, At
  <1>2. PICK i \in Invocations :
           \/ Edit(c, i)
           \/ Read(c, i, "failed") \/ Read(c, i, "unchanged")
           \/ \E body : Goes(c, i, body) /\ Made(c, i, File, body)
    BY RunGoes
  <1>3. Moves(c) /\ proc'[c].src = File
    BY <1>1, <1>2, EditType, ReadType, GoesType DEF Exits
  <1>4. proc'[c].exit # "ok"
    <2>1. None # "ok"
      BY SopsFileAssumption DEF Exits
    <2>2. CASE Edit(c, i)
      BY <1>1, <2>1, <2>2 DEF Edit, Commands
    <2>3. CASE Read(c, i, "failed") \/ Read(c, i, "unchanged")
      BY <1>1, <2>3, ReadType DEF Exits
    <2>4. CASE \E body : Goes(c, i, body)
      BY <1>1, <2>1, <2>4 DEF Goes, Commands
    <2> QED BY <1>2, <2>2, <2>3, <2>4
  <1>5. None # "ok"
    BY SopsFileAssumption DEF Exits
  <1>6. Seen[c] = None
    BY <1>1, <1>5 DEF Seen
  <1>7. \A d \in Cmds :
          (IF proc'[d].exit = "ok" /\ proc'[d].inv.to = "file" THEN Initial
           ELSE proc'[d].src) = [Seen EXCEPT ![c] = File][d]
    BY <1>3, <1>4 DEF Moves, Seen
  <1>8. Seen' = [Seen EXCEPT ![c] = File]
    <2>1. DOMAIN Seen = Cmds /\ DOMAIN Seen' = Cmds
      BY DEF Seen
    <2> QED BY <1>7, <2>1 DEF Seen
  <1> QED BY <1>1, <1>6, <1>8 DEF File

LEMMA RenameReplaces ==
  ASSUME TypeInv, NonceInv, WriterInv, NEW c \in Cmds, Rename(c)
  PROVE  \/ UNCHANGED <<File, Seen>>
         \/ /\ Seen[c] \notin {None, Initial} /\ SF!Outcome(Seen[c], File')
            /\ Seen' = [Seen EXCEPT ![c] = Initial]
  <1>1. /\ Return(c, "ok") /\ "ok" \in Exits /\ Writing(c) /\ proc[c].pc = "rename"
        /\ data' = data /\ names[Tmp(c)] = proc[c].fd
        /\ names' = [names EXCEPT ![proc[c].inv.to] = names[Tmp(c)], ![Tmp(c)] = None]
        /\ data[proc[c].fd] = proc[c].body
    BY TheWriter DEF Rename, Writing, At, Exits, WriterInv, WriterOK, NonceInv
  <1>2. /\ names'[proc[c].inv.to] = proc[c].fd
        /\ proc[c].inv.to = "out" => names'["file"] = names["file"]
        /\ proc[c].inv.to \in {"file", "out"}
    BY <1>1, WriterNames DEF TypeInv, TypeOK, Saving
  <1>3. CASE proc[c].inv.to = "out"
    BY <1>1, <1>2, <1>3, ReturnUnseen DEF Saving
  <1>4. CASE proc[c].inv.to = "file"
    <2> DEFINE d == proc[c].src
               i == proc[c].inv
               b == proc[c].body
    <2>1. /\ proc[c].exit = None /\ b # None /\ Made(c, i, d, b)
          /\ i # None /\ d # None
      BY <1>1 DEF TypeInv, RunOK, Saving
    <2>2. i \in Invocations /\ d \in Docs \cup {Torn}
      BY <2>1 DEF TypeInv, TypeOK, Commands
    <2>3. d \in SopsDocs => d.key # c
      BY DEF NonceInv
    <2>4. SF!Outcome(d, b)
      <3> HIDE DEF d, i, b
      <3> QED BY <2>1, <2>2, <2>3, MadeOutcome
    <2>5. File' = b
      BY <1>1, <1>2, <1>4 DEF File
    <2>6. Seen[c] = d /\ d \notin {None, Initial}
      <3>1. None # "ok"
        BY SopsFileAssumption DEF Exits
      <3> QED BY <2>1, <2>2, <3>1, SopsFileAssumption DEF Seen
    <2>7. Moves(c) /\ proc'[c].exit = "ok" /\ proc'[c].inv.to = "file"
      BY <1>1, <1>4, ReturnLeads DEF TypeInv
    <2>8. \A e \in Cmds :
            (IF proc'[e].exit = "ok" /\ proc'[e].inv.to = "file" THEN Initial
             ELSE proc'[e].src) = [Seen EXCEPT ![c] = Initial][e]
      BY <2>7 DEF Moves, Seen
    <2>9. Seen' = [Seen EXCEPT ![c] = Initial]
      <3>1. DOMAIN Seen = Cmds /\ DOMAIN Seen' = Cmds
        BY DEF Seen
      <3> QED BY <2>8, <3>1 DEF Seen
    <2> QED BY <2>4, <2>5, <2>6, <2>9
  <1> QED BY <1>2, <1>3, <1>4

LEMMA OthersUnseen ==
  ASSUME TypeInv, NonceInv, WriterInv, ~WritersOverlap, NEW c \in Cmds,
         Proceeds(c) \/ Fails(c) \/ Kill(c), ~Run(c), ~Rename(c)
  PROVE  UNCHANGED <<File, Seen>>
  <1>1. proc \in [Cmds -> Commands] /\ Moves(c)
    BY AllSteps DEF TypeInv, TypeOK, NonceInv, Steps
  <1>2. CASE \/ MakeScratchDir(c) \/ WriteScratch(c) \/ EditorSaves(c) \/ Shred(c)
             \/ Kill(c)
    <2>1. data' = data /\ names' = names
      BY <1>2 DEF MakeScratchDir, WriteScratch, EditorSaves, Shred, Kill
    <2>2. /\ proc'[c].inv = proc[c].inv /\ proc'[c].src = proc[c].src
          /\ proc'[c].exit = proc[c].exit
      <3>1. CASE MakeScratchDir(c)
        BY <1>1, <3>1 DEF MakeScratchDir, Commands
      <3>2. CASE WriteScratch(c)
        BY <1>1, <3>2 DEF WriteScratch, Commands
      <3>3. CASE EditorSaves(c)
        BY <1>1, <3>3 DEF EditorSaves, Commands
      <3>4. CASE Shred(c) \/ Kill(c)
        BY <1>1, <3>4 DEF Shred, Kill, Commands
      <3> QED BY <1>2, <3>1, <3>2, <3>3, <3>4
    <2> QED BY <1>1, <2>1, <2>2, Unseen
  <1>3. CASE Reseal(c)
    <2>1. data' = data /\ names' = names /\ proc[c].pc = "reseal"
      BY <1>3 DEF Reseal, At
    <2>2. CASE Return(c, "unchanged")
      BY <2>1, <2>2, ReturnUnseen DEF Exits, Editing
    <2>3. CASE \E body : proc' = [proc EXCEPT ![c].pc = "create", ![c].body = body]
      <3>1. PICK body : proc' = [proc EXCEPT ![c].pc = "create", ![c].body = body]
        BY <2>3
      <3>2. /\ proc'[c].inv = proc[c].inv /\ proc'[c].src = proc[c].src
            /\ proc'[c].exit = proc[c].exit
        BY <1>1, <3>1 DEF Commands
      <3> QED BY <1>1, <2>1, <3>2, Unseen
    <2> QED BY <1>3, <2>2, <2>3, ResealGoes
  <1>4. CASE Create(c) \/ Write(c) \/ Chmod(c)
    <2>1. /\ proc'[c].inv = proc[c].inv /\ proc'[c].src = proc[c].src
          /\ proc'[c].exit = proc[c].exit
      <3>1. CASE Create(c)
        BY <1>1, <3>1 DEF Create, Commands
      <3>2. CASE Write(c)
        <4>1. proc' = [proc EXCEPT ![c].pc = "chmod"]
          BY <3>2 DEF Write
        <4> QED BY <1>1, <4>1 DEF Commands
      <3>3. CASE Chmod(c)
        BY <1>1, <3>3 DEF Chmod, Commands
      <3> QED BY <1>4, <3>1, <3>2, <3>3
    <2>2. names'["file"] = names["file"]
      BY <1>4, WriterNames DEF Create, Write, Chmod, At, Saving, TypeInv, TypeOK
    <2>3. data'[names["file"]] = data[names["file"]]
      <3>1. names["file"] \in Inodes /\ data \in [Inodes -> Docs \cup {Torn}]
        BY DEF TypeInv, TypeOK
      <3>2. CASE Create(c)
        <4> DEFINE n == IF names[Tmp(c)] = None THEN c ELSE names[Tmp(c)]
        <4>1. Tmp(c) # "file" /\ Tmp(c) \in {"file.tmp", "out.tmp"} /\ names["file"] # c
          BY <3>2, WriterNames DEF Create, At, Saving, WriterInv, NamedLater, Unborn
        <4>2. n # names["file"]
          BY <4>1 DEF WriterInv, NamesApart
        <4>3. data' = [data EXCEPT ![n] = Torn]
          BY <3>2 DEF Create
        <4> QED BY <3>1, <4>2, <4>3
      <3>3. CASE Write(c)
        <4>1. names["file"] # proc[c].fd
          BY <3>3, TheWriter DEF Write, At, Writing, NonceInv
        <4>2. PICK r : data' = [data EXCEPT ![proc[c].fd] = r]
          BY <3>3 DEF Write
        <4> QED BY <3>1, <4>1, <4>2
      <3>4. CASE Chmod(c)
        BY <3>4 DEF Chmod
      <3> QED BY <1>4, <3>2, <3>3, <3>4
    <2> QED BY <1>1, <2>1, <2>2, <2>3, Unseen
  <1>5. CASE ToStdout(c)
    <2>1. proc[c].inv.to = "stdout"
      BY <1>5 DEF ToStdout, At, TypeInv, RunOK
    <2> QED BY <1>5, <2>1, ReturnUnseen DEF ToStdout, At, Exits
  <1>6. CASE Fails(c)
    <2>1. /\ Return(c, "failed") /\ "failed" \in Exits
          /\ proc[c].pc \in Editing \cup Saving
      BY <1>6 DEF Fails, MakeScratchDirFails, WriteScratchFails, EditorFails, CreateFails,
         WriteFails, ChmodFails, RenameFails, At, Exits, Editing, Saving
    <2>2. names'["file"] = names["file"]
      BY <1>6 DEF Fails, MakeScratchDirFails, WriteScratchFails, EditorFails, CreateFails,
         WriteFails, ChmodFails, RenameFails, TypeInv, TypeOK, Tmp, Temp
    <2>3. data'[names["file"]] = data[names["file"]]
      <3>1. CASE WriteFails(c)
        <4>1. names["file"] # proc[c].fd
          BY <3>1, TheWriter DEF WriteFails, At, Writing, NonceInv
        <4> QED BY <3>1, <4>1 DEF WriteFails, TypeInv, TypeOK
      <3>2. CASE ~WriteFails(c)
        BY <1>6, <3>2 DEF Fails, MakeScratchDirFails, WriteScratchFails, EditorFails,
           CreateFails, ChmodFails, RenameFails
      <3> QED BY <3>1, <3>2
    <2> QED BY <2>1, <2>2, <2>3, ReturnUnseen
  <1> QED BY <1>2, <1>3, <1>4, <1>5, <1>6 DEF Proceeds

(***************************************************************************)
(* The commands implement SealedFile while one at a time is inside a       *)
(* write: each looks at the file once and replaces it at most once, in one *)
(* step, by a whole document that is an outcome on what it looked at,      *)
(* whoever fails or is killed at any step.                                 *)
(***************************************************************************)
THEOREM ImplementsSealedFile ==
  ASSUME ~WritersOverlap PROVE Spec => Implements
  <1>1. Init => SF!Init
    <2> SUFFICES ASSUME Init PROVE SF!Init OBVIOUS
    <2>1. File \in Starts /\ \A c \in Cmds : proc[c].src = None /\ proc[c].exit = None
      BY DEF Init, Idle, File, Inodes
    <2>2. File.kind \in {"plain", "sops"}
      BY <2>1, SopsFileAssumption, DocKinds DEF Docs
    <2>3. None # "ok"
      BY SopsFileAssumption DEF Exits
    <2> QED BY <2>1, <2>2, <2>3 DEF SF!Init
  <1>2. ASSUME TypeInv, NonceInv, WriterInv, [Next]_vars
        PROVE  [SF!Next]_<<File, Seen>>
    <2>1. ASSUME NEW c \in Cmds, Run(c) PROVE SF!Look(c)
      <3>1. Seen[c] = None /\ Seen' = [Seen EXCEPT ![c] = File] /\ File' = File
        BY <1>2, <2>1, RunLooks
      <3> QED BY <3>1 DEF SF!Look, Seen
    <2>2. ASSUME NEW c \in Cmds, Rename(c) PROVE SF!Replace(c) \/ UNCHANGED <<File, Seen>>
      <3>1. \/ UNCHANGED <<File, Seen>>
            \/ /\ Seen[c] \notin {None, Initial} /\ SF!Outcome(Seen[c], File')
               /\ Seen' = [Seen EXCEPT ![c] = Initial]
        BY <1>2, <2>2, RenameReplaces
      <3> QED BY <3>1 DEF SF!Replace, Seen
    <2>3. ASSUME NEW c \in Cmds, Proceeds(c) \/ Fails(c) \/ Kill(c), ~Run(c), ~Rename(c)
          PROVE  UNCHANGED <<File, Seen>>
      BY <1>2, <2>3, OthersUnseen
    <2>4. CASE UNCHANGED vars
      BY <2>4 DEF vars, File, Seen
    <2> QED BY <1>2, <2>1, <2>2, <2>3, <2>4 DEF Next, SF!Next
  <1> QED BY <1>1, <1>2, WriterAlways, PTL DEF Spec, Implements, SF!Spec, Seen
=============================================================================
