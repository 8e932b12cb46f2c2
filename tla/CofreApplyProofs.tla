--------------------------- MODULE CofreApplyProofs ---------------------------
(***************************************************************************)
(* Theorems about CofreApply, for every set of plans, items and files, and *)
(* any number of appliers, runs and faults.                                *)
(***************************************************************************)
EXTENDS CofreApply, YamlPathsProofs, FiniteSetTheorems

-----------------------------------------------------------------------------
\* An applier's memory, where its program counter says what it holds.
RunOK(q, j) ==
    /\ q \in Running => /\ j.plan \in Plans /\ j.run \in Runs
                        /\ j.at \in 1..Len(Plan[j.plan]) + 1
    /\ q = "create" => /\ j.at <= Len(Plan[j.plan]) /\ ~j.mock
                       /\ Plan[j.plan][j.at].kind = "akeyless"
                       /\ Plan[j.plan][j.at].gen = "ok"
    /\ q \in {"hook", "seal"} => /\ j.at > Len(Plan[j.plan])
                                 /\ j.open \in j.batches /\ j.draft \in Trees
                                 /\ WellFormed(j.draft)
                                 /\ j.left \subseteq Batch(j.plan, j.open)

TypeInv == TypeOK /\ \A p \in Procs : RunOK(pc[p], job[p])

LEMMA PlanTyped ==
  ASSUME NEW pl \in Plans
  PROVE  /\ Len(Plan[pl]) \in Nat \ {0} /\ DOMAIN Plan[pl] = 1..Len(Plan[pl])
         /\ \A i \in 1..Len(Plan[pl]) : LET s == Plan[pl][i] IN
              /\ s.name \in Names /\ s.kind \in {"akeyless", "sops", "mock"}
              /\ s.gen \in {"external", "unimplemented", "ok"}
              /\ s.kind = "akeyless" => s.item \in Items
              /\ s.kind = "sops" => s.file \in Files /\ s.path \in Paths
  <1>1. Len(Plan[pl]) \in Nat \ {0} /\ DOMAIN Plan[pl] = 1..Len(Plan[pl])
    BY PlanAssumption
  <1> QED BY <1>1, PlanAssumption

LEMMA BatchTyped ==
  ASSUME NEW pl \in Plans, NEW f
  PROVE  /\ Batch(pl, f) \subseteq 1..Len(Plan[pl])
         /\ IsFiniteSet(Batch(pl, f)) /\ Cardinality(Batch(pl, f)) \in Nat
         /\ \A i \in Batch(pl, f) : /\ i \in 1..Len(Plan[pl]) /\ i \in Nat
                                    /\ Plan[pl][i].kind = "sops"
                                    /\ Plan[pl][i].gen # "external"
                                    /\ Plan[pl][i].file = f
                                    /\ Plan[pl][i].path \in Paths
  <1>1. Len(Plan[pl]) \in Nat /\ DOMAIN Plan[pl] = 1..Len(Plan[pl])
    BY PlanTyped
  <1>2. Batch(pl, f) \subseteq 1..Len(Plan[pl])
    BY <1>1 DEF Batch
  <1>3. IsFiniteSet(1..Len(Plan[pl]))
    <2> DEFINE n == Len(Plan[pl])
    <2>1. 1 \in Int /\ n \in Int
      BY <1>1
    <2> HIDE DEF n
    <2>2. IsFiniteSet(1..n)
      BY <2>1, FS_Interval
    <2> QED BY <2>2 DEF n
  <1>4. IsFiniteSet(Batch(pl, f)) /\ Cardinality(Batch(pl, f)) \in Nat
    BY <1>2, <1>3, FS_Subset, FS_CardinalityType
  <1> QED BY <1>1, <1>2, <1>4, PlanTyped DEF Batch

\* One applier's step leaves the others' memories alone.
LEMMA OthersKept ==
  ASSUME NEW p \in Procs, TypeInv, TypeOK', RunOK(pc[p], job[p])',
         \A q \in Procs \ {p} : pc'[q] = pc[q] /\ job'[q] = job[q]
  PROVE  TypeInv'
  BY DEF TypeInv

-----------------------------------------------------------------------------
\* What an applier was started with, and what it did before a step.
Started(j, k) == k.plan = j.plan /\ k.target = j.target /\ k.mock = j.mock /\ k.run = j.run

Total(j) == j.wrote + j.skipped + j.errored

Counts == {"wrote", "skipped", "errored"}

\* Counting touches nothing else.
LEMMA TallyIs ==
  ASSUME NEW j \in Jobs, NEW what \in Counts, NEW n \in Nat
  PROVE  LET k == Tally(j, what, n) IN
         /\ k \in Jobs /\ Started(j, k) /\ Total(k) = Total(j) + n
         /\ k.errored = j.errored + (IF what = "errored" THEN n ELSE 0)
         /\ k.at = j.at /\ k.batches = j.batches /\ k.open = j.open
         /\ k.left = j.left /\ k.draft = j.draft /\ k.dirty = j.dirty /\ k.code = j.code
  <1> DEFINE k == Tally(j, what, n)
             w == IF what = "wrote" THEN j.wrote + n ELSE j.wrote
             x == IF what = "skipped" THEN j.skipped + n ELSE j.skipped
             e == IF what = "errored" THEN j.errored + n ELSE j.errored
  <1>1. j.wrote \in Nat /\ j.skipped \in Nat /\ j.errored \in Nat
    BY DEF Jobs
  <1>2. w \in Nat /\ x \in Nat /\ e \in Nat
        /\ e = j.errored + (IF what = "errored" THEN n ELSE 0)
        /\ w + x + e = j.wrote + j.skipped + j.errored + n
    BY <1>1 DEF Counts
  <1>3. k = [j EXCEPT !.wrote = w, !.skipped = x, !.errored = e]
    BY DEF Tally, Jobs
  <1> HIDE DEF k, w, x, e
  <1>4. k \in Jobs
    BY <1>2, <1>3 DEF Jobs
  <1>5. k.wrote = w /\ k.skipped = x /\ k.errored = e
    BY <1>3 DEF Jobs
  <1>6. /\ k.plan = j.plan /\ k.target = j.target /\ k.mock = j.mock /\ k.run = j.run
        /\ k.at = j.at /\ k.batches = j.batches /\ k.open = j.open
    BY <1>3 DEF Jobs
  <1>7. /\ k.left = j.left /\ k.draft = j.draft /\ k.dirty = j.dirty /\ k.code = j.code
    BY <1>3 DEF Jobs
  <1> QED BY <1>2, <1>4, <1>5, <1>6, <1>7 DEF k, Started, Total

\* What each way of updating a memory leaves.
LEMMA CountIs ==
  ASSUME job \in [Procs -> Jobs], NEW p \in Procs, NEW what \in Counts,
         job' = Count(p, what)
  PROVE  LET j == job[p]  k == job'[p] IN
         /\ job' \in [Procs -> Jobs] /\ \A q \in Procs \ {p} : job'[q] = job[q]
         /\ Started(j, k) /\ Total(k) = Total(j) + 1
         /\ k.errored = j.errored + (IF what = "errored" THEN 1 ELSE 0)
         /\ k.at = j.at + 1 /\ k.batches = j.batches /\ k.open = j.open
         /\ k.left = j.left /\ k.draft = j.draft /\ k.dirty = j.dirty /\ k.code = j.code
  <1> DEFINE j == job[p]
             i == [j EXCEPT !.at = @ + 1]
             k == Tally(i, what, 1)
  <1>1. j \in Jobs
    OBVIOUS
  <1>2. /\ i \in Jobs /\ Started(j, i) /\ Total(i) = Total(j) /\ i.errored = j.errored
        /\ i.at = j.at + 1 /\ i.batches = j.batches /\ i.open = j.open
        /\ i.left = j.left /\ i.draft = j.draft /\ i.dirty = j.dirty /\ i.code = j.code
    <2> HIDE DEF j
    <2> QED BY <1>1 DEF Jobs, Started, Total
  <1>3. job' = [job EXCEPT ![p] = k]
    BY DEF Count
  <1> HIDE DEF i, j
  <1>4. /\ k \in Jobs /\ Started(i, k) /\ Total(k) = Total(i) + 1
        /\ k.errored = i.errored + (IF what = "errored" THEN 1 ELSE 0)
        /\ k.at = i.at /\ k.batches = i.batches /\ k.open = i.open
        /\ k.left = i.left /\ k.draft = i.draft /\ k.dirty = i.dirty /\ k.code = i.code
    BY <1>2, TallyIs
  <1> HIDE DEF k
  <1>5. job'[p] = k /\ job' \in [Procs -> Jobs] /\ \A q \in Procs \ {p} : job'[q] = job[q]
    BY <1>3, <1>4
  <1> QED BY <1>2, <1>4, <1>5 DEF Started, j

LEMMA ExitIs ==
  ASSUME job \in [Procs -> Jobs], NEW p \in Procs, NEW c \in {0, 1, 4, 5},
         pc \in [Procs -> Running \cup {"idle", "done", "crashed"}], Exit(p, c)
  PROVE  LET j == job[p]  k == job'[p] IN
         /\ job' \in [Procs -> Jobs] /\ \A q \in Procs \ {p} : job'[q] = job[q]
         /\ pc' \in [Procs -> Running \cup {"idle", "done", "crashed"}]
         /\ pc'[p] = "done" /\ \A q \in Procs \ {p} : pc'[q] = pc[q]
         /\ Started(j, k) /\ Total(k) = Total(j) /\ k.code = c
         /\ k.batches = j.batches /\ k.at = j.at /\ k.errored = j.errored
  <1> DEFINE j == job[p]
             k == [j EXCEPT !.code = c]
  <1>1. j \in Jobs
    OBVIOUS
  <1>2. job' = [job EXCEPT ![p] = k]
    BY <1>1 DEF Exit
  <1>3. /\ k \in Jobs /\ Started(j, k) /\ Total(k) = Total(j) /\ k.code = c
        /\ k.batches = j.batches /\ k.at = j.at /\ k.errored = j.errored
    <2> HIDE DEF j
    <2> QED BY <1>1 DEF Jobs, Started, Total
  <1> HIDE DEF k
  <1>4. job'[p] = k /\ job' \in [Procs -> Jobs] /\ \A q \in Procs \ {p} : job'[q] = job[q]
    BY <1>2, <1>3
  <1> QED BY <1>3, <1>4 DEF Exit

LEMMA CloseIs ==
  ASSUME job \in [Procs -> Jobs], NEW p \in Procs, NEW what \in Counts,
         pc \in [Procs -> Running \cup {"idle", "done", "crashed"}],
         job[p].plan \in Plans, Close(p, what)
  PROVE  LET j == job[p]  k == job'[p] IN
         /\ job' \in [Procs -> Jobs] /\ \A q \in Procs \ {p} : job'[q] = job[q]
         /\ pc' \in [Procs -> Running \cup {"idle", "done", "crashed"}]
         /\ pc'[p] = "loop" /\ \A q \in Procs \ {p} : pc'[q] = pc[q]
         /\ Started(j, k) /\ Total(k) = Total(j) + Cardinality(Batch(j.plan, j.open))
         /\ k.errored = j.errored + (IF what = "errored"
                                    THEN Cardinality(Batch(j.plan, j.open)) ELSE 0)
         /\ k.at = j.at /\ k.batches = j.batches \ {j.open} /\ k.left = {}
         /\ k.code = j.code
  <1> DEFINE j == job[p]
             i == Closed(j)
             n == Cardinality(Batch(j.plan, j.open))
             k == Tally(i, what, n)
  <1>1. j \in Jobs /\ n \in Nat
    BY BatchTyped
  <1>2. /\ i \in Jobs /\ Started(j, i) /\ Total(i) = Total(j) /\ i.errored = j.errored
        /\ i.at = j.at /\ i.batches = j.batches \ {j.open} /\ i.left = {}
        /\ i.code = j.code
    <2> HIDE DEF j
    <2>1. /\ j.batches \ {j.open} \in SUBSET Files
          /\ {} \in SUBSET Nat
      BY <1>1 DEF Jobs
    <2>2. i \in Jobs
      BY <1>1, <2>1 DEF Jobs, Closed
    <2>3. /\ i.batches = j.batches \ {j.open} /\ i.left = {}
          /\ i.at = j.at /\ i.code = j.code
      BY <1>1 DEF Jobs, Closed
    <2>4. Started(j, i) /\ Total(i) = Total(j) /\ i.errored = j.errored
      BY <1>1 DEF Jobs, Started, Total, Closed
    <2> QED BY <2>2, <2>3, <2>4
  <1>3. job' = [job EXCEPT ![p] = k]
    BY DEF Close
  <1> HIDE DEF i, j, n
  <1>4. /\ k \in Jobs /\ Started(i, k) /\ Total(k) = Total(i) + n
        /\ k.errored = i.errored + (IF what = "errored" THEN n ELSE 0)
        /\ k.at = i.at /\ k.batches = i.batches /\ k.left = i.left /\ k.code = i.code
    BY <1>1, <1>2, TallyIs
  <1> HIDE DEF k
  <1>5. job'[p] = k /\ job' \in [Procs -> Jobs] /\ \A q \in Procs \ {p} : job'[q] = job[q]
    BY <1>3, <1>4
  <1>6. /\ pc' \in [Procs -> Running \cup {"idle", "done", "crashed"}]
        /\ pc'[p] = "loop" /\ \A q \in Procs \ {p} : pc'[q] = pc[q]
    BY DEF Close, Running
  <1> QED BY <1>2, <1>4, <1>5, <1>6 DEF Started, j, n

LEMMA InitType == Init => TypeInv
  <1> SUFFICES ASSUME Init PROVE TypeInv OBVIOUS
  <1>1. NoJob \in Jobs
    BY DEF NoJob, Jobs
  <1>2. \A p \in Procs : pc[p] = "idle"
    BY DEF Init
  <1>3. job \in [Procs -> Jobs]
    BY <1>1 DEF Init
  <1>4. store \in [Items -> Values \cup {None}]
    BY DEF Init, Values
  <1>5. doc \in [Files -> Trees] /\ \A f \in Files : WellFormed(doc[f])
    BY PlanAssumption DEF Init
  <1>6. TypeOK
    BY <1>2, <1>3, <1>4, <1>5 DEF Init, TypeOK
  <1> QED BY <1>2, <1>6 DEF TypeInv, RunOK, Running

-----------------------------------------------------------------------------
(***************************************************************************)
(* The type invariant, action by action.                                   *)
(***************************************************************************)
PCs == Running \cup {"idle", "done", "crashed"}

LEMMA RunningTyped ==
  ASSUME TypeInv, NEW p \in Procs, pc[p] \in Running
  PROVE  /\ job[p] \in Jobs /\ job[p].plan \in Plans /\ job[p].run \in Runs
         /\ job[p].at \in Nat /\ job[p].at >= 1
         /\ Len(Plan[job[p].plan]) \in Nat /\ job[p].at <= Len(Plan[job[p].plan]) + 1
  <1>1. job[p] \in Jobs
    BY DEF TypeInv, TypeOK
  <1>2. /\ job[p].plan \in Plans /\ job[p].run \in Runs
        /\ job[p].at \in 1..Len(Plan[job[p].plan]) + 1
    BY DEF TypeInv, RunOK
  <1>3. Len(Plan[job[p].plan]) \in Nat
    BY <1>2, PlanTyped
  <1> QED BY <1>1, <1>2, <1>3

LEMMA CurTyped ==
  ASSUME TypeInv, NEW p \in Procs, pc[p] \in Running,
         job[p].at <= Len(Plan[job[p].plan])
  PROVE  /\ job[p].at \in 1..Len(Plan[job[p].plan])
         /\ Cur(p).name \in Names /\ Cur(p).kind \in {"akeyless", "sops", "mock"}
         /\ Cur(p).gen \in {"external", "unimplemented", "ok"}
         /\ Cur(p).kind = "akeyless" => Cur(p).item \in Items
         /\ Cur(p).kind = "sops" => Cur(p).file \in Files /\ Cur(p).path \in Paths
         /\ NewValue(p, Cur(p)) \in Values
  <1>1. job[p].at \in 1..Len(Plan[job[p].plan])
    BY RunningTyped
  <1>2. job[p].plan \in Plans /\ job[p].run \in Runs
    BY RunningTyped
  <1>3. /\ Cur(p).name \in Names /\ Cur(p).kind \in {"akeyless", "sops", "mock"}
        /\ Cur(p).gen \in {"external", "unimplemented", "ok"}
        /\ Cur(p).kind = "akeyless" => Cur(p).item \in Items
        /\ Cur(p).kind = "sops" => Cur(p).file \in Files /\ Cur(p).path \in Paths
    BY <1>1, <1>2, PlanTyped DEF Cur
  <1> QED BY <1>1, <1>2, <1>3 DEF NewValue, Values

\* A step that leaves the documents alone and whose applier is consistent.
LEMMA TypeKept ==
  ASSUME TypeInv, NEW p \in Procs,
         runs' \in Nat, faults' \in Nat, store' \in [Items -> Values \cup {None}],
         doc' \in [Files -> Trees], \A f \in Files : WellFormed(doc[f])',
         pc' \in [Procs -> PCs], job' \in [Procs -> Jobs],
         \A q \in Procs \ {p} : pc'[q] = pc[q] /\ job'[q] = job[q],
         RunOK(pc[p], job[p])'
  PROVE  TypeInv'
  <1>1. \A q \in Procs : RunOK(pc[q], job[q])'
    BY DEF TypeInv
  <1>2. \A q \in Procs : pc'[q] \in {"hook", "seal"} =>
          job'[q].open \in job'[q].batches /\ WellFormed(job[q].draft)'
    BY <1>1 DEF RunOK, WellFormed
  <1> QED BY <1>1, <1>2 DEF TypeInv, TypeOK, PCs

LEMMA CountType ==
  ASSUME TypeInv, NEW p \in Procs, NEW what \in Counts, pc[p] \in {"loop", "create"},
         job[p].at <= Len(Plan[job[p].plan]), job' = Count(p, what),
         runs' = runs, faults' \in Nat, store' \in [Items -> Values \cup {None}],
         doc' = doc, pc' = [pc EXCEPT ![p] = "loop"] \/ (pc[p] = "loop" /\ pc' = pc)
  PROVE  TypeInv'
  <1>1. /\ job \in [Procs -> Jobs] /\ pc \in [Procs -> PCs] /\ doc \in [Files -> Trees]
        /\ runs \in Nat /\ \A f \in Files : WellFormed(doc[f])
    BY DEF TypeInv, TypeOK, PCs
  <1>2. /\ pc' \in [Procs -> PCs] /\ pc'[p] = "loop"
        /\ \A q \in Procs \ {p} : pc'[q] = pc[q]
    BY <1>1 DEF PCs, Running
  <1>3. /\ job' \in [Procs -> Jobs] /\ \A q \in Procs \ {p} : job'[q] = job[q]
        /\ Started(job[p], job'[p]) /\ job'[p].at = job[p].at + 1
    BY <1>1, CountIs
  <1>4. /\ job[p].plan \in Plans /\ job[p].run \in Runs /\ job[p].at \in Nat
        /\ job[p].at >= 1 /\ Len(Plan[job[p].plan]) \in Nat
    BY RunningTyped DEF Running
  <1>5. RunOK(pc[p], job[p])'
    BY <1>2, <1>3, <1>4 DEF RunOK, Started, Running
  <1> QED BY <1>1, <1>2, <1>3, <1>5, TypeKept DEF WellFormed

LEMMA ExitType ==
  ASSUME TypeInv, NEW p \in Procs, NEW c \in {0, 1, 4, 5}, Exit(p, c),
         runs' = runs, faults' \in Nat, store' = store, doc' = doc
  PROVE  TypeInv'
  <1>1. /\ job \in [Procs -> Jobs] /\ pc \in [Procs -> PCs] /\ doc \in [Files -> Trees]
        /\ runs \in Nat /\ \A f \in Files : WellFormed(doc[f])
        /\ store \in [Items -> Values \cup {None}]
    BY DEF TypeInv, TypeOK, PCs
  <1>2. /\ job' \in [Procs -> Jobs] /\ \A q \in Procs \ {p} : job'[q] = job[q]
        /\ pc' \in [Procs -> PCs]
        /\ pc'[p] = "done" /\ \A q \in Procs \ {p} : pc'[q] = pc[q]
    BY <1>1, ExitIs DEF PCs
  <1>3. RunOK(pc[p], job[p])'
    BY <1>2 DEF RunOK, Running
  <1> QED BY <1>1, <1>2, <1>3, TypeKept DEF WellFormed

LEMMA CloseType ==
  ASSUME TypeInv, NEW p \in Procs, NEW what \in Counts, pc[p] \in {"hook", "seal"},
         Close(p, what), runs' = runs, faults' \in Nat, store' = store,
         doc' \in [Files -> Trees], \A f \in Files : WellFormed(doc[f])'
  PROVE  TypeInv'
  <1>1. /\ job \in [Procs -> Jobs] /\ pc \in [Procs -> PCs]
        /\ runs \in Nat /\ store \in [Items -> Values \cup {None}]
    BY DEF TypeInv, TypeOK, PCs
  <1>2. /\ job[p].plan \in Plans /\ job[p].run \in Runs /\ job[p].at \in Nat
        /\ job[p].at >= 1 /\ Len(Plan[job[p].plan]) \in Nat
        /\ job[p].at <= Len(Plan[job[p].plan]) + 1
    BY RunningTyped DEF Running
  <1>3. /\ job' \in [Procs -> Jobs] /\ \A q \in Procs \ {p} : job'[q] = job[q]
        /\ pc' \in [Procs -> PCs]
        /\ pc'[p] = "loop" /\ \A q \in Procs \ {p} : pc'[q] = pc[q]
        /\ Started(job[p], job'[p]) /\ job'[p].at = job[p].at
    BY <1>1, <1>2, CloseIs DEF PCs
  <1>4. RunOK(pc[p], job[p])'
    BY <1>2, <1>3 DEF RunOK, Started, Running
  <1> QED BY <1>1, <1>3, <1>4, TypeKept

\* A new apply: refused at once, or at the first secret with nothing done.
LEMMA ApplyIs ==
  ASSUME TypeInv, NEW p \in Procs, NEW pl \in Plans, NEW t \in Names \cup {None},
         NEW mock \in BOOLEAN, Apply(p, pl, t, mock)
  PROVE  LET k == job'[p] IN
         /\ job' \in [Procs -> Jobs] /\ \A q \in Procs \ {p} : job'[q] = job[q]
         /\ pc' \in [Procs -> PCs] /\ \A q \in Procs \ {p} : pc'[q] = pc[q]
         /\ \/ pc'[p] = "done" /\ k.code = 4
            \/ /\ pc'[p] = "loop" /\ (t = None \/ Rotatable(pl, t))
               /\ k.plan = pl /\ k.target = t /\ k.mock = mock /\ k.run \in Runs
               /\ k.at = 1 /\ k.batches = {} /\ Total(k) = 0
  <1> DEFINE r == runs + 1
             i == [NoJob EXCEPT !.plan = pl, !.target = t, !.mock = mock, !.run = r]
             k == [i EXCEPT !.code = 4]
  <1>1. job \in [Procs -> Jobs] /\ pc \in [Procs -> PCs] /\ runs \in Nat
    BY DEF TypeInv, TypeOK, PCs
  <1>2. r \in Runs
    BY <1>1, PlanAssumption DEF Apply, Runs
  <1>3. /\ pc'[p] \in {"done", "loop"} /\ pc' \in [Procs -> PCs]
        /\ \A q \in Procs \ {p} : pc'[q] = pc[q]
    BY <1>1 DEF Apply, PCs, Running
  <1>4. \/ /\ job' = [job EXCEPT ![p] = i] /\ pc'[p] = "loop"
           /\ t = None \/ Rotatable(pl, t)
        \/ job' = [job EXCEPT ![p] = k] /\ pc'[p] = "done"
    BY <1>1 DEF Apply
  <1> HIDE DEF r
  <1>5. /\ i \in Jobs /\ i.plan = pl /\ i.run = r /\ i.at = 1
        /\ i.target = t /\ i.mock = mock /\ i.batches = {}
    BY <1>2 DEF NoJob, Jobs
  <1>6. Total(i) = 0
    BY DEF NoJob, Total
  <1> HIDE DEF i
  <1>7. k \in Jobs /\ k.code = 4
    BY <1>5 DEF Jobs
  <1> HIDE DEF k
  <1>8. /\ job' \in [Procs -> Jobs] /\ \A q \in Procs \ {p} : job'[q] = job[q]
        /\ \/ pc'[p] = "done" /\ job'[p] = k
           \/ pc'[p] = "loop" /\ job'[p] = i /\ (t = None \/ Rotatable(pl, t))
    BY <1>1, <1>4, <1>5, <1>7
  <1> QED BY <1>2, <1>3, <1>5, <1>6, <1>7, <1>8

LEMMA ApplyType ==
  ASSUME TypeInv, NEW p \in Procs, NEW pl \in Plans, NEW t \in Names \cup {None},
         NEW mock \in BOOLEAN, Apply(p, pl, t, mock)
  PROVE  TypeInv'
  <1>1. /\ doc \in [Files -> Trees] /\ runs \in Nat /\ faults \in Nat
        /\ \A f \in Files : WellFormed(doc[f])
        /\ store \in [Items -> Values \cup {None}]
    BY DEF TypeInv, TypeOK
  <1>2. /\ job' \in [Procs -> Jobs] /\ \A q \in Procs \ {p} : job'[q] = job[q]
        /\ pc' \in [Procs -> PCs] /\ \A q \in Procs \ {p} : pc'[q] = pc[q]
        /\ \/ pc'[p] = "done"
           \/ /\ pc'[p] = "loop" /\ job'[p].plan = pl
              /\ job'[p].run \in Runs /\ job'[p].at = 1
    BY ApplyIs
  <1>3. Len(Plan[pl]) \in Nat
    BY PlanTyped
  <1>4. RunOK(pc[p], job[p])'
    BY <1>2, <1>3 DEF RunOK, Running
  <1>5. runs' = runs + 1 /\ faults' = faults /\ store' = store /\ doc' = doc
    BY DEF Apply
  <1> QED BY <1>1, <1>2, <1>4, <1>5, TypeKept DEF WellFormed

\* Queued sops entries and the login.
LEMMA QueueIs ==
  ASSUME TypeInv, NEW p \in Procs, QueueSops(p)
  PROVE  LET j == job[p]  k == job'[p] IN
         /\ job' \in [Procs -> Jobs] /\ \A q \in Procs \ {p} : job'[q] = job[q]
         /\ Started(j, k) /\ Total(k) = Total(j) /\ k.errored = j.errored
         /\ k.at = j.at + 1 /\ k.batches = j.batches \cup {Cur(p).file}
         /\ k.code = j.code
  <1> DEFINE j == job[p]
             b == j.batches \cup {Cur(p).file}
             a == j.at + 1
             k == [j EXCEPT !.batches = b, !.at = a]
  <1>1. j \in Jobs /\ Cur(p).file \in Files /\ job \in [Procs -> Jobs]
    BY RunningTyped, CurTyped DEF QueueSops, InLoop, Running, TypeInv, TypeOK
  <1>2. job' = [job EXCEPT ![p] = k]
    BY <1>1 DEF QueueSops
  <1> HIDE DEF j
  <1>3. b \in SUBSET Files /\ a \in Nat
    BY <1>1 DEF Jobs
  <1> HIDE DEF a, b
  <1>4. /\ k \in Jobs /\ Started(j, k) /\ Total(k) = Total(j) /\ k.errored = j.errored
        /\ k.at = a /\ k.batches = b /\ k.code = j.code
    <2>1. k \in Jobs
      BY <1>1, <1>3 DEF Jobs
    <2>2. k.at = a /\ k.batches = b /\ k.code = j.code
      BY <1>1 DEF Jobs
    <2>3. Started(j, k)
      BY <1>1 DEF Jobs, Started
    <2>4. Total(k) = Total(j) /\ k.errored = j.errored
      BY <1>1 DEF Jobs, Total
    <2> QED BY <2>1, <2>2, <2>3, <2>4
  <1> HIDE DEF k
  <1>5. job'[p] = k /\ job' \in [Procs -> Jobs] /\ \A q \in Procs \ {p} : job'[q] = job[q]
    BY <1>1, <1>2, <1>4
  <1> QED BY <1>4, <1>5 DEF j, b, a

LEMMA LoginIs ==
  ASSUME TypeInv, NEW p \in Procs, Login(p)
  PROVE  LET j == job[p]  k == job'[p] IN
         /\ job' \in [Procs -> Jobs] /\ \A q \in Procs \ {p} : job'[q] = job[q]
         /\ Started(j, k) /\ Total(k) = Total(j) /\ k.errored = j.errored
         /\ k.at = j.at /\ k.batches = j.batches /\ k.code = j.code
  <1> DEFINE j == job[p]
             k == [j EXCEPT !.authed = TRUE]
  <1>1. j \in Jobs /\ job \in [Procs -> Jobs]
    BY DEF TypeInv, TypeOK
  <1>2. job' = [job EXCEPT ![p] = k]
    BY <1>1 DEF Login
  <1> HIDE DEF j
  <1>3. /\ k \in Jobs /\ Started(j, k) /\ Total(k) = Total(j) /\ k.errored = j.errored
        /\ k.at = j.at /\ k.batches = j.batches /\ k.code = j.code
    BY <1>1 DEF Jobs, Started, Total
  <1> HIDE DEF k
  <1>4. job'[p] = k /\ job' \in [Procs -> Jobs] /\ \A q \in Procs \ {p} : job'[q] = job[q]
    BY <1>1, <1>2, <1>3
  <1> QED BY <1>3, <1>4 DEF j

LEMMA LoopType ==
  ASSUME TypeInv, NEW p \in Procs,
         \/ SkipExternal(p) \/ QueueSops(p) \/ MockOne(p) \/ RefuseMock(p)
         \/ Login(p) \/ LoginFails(p) \/ Describe(p) \/ DescribeFails(p)
  PROVE  TypeInv'
  <1>1. /\ job \in [Procs -> Jobs] /\ pc \in [Procs -> PCs] /\ doc \in [Files -> Trees]
        /\ runs \in Nat /\ faults \in Nat /\ \A f \in Files : WellFormed(doc[f])
        /\ store \in [Items -> Values \cup {None}]
    BY DEF TypeInv, TypeOK, PCs
  <1>2. pc[p] = "loop" /\ job[p].at <= Len(Plan[job[p].plan])
    BY DEF SkipExternal, QueueSops, MockOne, RefuseMock, Login, LoginFails, Describe,
           DescribeFails, OnAkeyless, InLoop
  <1>3. /\ job[p].plan \in Plans /\ job[p].run \in Runs /\ job[p].at \in Nat
        /\ job[p].at >= 1 /\ Len(Plan[job[p].plan]) \in Nat
    BY <1>2, RunningTyped DEF Running
  <1>4. ASSUME NEW what \in Counts, job' = Count(p, what), UNCHANGED <<runs, store, doc, pc>>,
               faults' \in Nat
        PROVE  TypeInv'
    BY <1>1, <1>2, <1>4, CountType
  <1>5. CASE SkipExternal(p)
    BY <1>1, <1>4, <1>5 DEF SkipExternal, Counts
  <1>6. CASE MockOne(p)
    BY <1>1, <1>4, <1>6 DEF MockOne, Counts
  <1>7. CASE DescribeFails(p)
    BY <1>1, <1>4, <1>7 DEF DescribeFails, Counts
  <1>8. CASE RefuseMock(p)
    BY <1>1, <1>8, ExitType DEF RefuseMock
  <1>9. CASE LoginFails(p)
    BY <1>1, <1>9, ExitType DEF LoginFails
  <1>10. CASE QueueSops(p)
    <2>1. /\ job' \in [Procs -> Jobs] /\ \A q \in Procs \ {p} : job'[q] = job[q]
          /\ Started(job[p], job'[p]) /\ job'[p].at = job[p].at + 1
      BY <1>10, QueueIs
    <2>2. UNCHANGED <<runs, faults, store, doc, pc>>
      BY <1>10 DEF QueueSops
    <2>3. RunOK(pc[p], job[p])'
      BY <1>2, <1>3, <2>1, <2>2 DEF RunOK, Started, Running
    <2> QED BY <1>1, <2>1, <2>2, <2>3, TypeKept DEF WellFormed
  <1>11. CASE Login(p)
    <2>1. /\ job' \in [Procs -> Jobs] /\ \A q \in Procs \ {p} : job'[q] = job[q]
          /\ Started(job[p], job'[p]) /\ job'[p].at = job[p].at
      BY <1>11, LoginIs
    <2>2. UNCHANGED <<runs, faults, store, doc, pc>>
      BY <1>11 DEF Login
    <2>3. RunOK(pc[p], job[p])'
      BY <1>2, <1>3, <2>1, <2>2 DEF RunOK, Started, Running
    <2> QED BY <1>1, <2>1, <2>2, <2>3, TypeKept DEF WellFormed
  <1>12. CASE Describe(p)
    <2>1. UNCHANGED <<runs, faults, store, doc>>
      BY <1>12 DEF Describe
    <2>2. \/ job' = Count(p, "wrote") /\ UNCHANGED pc
          \/ job' = Count(p, "errored") /\ UNCHANGED pc
          \/ pc' = [pc EXCEPT ![p] = "create"] /\ UNCHANGED job /\ Cur(p).gen = "ok"
      BY <1>12 DEF Describe, Answered
    <2>3. CASE pc' = [pc EXCEPT ![p] = "create"] /\ UNCHANGED job /\ Cur(p).gen = "ok"
      <3>1. /\ pc' \in [Procs -> PCs] /\ pc'[p] = "create"
            /\ \A q \in Procs \ {p} : pc'[q] = pc[q]
        BY <1>1, <2>3 DEF PCs, Running
      <3>2. Cur(p).kind = "akeyless" /\ ~job[p].mock
        BY <1>12 DEF Describe, OnAkeyless
      <3>3. RunOK(pc[p], job[p])'
        BY <1>2, <1>3, <2>3, <3>1, <3>2 DEF RunOK, Running, Cur
      <3> QED BY <1>1, <2>1, <2>3, <3>1, <3>3, TypeKept DEF WellFormed
    <2> QED BY <1>1, <1>4, <2>1, <2>2, <2>3 DEF Counts
  <1> QED BY <1>5, <1>6, <1>7, <1>8, <1>9, <1>10, <1>11, <1>12

LEMMA HookTyped ==
  ASSUME TypeInv, NEW p \in Procs, pc[p] \in {"hook", "seal"}
  PROVE  LET j == job[p] IN
         /\ j \in Jobs /\ j.plan \in Plans /\ j.run \in Runs
         /\ Len(Plan[j.plan]) \in Nat /\ j.at = Len(Plan[j.plan]) + 1
         /\ j.open \in j.batches /\ j.open \in Files
         /\ j.draft \in Trees /\ WellFormed(j.draft)
         /\ j.left \subseteq Batch(j.plan, j.open)
  <1>1. /\ job[p] \in Jobs /\ job[p].plan \in Plans /\ job[p].run \in Runs
        /\ job[p].at \in Nat /\ Len(Plan[job[p].plan]) \in Nat
        /\ job[p].at <= Len(Plan[job[p].plan]) + 1
    BY RunningTyped DEF Running
  <1>2. /\ job[p].at > Len(Plan[job[p].plan])
        /\ job[p].open \in job[p].batches /\ job[p].draft \in Trees
        /\ WellFormed(job[p].draft)
        /\ job[p].left \subseteq Batch(job[p].plan, job[p].open)
    BY DEF TypeInv, RunOK
  <1>3. job[p].batches \subseteq Files
    BY <1>1 DEF Jobs
  <1> QED BY <1>1, <1>2, <1>3

\* The entry the hook is at.
LEMMA EntryTyped ==
  ASSUME TypeInv, NEW p \in Procs, pc[p] \in {"hook", "seal"}, NEW i \in job[p].left
  PROVE  LET e == EntryAt(p, i) IN
         /\ i \in 1..Len(Plan[job[p].plan]) /\ i \in Batch(job[p].plan, job[p].open)
         /\ e.kind = "sops" /\ e.gen # "external" /\ e.file = job[p].open
         /\ e.path \in Paths /\ e.path \in Nodes /\ e.name \in Names
         /\ NewValue(p, e) \in Values
  <1>1. job[p].plan \in Plans /\ job[p].run \in Runs
        /\ i \in Batch(job[p].plan, job[p].open)
    BY HookTyped
  <1>2. /\ i \in 1..Len(Plan[job[p].plan])
        /\ EntryAt(p, i).kind = "sops" /\ EntryAt(p, i).gen # "external"
        /\ EntryAt(p, i).file = job[p].open /\ EntryAt(p, i).path \in Paths
    BY <1>1, BatchTyped DEF EntryAt
  <1>3. EntryAt(p, i).name \in Names
    BY <1>1, <1>2, PlanTyped DEF EntryAt
  <1> QED BY <1>1, <1>2, <1>3 DEF NewValue, Values, Nodes

LEMMA OpenIs ==
  ASSUME TypeInv, NEW p \in Procs, NEW f \in Files, OpenFile(p, f)
  PROVE  LET j == job[p]  k == job'[p] IN
         /\ job' \in [Procs -> Jobs] /\ \A q \in Procs \ {p} : job'[q] = job[q]
         /\ Started(j, k) /\ Total(k) = Total(j) /\ k.errored = j.errored
         /\ k.at = j.at /\ k.batches = j.batches /\ k.code = j.code
         /\ k.open = f /\ k.left = Batch(j.plan, f) /\ k.draft = doc[f]
         /\ ~k.dirty /\ j.at = Len(Plan[j.plan]) + 1 /\ f \in j.batches
  <1> DEFINE j == job[p]
             b == Batch(j.plan, f)
             d == doc[f]
             k == [j EXCEPT !.open = f, !.left = b, !.draft = d, !.dirty = FALSE]
  <1>1. /\ j \in Jobs /\ job \in [Procs -> Jobs] /\ j.plan \in Plans /\ d \in Trees
        /\ j.at \in Nat /\ Len(Plan[j.plan]) \in Nat /\ j.at <= Len(Plan[j.plan]) + 1
    BY RunningTyped DEF OpenFile, PastLoop, Running, TypeInv, TypeOK
  <1>2. job' = [job EXCEPT ![p] = k]
    BY <1>1 DEF OpenFile
  <1>3. b \in SUBSET Nat
    BY <1>1, BatchTyped
  <1>4. j.at = Len(Plan[j.plan]) + 1 /\ f \in j.batches
    BY <1>1 DEF OpenFile, PastLoop
  <1> HIDE DEF j, b, d
  <1>5. k \in Jobs
    BY <1>1, <1>3 DEF Jobs
  <1>6. Started(j, k) /\ k.at = j.at /\ k.batches = j.batches /\ k.code = j.code
    BY <1>1 DEF Jobs, Started
  <1>7. Total(k) = Total(j) /\ k.errored = j.errored
    BY <1>1 DEF Jobs, Total
  <1>8. k.open = f /\ k.left = b /\ k.draft = d /\ k.dirty = FALSE
    BY <1>1 DEF Jobs
  <1> HIDE DEF k
  <1>9. job'[p] = k /\ job' \in [Procs -> Jobs] /\ \A q \in Procs \ {p} : job'[q] = job[q]
    BY <1>1, <1>2, <1>5
  <1> QED BY <1>4, <1>6, <1>7, <1>8, <1>9 DEF j, b, d

LEMMA KeepIs ==
  ASSUME TypeInv, NEW p \in Procs, NEW i, KeepEntry(p, i)
  PROVE  LET j == job[p]  k == job'[p] IN
         /\ job' \in [Procs -> Jobs] /\ \A q \in Procs \ {p} : job'[q] = job[q]
         /\ Started(j, k) /\ Total(k) = Total(j) /\ k.errored = j.errored
         /\ k.at = j.at /\ k.batches = j.batches /\ k.code = j.code
         /\ k.open = j.open /\ k.left = j.left \ {i} /\ k.draft = j.draft
         /\ k.dirty = j.dirty
  <1> DEFINE j == job[p]
             b == j.left \ {i}
             k == [j EXCEPT !.left = b]
  <1>1. j \in Jobs /\ job \in [Procs -> Jobs]
    BY DEF TypeInv, TypeOK
  <1>2. job' = [job EXCEPT ![p] = k]
    BY <1>1 DEF KeepEntry
  <1>3. b \in SUBSET Nat
    BY <1>1 DEF Jobs
  <1> HIDE DEF j, b
  <1>4. k \in Jobs
    BY <1>1, <1>3 DEF Jobs
  <1>5. Started(j, k) /\ k.at = j.at /\ k.batches = j.batches /\ k.code = j.code
    BY <1>1 DEF Jobs, Started
  <1>6. Total(k) = Total(j) /\ k.errored = j.errored
    BY <1>1 DEF Jobs, Total
  <1>7. k.open = j.open /\ k.left = b /\ k.draft = j.draft /\ k.dirty = j.dirty
    BY <1>1 DEF Jobs
  <1> HIDE DEF k
  <1>8. job'[p] = k /\ job' \in [Procs -> Jobs] /\ \A q \in Procs \ {p} : job'[q] = job[q]
    BY <1>1, <1>2, <1>4
  <1> QED BY <1>5, <1>6, <1>7, <1>8 DEF j, b

LEMMA SpliceIs ==
  ASSUME TypeInv, NEW p \in Procs, NEW i, SpliceEntry(p, i)
  PROVE  LET j == job[p]  k == job'[p]  e == EntryAt(p, i) IN
         /\ job' \in [Procs -> Jobs] /\ \A q \in Procs \ {p} : job'[q] = job[q]
         /\ Started(j, k) /\ Total(k) = Total(j) /\ k.errored = j.errored
         /\ k.at = j.at /\ k.batches = j.batches /\ k.code = j.code
         /\ k.open = j.open /\ k.left = j.left \ {i} /\ k.dirty
         /\ k.draft = YamlSet(j.draft, e.path, NewValue(p, e))
         /\ WellFormed(k.draft)
  <1> DEFINE j == job[p]
             e == EntryAt(p, i)
             b == j.left \ {i}
             d == YamlSet(j.draft, e.path, NewValue(p, e))
             k == [j EXCEPT !.draft = d, !.dirty = TRUE, !.left = b]
  <1>1. j \in Jobs /\ job \in [Procs -> Jobs] /\ pc[p] = "hook" /\ i \in j.left
    BY DEF TypeInv, TypeOK, SpliceEntry, Visits
  <1>2. job' = [job EXCEPT ![p] = k]
    BY <1>1 DEF SpliceEntry
  <1>3. b \in SUBSET Nat
    BY <1>1 DEF Jobs
  <1>4. d \in Trees /\ WellFormed(d)
    <2>1. /\ j.draft \in Trees /\ WellFormed(j.draft) /\ e.path \in Paths
          /\ NewValue(p, e) \in Values
      BY <1>1, HookTyped, EntryTyped
    <2> HIDE DEF e, j
    <2>2. WellFormed(d)
      BY <2>1, SetWellFormed
    <2>3. d \in Trees
      BY <2>1, SetType DEF Trees
    <2> QED BY <2>2, <2>3
  <1> HIDE DEF j, b, d
  <1>5. k \in Jobs
    BY <1>1, <1>3, <1>4 DEF Jobs
  <1>6. Started(j, k) /\ k.at = j.at /\ k.batches = j.batches /\ k.code = j.code
    BY <1>1 DEF Jobs, Started
  <1>7. Total(k) = Total(j) /\ k.errored = j.errored
    BY <1>1 DEF Jobs, Total
  <1>8. k.open = j.open /\ k.left = b /\ k.draft = d /\ k.dirty = TRUE
    BY <1>1 DEF Jobs
  <1> HIDE DEF k
  <1>9. job'[p] = k /\ job' \in [Procs -> Jobs] /\ \A q \in Procs \ {p} : job'[q] = job[q]
    BY <1>1, <1>2, <1>5
  <1>10. WellFormed(k.draft)
    BY <1>4, <1>8
  <1> QED BY <1>6, <1>7, <1>8, <1>9, <1>10 DEF j, b, d

LEMMA CreateType ==
  ASSUME TypeInv, NEW p \in Procs, Create(p) \/ CreateFails(p)
  PROVE  TypeInv'
  <1>1. /\ job \in [Procs -> Jobs] /\ pc \in [Procs -> PCs] /\ doc \in [Files -> Trees]
        /\ runs \in Nat /\ faults \in Nat /\ store \in [Items -> Values \cup {None}]
    BY DEF TypeInv, TypeOK, PCs
  <1>2. pc[p] = "create"
    BY DEF Create, CreateFails
  <1>3. /\ job[p].at <= Len(Plan[job[p].plan])
        /\ Plan[job[p].plan][job[p].at].kind = "akeyless"
    BY <1>2 DEF TypeInv, RunOK
  <1>4. Cur(p).item \in Items /\ NewValue(p, Cur(p)) \in Values
    BY <1>2, <1>3, CurTyped DEF Running, Cur
  <1>5. Store(p) => store' \in [Items -> Values \cup {None}]
    BY <1>1, <1>4 DEF Store
  <1>6. /\ runs' = runs /\ faults' \in Nat /\ doc' = doc
        /\ pc' = [pc EXCEPT ![p] = "loop"]
        /\ store' \in [Items -> Values \cup {None}]
    BY <1>1, <1>5 DEF Create, CreateFails
  <1>7. job' = Count(p, "wrote") \/ job' = Count(p, "errored")
    BY DEF Create, CreateFails
  <1> QED BY <1>2, <1>3, <1>6, <1>7, CountType DEF Counts

LEMMA HookType ==
  ASSUME TypeInv, NEW p \in Procs,
         \/ \E f \in Files : OpenFile(p, f)
         \/ \E i \in job[p].left : KeepEntry(p, i) \/ SpliceEntry(p, i) \/ HookFails(p, i)
         \/ HookEnds(p) \/ Seal(p) \/ FileFails(p)
  PROVE  TypeInv'
  <1>1. /\ job \in [Procs -> Jobs] /\ pc \in [Procs -> PCs] /\ doc \in [Files -> Trees]
        /\ runs \in Nat /\ faults \in Nat /\ store \in [Items -> Values \cup {None}]
        /\ \A f \in Files : WellFormed(doc[f])
    BY DEF TypeInv, TypeOK, PCs
  <1>2. CASE \E f \in Files : OpenFile(p, f)
    <2>1. PICK f \in Files : OpenFile(p, f)
      BY <1>2
    <2>2. pc[p] = "loop" /\ pc' = [pc EXCEPT ![p] = "hook"]
          /\ UNCHANGED <<runs, faults, store, doc>>
      BY <2>1 DEF OpenFile, PastLoop
    <2>3. /\ job[p].plan \in Plans /\ job[p].run \in Runs /\ Len(Plan[job[p].plan]) \in Nat
      BY <2>2, RunningTyped DEF Running
    <2>4. /\ pc' \in [Procs -> PCs] /\ pc'[p] = "hook" /\ \A q \in Procs \ {p} : pc'[q] = pc[q]
      BY <1>1, <2>2 DEF PCs, Running
    <2>5. /\ job' \in [Procs -> Jobs] /\ \A q \in Procs \ {p} : job'[q] = job[q]
          /\ Started(job[p], job'[p])
          /\ job'[p].at = Len(Plan[job[p].plan]) + 1 /\ job'[p].batches = job[p].batches
          /\ job'[p].open = f /\ job'[p].left = Batch(job[p].plan, f)
          /\ job'[p].draft = doc[f] /\ f \in job[p].batches
      BY <2>1, OpenIs
    <2>6. job'[p].draft \in Trees /\ WellFormed(job[p].draft)'
      BY <1>1, <2>5 DEF WellFormed
    <2>7. RunOK(pc[p], job[p])'
      BY <2>3, <2>4, <2>5, <2>6 DEF RunOK, Started, Running, Batch
    <2> QED BY <1>1, <2>2, <2>4, <2>5, <2>7, TypeKept DEF WellFormed
  <1>3. ASSUME NEW i \in job[p].left, KeepEntry(p, i) PROVE TypeInv'
    <2>1. pc[p] = "hook" /\ pc' = pc /\ UNCHANGED <<runs, faults, store, doc>>
      BY <1>3 DEF KeepEntry, Visits
    <2>2. /\ job[p].plan \in Plans /\ job[p].run \in Runs /\ Len(Plan[job[p].plan]) \in Nat
          /\ job[p].at = Len(Plan[job[p].plan]) + 1
          /\ job[p].open \in job[p].batches /\ job[p].draft \in Trees /\ WellFormed(job[p].draft)
          /\ job[p].left \subseteq Batch(job[p].plan, job[p].open)
      BY <2>1, HookTyped
    <2>3. /\ job' \in [Procs -> Jobs] /\ \A q \in Procs \ {p} : job'[q] = job[q]
          /\ Started(job[p], job'[p])
          /\ job'[p].at = job[p].at /\ job'[p].batches = job[p].batches
          /\ job'[p].open = job[p].open /\ job'[p].left = job[p].left \ {i}
          /\ job'[p].draft = job[p].draft
      BY <1>3, KeepIs
    <2>4. RunOK(pc[p], job[p])'
      BY <2>1, <2>2, <2>3 DEF RunOK, Started, Running, Batch, WellFormed
    <2> QED BY <1>1, <2>1, <2>3, <2>4, TypeKept DEF WellFormed
  <1>4. ASSUME NEW i \in job[p].left, SpliceEntry(p, i) PROVE TypeInv'
    <2>1. pc[p] = "hook" /\ pc' = pc /\ UNCHANGED <<runs, faults, store, doc>>
      BY <1>4 DEF SpliceEntry, Visits
    <2>2. /\ job[p].plan \in Plans /\ job[p].run \in Runs /\ Len(Plan[job[p].plan]) \in Nat
          /\ job[p].at = Len(Plan[job[p].plan]) + 1
          /\ job[p].open \in job[p].batches
          /\ job[p].left \subseteq Batch(job[p].plan, job[p].open)
      BY <2>1, HookTyped
    <2>3. /\ job' \in [Procs -> Jobs] /\ \A q \in Procs \ {p} : job'[q] = job[q]
          /\ Started(job[p], job'[p])
          /\ job'[p].at = job[p].at /\ job'[p].batches = job[p].batches
          /\ job'[p].open = job[p].open /\ job'[p].left = job[p].left \ {i}
          /\ WellFormed(job[p].draft)'
      BY <1>4, SpliceIs DEF WellFormed
    <2>4. job'[p].draft \in Trees
      <3> DEFINE d == job[p].draft
                 q == EntryAt(p, i).path
                 v == NewValue(p, EntryAt(p, i))
      <3>1. d \in Trees /\ q \in Paths /\ v \in Values
        BY <2>1, HookTyped, EntryTyped
      <3>2. job'[p].draft = YamlSet(d, q, v)
        BY <1>4, SpliceIs
      <3> HIDE DEF d, q, v
      <3>3. YamlSet(d, q, v) \in Trees
        BY <3>1, SetType DEF Trees
      <3> QED BY <3>2, <3>3
    <2>5. RunOK(pc[p], job[p])'
      BY <2>1, <2>2, <2>3, <2>4 DEF RunOK, Started, Running, Batch
    <2> QED BY <1>1, <2>1, <2>3, <2>5, TypeKept DEF WellFormed
  <1>5. ASSUME NEW i \in job[p].left, HookFails(p, i) PROVE TypeInv'
    <2>1. pc[p] = "hook" /\ Close(p, "errored") /\ UNCHANGED <<runs, faults, store, doc>>
      BY <1>5 DEF HookFails, Visits
    <2> QED BY <1>1, <2>1, CloseType DEF Counts, WellFormed
  <1>6. CASE HookEnds(p)
    <2>1. pc[p] = "hook" /\ UNCHANGED <<runs, faults, store, doc>>
      BY <1>6 DEF HookEnds
    <2>2. CASE pc' = [pc EXCEPT ![p] = "seal"] /\ UNCHANGED job
      <3>1. /\ pc' \in [Procs -> PCs] /\ pc'[p] = "seal" /\ \A q \in Procs \ {p} : pc'[q] = pc[q]
        BY <1>1, <2>2 DEF PCs, Running
      <3>2. RunOK(pc[p], job[p])
        BY DEF TypeInv
      <3>3. RunOK(pc[p], job[p])'
        BY <2>1, <2>2, <3>1, <3>2 DEF RunOK, Running, Batch, WellFormed
      <3> QED BY <1>1, <2>1, <2>2, <3>1, <3>3, TypeKept DEF WellFormed
    <2>3. CASE Close(p, "skipped")
      BY <1>1, <2>1, <2>3, CloseType DEF Counts, WellFormed
    <2> QED BY <1>6, <2>2, <2>3 DEF HookEnds
  <1>7. CASE Seal(p)
    <2>1. /\ pc[p] = "seal" /\ Close(p, "wrote") /\ UNCHANGED <<runs, faults, store>>
          /\ doc' = [doc EXCEPT ![job[p].open] = job[p].draft]
      BY <1>7 DEF Seal
    <2>2. job[p].open \in Files /\ job[p].draft \in Trees /\ WellFormed(job[p].draft)
      BY <2>1, HookTyped
    <2>3. doc' \in [Files -> Trees]
      BY <1>1, <2>1, <2>2
    <2>4. ASSUME NEW f \in Files PROVE WellFormed(doc[f])'
      <3>1. doc'[f] = doc[f] \/ doc'[f] = job[p].draft
        BY <1>1, <2>1
      <3> QED BY <1>1, <2>2, <3>1 DEF WellFormed
    <2> QED BY <1>1, <2>1, <2>3, <2>4, CloseType DEF Counts
  <1>8. CASE FileFails(p)
    <2>1. /\ pc[p] \in {"hook", "seal"} /\ Close(p, "errored") /\ UNCHANGED <<runs, store, doc>>
          /\ faults' \in Nat
      BY <1>1, <1>8 DEF FileFails
    <2> QED BY <1>1, <2>1, CloseType DEF Counts, WellFormed
  <1> QED BY <1>2, <1>3, <1>4, <1>5, <1>6, <1>7, <1>8

LEMMA EndType ==
  ASSUME TypeInv, NEW p \in Procs, Finish(p) \/ Crash(p)
  PROVE  TypeInv'
  <1>1. /\ job \in [Procs -> Jobs] /\ pc \in [Procs -> PCs] /\ doc \in [Files -> Trees]
        /\ runs \in Nat /\ faults \in Nat /\ store \in [Items -> Values \cup {None}]
        /\ \A f \in Files : WellFormed(doc[f])
    BY DEF TypeInv, TypeOK, PCs
  <1>2. CASE Finish(p)
    BY <1>1, <1>2, ExitType DEF Finish
  <1>3. CASE Crash(p)
    <2>1. /\ pc' \in [Procs -> PCs] /\ pc'[p] = "crashed"
          /\ \A q \in Procs \ {p} : pc'[q] = pc[q]
          /\ UNCHANGED <<runs, store, doc, job>> /\ faults' \in Nat
      BY <1>1, <1>3 DEF Crash, PCs
    <2>2. RunOK(pc[p], job[p])'
      BY <2>1 DEF RunOK, Running
    <2> QED BY <1>1, <2>1, <2>2, TypeKept DEF WellFormed
  <1> QED BY <1>2, <1>3

(***************************************************************************)
(* The steps of the appliers, by the part of main.rs they run.             *)
(***************************************************************************)
LoopStep(p) ==
    \/ SkipExternal(p) \/ QueueSops(p) \/ MockOne(p) \/ RefuseMock(p)
    \/ Login(p) \/ LoginFails(p) \/ Describe(p) \/ DescribeFails(p)

HookStep(p) ==
    \/ \E f \in Files : OpenFile(p, f)
    \/ \E i \in job[p].left : KeepEntry(p, i) \/ SpliceEntry(p, i) \/ HookFails(p, i)
    \/ HookEnds(p) \/ Seal(p) \/ FileFails(p)

ApplyStep(p) == \E pl \in Plans, t \in Names \cup {None}, mock \in BOOLEAN :
                  Apply(p, pl, t, mock)

LEMMA NextCases ==
  ASSUME Next
  PROVE  \E p \in Procs : \/ LoopStep(p) \/ Create(p) \/ CreateFails(p) \/ HookStep(p)
                          \/ Finish(p) \/ Crash(p) \/ ApplyStep(p)
  BY DEF Next, Step, LoopStep, HookStep, ApplyStep

LEMMA StepType == TypeInv /\ [Next]_vars => TypeInv'
  <1> SUFFICES ASSUME TypeInv, [Next]_vars PROVE TypeInv' OBVIOUS
  <1>1. CASE Next
    <2>1. PICK p \in Procs : \/ LoopStep(p) \/ Create(p) \/ CreateFails(p) \/ HookStep(p)
                             \/ Finish(p) \/ Crash(p) \/ ApplyStep(p)
      BY <1>1, NextCases
    <2>2. CASE LoopStep(p)
      BY <2>2, LoopType DEF LoopStep
    <2>3. CASE HookStep(p)
      BY <2>3, HookType DEF HookStep
    <2>4. CASE ApplyStep(p)
      BY <2>4, ApplyType DEF ApplyStep
    <2> QED BY <2>1, <2>2, <2>3, <2>4, CreateType, EndType
  <1>2. CASE UNCHANGED vars
    <2>1. /\ runs' = runs /\ faults' = faults /\ store' = store /\ doc' = doc
          /\ pc' = pc /\ job' = job
      BY <1>2 DEF vars
    <2> QED BY <2>1 DEF TypeInv, TypeOK, RunOK, WellFormed, Batch
  <1> QED BY <1>1, <1>2

(***************************************************************************)
(* Applies, killed ones and any number at a time, keep their memory and    *)
(* the documents in shape: every sops file is a tree in which only a       *)
(* mapping has anything below it, whatever yaml_set did to it, and the     *)
(* draft an editor hook holds is one too (backends.rs).                    *)
(***************************************************************************)
THEOREM TypeCorrect == Spec => []TypeOK
  <1>1. Spec => []TypeInv
    BY InitType, StepType, PTL DEF Spec
  <1>2. TypeInv => TypeOK
    BY DEF TypeInv
  <1> QED BY <1>1, <1>2, PTL

-----------------------------------------------------------------------------
(***************************************************************************)
(* The counts.  A sops secret is counted when its file's batch is closed,  *)
(* so between the loop and the close the sum misses exactly the entries of *)
(* the batches still to come; while the loop runs none of them is closed,  *)
(* so the files it has queued are all there.                               *)
(***************************************************************************)
Queued(pl, i) == Plan[pl][i].kind = "sops" /\ Plan[pl][i].gen # "external"

Pending(j) == {i \in 1..Len(Plan[j.plan]) :
                 i < j.at /\ Queued(j.plan, i) /\ Plan[j.plan][i].file \in j.batches}

AccountOK(q, j) ==
    /\ q \in Running =>
         /\ Total(j) + Cardinality(Pending(j)) = j.at - 1
         /\ j.at <= Len(Plan[j.plan]) =>
              \A i \in 1..Len(Plan[j.plan]) :
                i < j.at /\ Queued(j.plan, i) => Plan[j.plan][i].file \in j.batches
    /\ q = "done" /\ j.code \in {0, 1} => Total(j) = Len(Plan[j.plan])

AccountInv == \A p \in Procs : AccountOK(pc[p], job[p])

LEMMA PendingTyped ==
  ASSUME NEW j \in Jobs, j.plan \in Plans
  PROVE  IsFiniteSet(Pending(j)) /\ Cardinality(Pending(j)) \in Nat
  <1> DEFINE n == Len(Plan[j.plan])
             s == Pending(j)
  <1>1. 1 \in Int /\ n \in Int
    BY PlanTyped
  <1>2. s \subseteq 1..n
    BY DEF Pending
  <1> HIDE DEF n, s
  <1>3. IsFiniteSet(1..n)
    BY <1>1, FS_Interval
  <1>4. IsFiniteSet(s) /\ Cardinality(s) \in Nat
    BY <1>2, <1>3, FS_Subset, FS_CardinalityType
  <1> QED BY <1>4 DEF s

LEMMA TotalTyped == \A j \in Jobs : Total(j) \in Nat
  BY DEF Total, Jobs

\* A secret that is counted at once.
LEMMA CountAccount ==
  ASSUME TypeInv, AccountInv, NEW p \in Procs, NEW what \in Counts,
         pc[p] \in {"loop", "create"}, job[p].at <= Len(Plan[job[p].plan]),
         Cur(p).kind # "sops" \/ Cur(p).gen = "external", job' = Count(p, what),
         pc'[p] = "loop", \A q \in Procs \ {p} : pc'[q] = pc[q]
  PROVE  AccountInv'
  <1> DEFINE j == job[p]
             k == job'[p]
  <1>1. /\ j.plan \in Plans /\ j.at \in Nat /\ j.at >= 1
        /\ Len(Plan[j.plan]) \in Nat /\ j \in Jobs
    BY RunningTyped DEF Running
  <1>2. /\ \A q \in Procs \ {p} : job'[q] = job[q]
        /\ Started(j, k) /\ Total(k) = Total(j) + 1 /\ k.at = j.at + 1
        /\ k.batches = j.batches
    BY CountIs DEF TypeInv, TypeOK
  <1>3. ~Queued(j.plan, j.at)
    BY DEF Queued, Cur
  <1>4. AccountOK(pc[p], j)
    BY DEF AccountInv
  <1> HIDE DEF j, k
  <1>5. Pending(k) = Pending(j)
    BY <1>1, <1>2, <1>3 DEF Pending, Started
  <1>6. Total(j) \in Nat /\ Cardinality(Pending(j)) \in Nat
    BY <1>1, TotalTyped, PendingTyped
  <1>7. Total(k) + Cardinality(Pending(k)) = k.at - 1
    BY <1>1, <1>2, <1>4, <1>5, <1>6 DEF AccountOK, Running
  <1>8. k.at <= Len(Plan[k.plan]) =>
          \A i \in 1..Len(Plan[k.plan]) :
            i < k.at /\ Queued(k.plan, i) => Plan[k.plan][i].file \in k.batches
    BY <1>1, <1>2, <1>3, <1>4 DEF AccountOK, Running, Started
  <1>9. AccountOK("loop", k)
    BY <1>7, <1>8 DEF AccountOK
  <1> QED BY <1>2, <1>9 DEF AccountInv, AccountOK, Pending, k

\* A memory in which nothing counted has moved.
LEMMA SameAccount ==
  ASSUME NEW j, NEW k, NEW q \in Running, NEW r \in Running, AccountOK(q, j),
         Started(j, k), Total(k) = Total(j), k.at = j.at, k.batches = j.batches
  PROVE  AccountOK(r, k)
  <1>1. Pending(k) = Pending(j)
    BY DEF Pending, Started
  <1> QED BY <1>1 DEF AccountOK, Started, Running

LEMMA OthersAccount ==
  ASSUME AccountInv, NEW p \in Procs, AccountOK(pc'[p], job'[p]),
         \A q \in Procs \ {p} : pc'[q] = pc[q] /\ job'[q] = job[q]
  PROVE  AccountInv'
  <1>1. ASSUME NEW q \in Procs PROVE AccountOK(pc'[q], job'[q])
    BY DEF AccountInv
  <1> QED BY <1>1 DEF AccountInv, AccountOK, Pending, Queued

\* A batch that is closed has been waiting, all of it.
LEMMA CloseAccount ==
  ASSUME TypeInv, AccountInv, NEW p \in Procs, NEW what \in Counts,
         pc[p] \in {"hook", "seal"}, Close(p, what)
  PROVE  AccountInv'
  <1> DEFINE j == job[p]
             k == job'[p]
             b == Batch(j.plan, j.open)
  <1>1. /\ j \in Jobs /\ j.plan \in Plans /\ Len(Plan[j.plan]) \in Nat
        /\ j.at = Len(Plan[j.plan]) + 1 /\ j.open \in j.batches
    BY HookTyped
  <1>2. /\ \A q \in Procs \ {p} : job'[q] = job[q]
        /\ pc'[p] = "loop" /\ \A q \in Procs \ {p} : pc'[q] = pc[q]
        /\ job' \in [Procs -> Jobs] /\ Started(j, k)
        /\ Total(k) = Total(j) + Cardinality(b)
        /\ k.at = j.at /\ k.batches = j.batches \ {j.open}
    BY <1>1, CloseIs DEF TypeInv, TypeOK
  <1>3. AccountOK(pc[p], j)
    BY DEF AccountInv
  <1>4. /\ b \subseteq 1..Len(Plan[j.plan]) /\ Cardinality(b) \in Nat /\ IsFiniteSet(b)
        /\ \A i \in 1..Len(Plan[j.plan]) :
             i \in b <=> Queued(j.plan, i) /\ Plan[j.plan][i].file = j.open
    <2>1. b \subseteq 1..Len(Plan[j.plan]) /\ Cardinality(b) \in Nat /\ IsFiniteSet(b)
      BY <1>1, BatchTyped
    <2>2. DOMAIN Plan[j.plan] = 1..Len(Plan[j.plan])
      BY <1>1, PlanTyped
    <2> HIDE DEF j
    <2>3. \A i \in 1..Len(Plan[j.plan]) :
            i \in b <=> Queued(j.plan, i) /\ Plan[j.plan][i].file = j.open
      BY <2>2 DEF Batch, Queued
    <2> QED BY <2>1, <2>3
  <1>5. k \in Jobs
    BY <1>2
  <1> HIDE DEF j, k, b
  <1>6. \A i \in 1..Len(Plan[j.plan]) : i < j.at
    BY <1>1
  <1>7. b \subseteq Pending(j) /\ Pending(k) = Pending(j) \ b
    BY <1>1, <1>2, <1>4, <1>6 DEF Pending, Started
  <1>8. /\ IsFiniteSet(Pending(j)) /\ Cardinality(Pending(j)) \in Nat
        /\ Total(j) \in Nat
    BY <1>1, PendingTyped, TotalTyped
  <1>9. Cardinality(Pending(k)) = Cardinality(Pending(j)) - Cardinality(b)
    <2>1. Pending(j) \cap b = b
      BY <1>7
    <2>2. Cardinality(Pending(j) \ b)
            = Cardinality(Pending(j)) - Cardinality(Pending(j) \cap b)
      BY <1>8, FS_Difference
    <2> QED BY <1>7, <2>1, <2>2
  <1>10. Total(k) + Cardinality(Pending(k)) = k.at - 1
    BY <1>1, <1>2, <1>3, <1>4, <1>8, <1>9 DEF AccountOK, Running
  <1>11. ~(k.at <= Len(Plan[k.plan]))
    BY <1>1, <1>2 DEF Started
  <1>12. AccountOK("loop", k)
    BY <1>10, <1>11 DEF AccountOK
  <1> QED BY <1>2, <1>12, OthersAccount DEF k

\* A step that moves no count, or ends an apply before its end.
LEMMA QuietAccount ==
  ASSUME AccountInv, NEW p \in Procs, pc[p] \in Running,
         Started(job[p], job'[p]), Total(job'[p]) = Total(job[p]),
         job'[p].at = job[p].at, job'[p].batches = job[p].batches,
         \/ pc'[p] \in Running
         \/ pc'[p] = "done" /\ job'[p].code \notin {0, 1}
         \/ pc'[p] = "crashed",
         \A q \in Procs \ {p} : pc'[q] = pc[q] /\ job'[q] = job[q]
  PROVE  AccountInv'
  <1> DEFINE j == job[p]
             k == job'[p]
  <1>1. AccountOK(pc[p], j)
    BY DEF AccountInv
  <1>2. Started(j, k) /\ Total(k) = Total(j) /\ k.at = j.at /\ k.batches = j.batches
    OBVIOUS
  <1> HIDE DEF j, k
  <1>3. pc'[p] \in Running => AccountOK(pc'[p], k)
    BY <1>1, <1>2, SameAccount
  <1>4. pc'[p] \notin Running => AccountOK(pc'[p], k)
    BY DEF AccountOK, Running, k
  <1> QED BY <1>3, <1>4, OthersAccount DEF k

LEMMA LoopAccount ==
  ASSUME TypeInv, AccountInv, NEW p \in Procs, LoopStep(p)
  PROVE  AccountInv'
  <1>1. job \in [Procs -> Jobs] /\ pc \in [Procs -> PCs]
    BY DEF TypeInv, TypeOK, PCs
  <1>2. pc[p] = "loop" /\ job[p].at <= Len(Plan[job[p].plan])
    BY DEF LoopStep, SkipExternal, QueueSops, MockOne, RefuseMock, Login, LoginFails,
           Describe, DescribeFails, OnAkeyless, InLoop
  <1>3. ASSUME NEW what \in Counts, job' = Count(p, what), pc' = pc,
               Cur(p).kind # "sops" \/ Cur(p).gen = "external"
        PROVE  AccountInv'
    BY <1>2, <1>3, CountAccount
  <1>4. ASSUME NEW c \in {4, 5}, Exit(p, c) PROVE AccountInv'
    <2>1. /\ \A q \in Procs \ {p} : pc'[q] = pc[q] /\ job'[q] = job[q]
          /\ pc'[p] = "done" /\ Started(job[p], job'[p])
          /\ Total(job'[p]) = Total(job[p]) /\ job'[p].code = c
          /\ job'[p].batches = job[p].batches /\ job'[p].at = job[p].at
      BY <1>1, <1>4, ExitIs DEF PCs
    <2> QED BY <1>2, <2>1, QuietAccount DEF Running
  <1>5. CASE SkipExternal(p)
    BY <1>3, <1>5 DEF SkipExternal, Counts
  <1>6. CASE MockOne(p)
    BY <1>3, <1>6 DEF MockOne, Counts
  <1>7. CASE DescribeFails(p)
    BY <1>3, <1>7 DEF DescribeFails, OnAkeyless, Counts
  <1>8. CASE RefuseMock(p) \/ LoginFails(p)
    BY <1>4, <1>8 DEF RefuseMock, LoginFails
  <1>9. CASE Login(p)
    <2>1. /\ \A q \in Procs \ {p} : pc'[q] = pc[q] /\ job'[q] = job[q]
          /\ pc'[p] = pc[p] /\ Started(job[p], job'[p])
          /\ Total(job'[p]) = Total(job[p])
          /\ job'[p].batches = job[p].batches /\ job'[p].at = job[p].at
      BY <1>9, LoginIs DEF Login
    <2> QED BY <1>2, <2>1, QuietAccount DEF Running
  <1>10. CASE Describe(p)
    <2>1. \/ job' = Count(p, "wrote") /\ UNCHANGED pc
          \/ job' = Count(p, "errored") /\ UNCHANGED pc
          \/ pc' = [pc EXCEPT ![p] = "create"] /\ UNCHANGED job
      BY <1>10 DEF Describe, Answered
    <2>2. Cur(p).kind # "sops"
      BY <1>10 DEF Describe, OnAkeyless
    <2>3. CASE pc' = [pc EXCEPT ![p] = "create"] /\ UNCHANGED job
      <3>1. pc'[p] = "create" /\ \A q \in Procs \ {p} : pc'[q] = pc[q]
        BY <1>1, <2>3
      <3> QED BY <1>2, <2>3, <3>1, QuietAccount DEF Running, Started
    <2> QED BY <1>3, <2>1, <2>2, <2>3 DEF Counts
  <1>11. CASE QueueSops(p)
    <2> DEFINE j == job[p]
               k == job'[p]
               f == Cur(p).file
    <2>1. /\ \A q \in Procs \ {p} : pc'[q] = pc[q] /\ job'[q] = job[q]
          /\ pc'[p] = "loop" /\ k \in Jobs /\ Started(j, k) /\ Total(k) = Total(j)
          /\ k.at = j.at + 1 /\ k.batches = j.batches \cup {f}
      BY <1>2, <1>11, QueueIs DEF QueueSops
    <2>2. /\ j.plan \in Plans /\ j.at \in 1..Len(Plan[j.plan]) /\ j \in Jobs
          /\ Len(Plan[j.plan]) \in Nat
      BY <1>2, RunningTyped, CurTyped DEF Running
    <2>3. AccountOK("loop", j)
      BY <1>2 DEF AccountInv
    <2>4. Queued(j.plan, j.at) /\ Plan[j.plan][j.at].file = f
      BY <1>11 DEF QueueSops, Queued, Cur
    <2> HIDE DEF j, k, f
    <2>5. \A i \in 1..Len(Plan[j.plan]) :
            i < j.at /\ Queued(j.plan, i) => Plan[j.plan][i].file \in j.batches
      BY <2>2, <2>3 DEF AccountOK, Running
    <2>6. Pending(k) = Pending(j) \cup {j.at}
      BY <2>1, <2>2, <2>4, <2>5 DEF Pending, Started
    <2>7. j.at \notin Pending(j) /\ IsFiniteSet(Pending(j))
          /\ Cardinality(Pending(j)) \in Nat /\ Total(j) \in Nat
      BY <2>2, PendingTyped, TotalTyped DEF Pending
    <2>8. Cardinality(Pending(k)) = Cardinality(Pending(j)) + 1
      BY <2>6, <2>7, FS_AddElement
    <2>9. Total(k) + Cardinality(Pending(k)) = k.at - 1
      BY <2>1, <2>2, <2>3, <2>7, <2>8 DEF AccountOK, Running
    <2>10. \A i \in 1..Len(Plan[k.plan]) :
             i < k.at /\ Queued(k.plan, i) => Plan[k.plan][i].file \in k.batches
      BY <2>1, <2>2, <2>4, <2>5 DEF Started
    <2>11. AccountOK("loop", k)
      BY <2>9, <2>10 DEF AccountOK
    <2> QED BY <2>1, <2>11, OthersAccount DEF k
  <1> QED BY <1>5, <1>6, <1>7, <1>8, <1>9, <1>10, <1>11 DEF LoopStep

LEMMA HookAccount ==
  ASSUME TypeInv, AccountInv, NEW p \in Procs, HookStep(p)
  PROVE  AccountInv'
  <1>1. job \in [Procs -> Jobs] /\ pc \in [Procs -> PCs]
    BY DEF TypeInv, TypeOK, PCs
  <1>2. ASSUME NEW f \in Files, OpenFile(p, f) PROVE AccountInv'
    <2>1. pc[p] = "loop" /\ pc' = [pc EXCEPT ![p] = "hook"]
      BY <1>2 DEF OpenFile, PastLoop
    <2>2. pc'[p] = "hook" /\ \A q \in Procs \ {p} : pc'[q] = pc[q]
      BY <1>1, <2>1
    <2>3. /\ \A q \in Procs \ {p} : job'[q] = job[q]
          /\ Started(job[p], job'[p]) /\ Total(job'[p]) = Total(job[p])
          /\ job'[p].batches = job[p].batches /\ job'[p].at = job[p].at
      BY <1>2, OpenIs
    <2> QED BY <2>1, <2>2, <2>3, QuietAccount DEF Running
  <1>3. ASSUME NEW i \in job[p].left, KeepEntry(p, i) \/ SpliceEntry(p, i) PROVE AccountInv'
    <2>1. pc[p] = "hook" /\ pc' = pc
      BY <1>3 DEF KeepEntry, SpliceEntry, Visits
    <2>2. /\ \A q \in Procs \ {p} : job'[q] = job[q]
          /\ Started(job[p], job'[p]) /\ Total(job'[p]) = Total(job[p])
          /\ job'[p].batches = job[p].batches /\ job'[p].at = job[p].at
      BY <1>3, KeepIs, SpliceIs
    <2> QED BY <2>1, <2>2, QuietAccount DEF Running
  <1>4. ASSUME NEW what \in Counts, pc[p] \in {"hook", "seal"}, Close(p, what)
        PROVE  AccountInv'
    BY <1>4, CloseAccount
  <1>5. ASSUME NEW i \in job[p].left, HookFails(p, i) PROVE AccountInv'
    BY <1>4, <1>5 DEF HookFails, Visits, Counts
  <1>6. CASE Seal(p) \/ FileFails(p)
    BY <1>4, <1>6 DEF Seal, FileFails, Counts
  <1>7. CASE HookEnds(p)
    <2>1. CASE pc' = [pc EXCEPT ![p] = "seal"] /\ UNCHANGED job
      <3>1. pc'[p] = "seal" /\ \A q \in Procs \ {p} : pc'[q] = pc[q]
        BY <1>1, <2>1
      <3> QED BY <1>7, <2>1, <3>1, QuietAccount DEF HookEnds, Running, Started
    <2> QED BY <1>4, <1>7, <2>1 DEF HookEnds, Counts
  <1> QED BY <1>2, <1>3, <1>5, <1>6, <1>7 DEF HookStep

LEMMA EndAccount ==
  ASSUME TypeInv, AccountInv, NEW p \in Procs, Finish(p) \/ Crash(p) \/ ApplyStep(p)
  PROVE  AccountInv'
  <1>1. job \in [Procs -> Jobs] /\ pc \in [Procs -> PCs]
    BY DEF TypeInv, TypeOK, PCs
  <1>2. CASE Crash(p)
    <2>1. pc'[p] = "crashed" /\ job' = job /\ \A q \in Procs \ {p} : pc'[q] = pc[q]
      BY <1>1, <1>2 DEF Crash
    <2> QED BY <1>2, <2>1, QuietAccount DEF Crash, Started
  <1>3. CASE ApplyStep(p)
    <2>1. PICK pl \in Plans, t \in Names \cup {None}, mock \in BOOLEAN : Apply(p, pl, t, mock)
      BY <1>3 DEF ApplyStep
    <2> DEFINE k == job'[p]
    <2>2. /\ \A q \in Procs \ {p} : job'[q] = job[q] /\ pc'[q] = pc[q]
          /\ \/ pc'[p] = "done" /\ k.code = 4
             \/ /\ pc'[p] = "loop" /\ k.plan = pl
                /\ k.at = 1 /\ k.batches = {} /\ Total(k) = 0
      BY <2>1, ApplyIs
    <2> HIDE DEF k
    <2>3. CASE pc'[p] = "done" /\ k.code = 4
      <3>1. AccountOK(pc'[p], k)
        BY <2>3 DEF AccountOK, Running
      <3> QED BY <2>2, <3>1, OthersAccount DEF k
    <2>4. CASE pc'[p] = "loop" /\ k.plan = pl /\ k.at = 1 /\ k.batches = {} /\ Total(k) = 0
      <3>1. Pending(k) = {} /\ Cardinality({}) = 0
        BY <2>4, FS_EmptySet DEF Pending
      <3>2. \A i \in 1..Len(Plan[k.plan]) : ~(i < k.at)
        BY <2>4, PlanTyped
      <3>3. AccountOK("loop", k)
        BY <2>4, <3>1, <3>2 DEF AccountOK
      <3> QED BY <2>2, <2>4, <3>3, OthersAccount DEF k
    <2> QED BY <2>2, <2>3, <2>4
  <1>4. CASE Finish(p)
    <2> DEFINE j == job[p]
               k == job'[p]
    <2>1. /\ pc[p] = "loop" /\ j.batches = {} /\ j.at > Len(Plan[j.plan])
          /\ \E c \in {0, 1} : Exit(p, c)
      BY <1>4 DEF Finish, PastLoop
    <2>2. /\ j.plan \in Plans /\ j.at \in Nat /\ Len(Plan[j.plan]) \in Nat /\ j \in Jobs
          /\ j.at <= Len(Plan[j.plan]) + 1
      BY <2>1, RunningTyped DEF Running
    <2>3. /\ \A q \in Procs \ {p} : pc'[q] = pc[q] /\ job'[q] = job[q]
          /\ pc'[p] = "done" /\ Started(j, k) /\ Total(k) = Total(j)
      BY <1>1, <2>1, ExitIs DEF PCs
    <2>4. AccountOK("loop", j)
      BY <2>1 DEF AccountInv
    <2> HIDE DEF j, k
    <2>5. Pending(j) = {} /\ Cardinality({}) = 0 /\ Total(j) \in Nat
      BY <2>1, <2>2, FS_EmptySet, TotalTyped DEF Pending
    <2>6. Total(j) = Len(Plan[j.plan])
      BY <2>1, <2>2, <2>4, <2>5 DEF AccountOK, Running
    <2>7. AccountOK("done", k)
      BY <2>3, <2>6 DEF AccountOK, Running, Started
    <2> QED BY <2>3, <2>7, OthersAccount DEF k
  <1> QED BY <1>2, <1>3, <1>4

LEMMA StepAccount == TypeInv /\ AccountInv /\ [Next]_vars => AccountInv'
  <1> SUFFICES ASSUME TypeInv, AccountInv, [Next]_vars PROVE AccountInv' OBVIOUS
  <1>1. CASE Next
    <2>1. PICK p \in Procs : \/ LoopStep(p) \/ Create(p) \/ CreateFails(p) \/ HookStep(p)
                             \/ Finish(p) \/ Crash(p) \/ ApplyStep(p)
      BY <1>1, NextCases
    <2>2. CASE Create(p) \/ CreateFails(p)
      <3>1. pc[p] = "create" /\ pc' = [pc EXCEPT ![p] = "loop"]
            /\ (job' = Count(p, "wrote") \/ job' = Count(p, "errored"))
        BY <2>2 DEF Create, CreateFails
      <3>2. pc'[p] = "loop" /\ \A q \in Procs \ {p} : pc'[q] = pc[q]
        BY <3>1 DEF TypeInv, TypeOK
      <3>3. job[p].at <= Len(Plan[job[p].plan]) /\ Cur(p).kind = "akeyless"
        BY <3>1 DEF TypeInv, RunOK, Cur
      <3> QED BY <3>1, <3>2, <3>3, CountAccount DEF Counts
    <2> QED BY <2>1, <2>2, LoopAccount, HookAccount, EndAccount
  <1>2. CASE UNCHANGED vars
    <2>1. pc' = pc /\ job' = job
      BY <1>2 DEF vars
    <2> QED BY <2>1 DEF AccountInv, AccountOK, Pending, Queued
  <1> QED BY <1>1, <1>2

(***************************************************************************)
(* An apply that reaches its end has counted every secret of its plan      *)
(* exactly once, whatever failed on the way and however the entries of a   *)
(* file stand in the plan (main.rs: one count per secret of the loop, one  *)
(* per entry when a file's batch is closed).                               *)
(***************************************************************************)
THEOREM CountsAddUp == Spec => []Accounted
  <1>1. Init => AccountInv
    BY DEF Init, AccountInv, AccountOK, Running
  <1>2. AccountInv => Accounted
    BY DEF AccountInv, AccountOK, Accounted, Total
  <1>3. Spec => [](TypeInv /\ AccountInv)
    BY <1>1, InitType, StepType, StepAccount, PTL DEF Spec
  <1> QED BY <1>2, <1>3, PTL

-----------------------------------------------------------------------------
(***************************************************************************)
(* What one applier at a time keeps.  Another applier may seal a draft it  *)
(* took before this one's write, and yaml_set loses what stands above or   *)
(* below the path it writes; so these results are about one applier, plans *)
(* whose paths in a file never run through one another, and documents with *)
(* no leaf above a planned path.                                           *)
(***************************************************************************)
OneApplier == \A p, q \in Procs : p = q

Planned(f) == UNION {{Plan[pl][i].path : i \in Batch(pl, f)} : pl \in Plans}

NoLeafAbove(d, f) ==
    \A r \in Planned(f), q \in Paths : Strict(q, r) => ~IsLeaf(d, q)

PathsApart ==
    /\ \A f \in Files : \A r, s \in Planned(f) : ~Strict(r, s)
    /\ \A f \in Files, d \in Docs : NoLeafAbove(d, f)

ClearOK(q, j) == q \in {"hook", "seal"} => NoLeafAbove(j.draft, j.open)

ClearInv == /\ \A f \in Files : NoLeafAbove(doc[f], f)
            /\ \A p \in Procs : ClearOK(pc[p], job[p])

\* What an apply without an error has behind it, and what its draft has.
PresentOK(q, j, st, ds) ==
    /\ q \in Running /\ ~j.mock /\ j.errored = 0 =>
         \A i \in 1..Len(Plan[j.plan]) :
           i < j.at /\ Plan[j.plan][i].gen # "external" =>
             /\ Plan[j.plan][i].kind # "mock"
             /\ Plan[j.plan][i].kind = "akeyless" => st[Plan[j.plan][i].item] # None
             /\ Plan[j.plan][i].kind = "sops" /\ Plan[j.plan][i].file \notin j.batches
                  => Present(ds[Plan[j.plan][i].file], Plan[j.plan][i].path)
    /\ q \in {"hook", "seal"} =>
         \A i \in Batch(j.plan, j.open) \ j.left : Present(j.draft, Plan[j.plan][i].path)
    /\ q = "seal" => j.left = {}
    /\ q = "hook" /\ ~j.dirty => j.draft = ds[j.open]
    /\ q = "done" /\ j.code = 0 /\ ~j.mock =>
         \A i \in DOMAIN Plan[j.plan] : Plan[j.plan][i].gen # "external" =>
           IF Plan[j.plan][i].kind = "akeyless" THEN st[Plan[j.plan][i].item] # None
           ELSE Present(ds[Plan[j.plan][i].file], Plan[j.plan][i].path)

PresentInv == \A p \in Procs : PresentOK(pc[p], job[p], store, doc)

\* Where a draft differs from its file, and why.
KeepOK(q, j, st, ds) ==
    /\ q \in Running /\ j.target # None => Rotatable(j.plan, j.target)
    /\ q = "create" => \/ st[Plan[j.plan][j.at].item] = None
                       \/ j.target = Plan[j.plan][j.at].name
    /\ q \in {"hook", "seal"} => \A r \in Paths : j.draft[r] # ds[j.open][r] =>
         /\ \E i \in Batch(j.plan, j.open) : \/ IsPrefix(Plan[j.plan][i].path, r)
                                             \/ IsPrefix(r, Plan[j.plan][i].path)
         /\ IsLeaf(ds[j.open], r) =>
              \E i \in Batch(j.plan, j.open) : /\ Plan[j.plan][i].name = j.target
                                               /\ IsPrefix(Plan[j.plan][i].path, r)

KeepInv == \A p \in Procs : KeepOK(pc[p], job[p], store, doc)

LEMMA PlannedPath ==
  /\ \A f : Planned(f) \subseteq Paths
  /\ \A pl \in Plans : \A f : \A i \in Batch(pl, f) : Plan[pl][i].path \in Planned(f)
  BY BatchTyped DEF Planned

\* Below a planned path nothing is in the way of yaml_set.
LEMMA ClearPath ==
  ASSUME NEW f, NEW d, NoLeafAbove(d, f), NEW q \in Planned(f)
  PROVE  \A k \in 1..Len(q) - 2 : ~IsLeaf(d, SubSeq(q, 1, k))
  <1> SUFFICES ASSUME NEW k \in 1..Len(q) - 2 PROVE ~IsLeaf(d, SubSeq(q, 1, k))
    OBVIOUS
  <1> DEFINE x == SubSeq(q, 1, k)
  <1>1. q \in Paths /\ q \in Seq(Segments) /\ Len(q) \in Nat
    BY PlannedPath, NodesAreSequences DEF Nodes
  <1>2. k \in 1..Len(q) /\ k \in 0..Len(q) /\ k < Len(q)
    BY <1>1
  <1>3. x \in Paths
    BY <1>1, <1>2, PathsAssumption
  <1>4. x \in Seq(Segments) /\ Len(x) = k /\ \A i \in 1..k : x[i] = q[i]
    BY <1>1, <1>2, PrefixOf
  <1> HIDE DEF x
  <1>5. Strict(x, q)
    BY <1>1, <1>2, <1>4, StrictDef
  <1> QED BY <1>3, <1>5 DEF NoLeafAbove, x

LEMMA SetAt ==
  ASSUME NEW f, NEW d, NoLeafAbove(d, f), NEW q \in Planned(f), NEW v
  PROVE  YamlSet(d, q, v) = PutAt(d, q, v)
  <1>1. \A k \in 1..Len(q) - 2 : ~IsLeaf(d, SubSeq(q, 1, k))
    BY ClearPath
  <1>2. q \in Paths
    BY PlannedPath
  <1>3. Landing(d, q) = q
    BY <1>1, <1>2, LandingIsAPath
  <1> QED BY <1>3, SetIsPut

\* A write puts its value above no planned path.
LEMMA SetClear ==
  ASSUME PathsApart, NEW f \in Files, NEW d, NoLeafAbove(d, f), NEW q \in Planned(f), NEW v
  PROVE  NoLeafAbove(YamlSet(d, q, v), f)
  <1> DEFINE e == YamlSet(d, q, v)
  <1> SUFFICES ASSUME NEW r \in Planned(f), NEW x \in Paths, Strict(x, r)
               PROVE  ~IsLeaf(e, x)
    BY DEF NoLeafAbove
  <1>1. x # q
    BY DEF PathsApart
  <1>2. ~IsLeaf(d, x)
    BY DEF NoLeafAbove
  <1>3. e[x] = Map \/ e[x] = Absent \/ e[x] = d[x]
    BY <1>1, SetAt DEF PutAt, Nodes
  <1> QED BY <1>2, <1>3 DEF IsLeaf

LEMMA InitClear ==
  ASSUME PathsApart, Init
  PROVE  ClearInv
  <1>1. \A f \in Files : doc[f] \in Docs
    BY DEF Init
  <1>2. \A p \in Procs : ClearOK(pc[p], job[p])
    BY DEF Init, ClearOK
  <1> QED BY <1>1, <1>2 DEF ClearInv, PathsApart

\* A step in which the drafts that are held were held before.
LEMMA ClearKept ==
  ASSUME ClearInv, NEW p \in Procs, doc' = doc, ClearOK(pc'[p], job'[p]),
         \A q \in Procs \ {p} : pc'[q] = pc[q] /\ job'[q] = job[q]
  PROVE  ClearInv'
  <1>1. \A q \in Procs : ClearOK(pc'[q], job'[q])
    BY DEF ClearInv
  <1>2. \A f \in Files : NoLeafAbove(doc'[f], f)
    BY DEF ClearInv
  <1> QED BY <1>1, <1>2 DEF ClearInv, ClearOK, NoLeafAbove, Planned, Batch, IsLeaf

\* Where no step but the hook's leaves a draft behind.
LEMMA NotInHook ==
  ASSUME TypeInv, NEW p \in Procs,
         \/ LoopStep(p) \/ Create(p) \/ CreateFails(p) \/ Finish(p) \/ Crash(p) \/ ApplyStep(p)
  PROVE  /\ doc' = doc /\ pc'[p] \notin {"hook", "seal"}
         /\ \A q \in Procs \ {p} : pc'[q] = pc[q] /\ job'[q] = job[q]
  <1>1. job \in [Procs -> Jobs] /\ pc \in [Procs -> PCs]
    BY DEF TypeInv, TypeOK, PCs
  <1>2. ASSUME NEW what \in Counts, job' = Count(p, what) PROVE \A q \in Procs \ {p} : job'[q] = job[q]
    BY <1>1, <1>2, CountIs
  <1>3. ASSUME NEW c \in {0, 1, 4, 5}, Exit(p, c)
        PROVE  pc'[p] = "done" /\ \A q \in Procs \ {p} : pc'[q] = pc[q] /\ job'[q] = job[q]
    BY <1>1, <1>3, ExitIs DEF PCs
  <1>4. CASE Create(p) \/ CreateFails(p)
    <2>1. doc' = doc /\ pc' = [pc EXCEPT ![p] = "loop"]
          /\ (job' = Count(p, "wrote") \/ job' = Count(p, "errored"))
      BY <1>4 DEF Create, CreateFails
    <2> QED BY <1>1, <1>2, <2>1 DEF Counts
  <1>5. CASE Finish(p)
    BY <1>3, <1>5 DEF Finish
  <1>6. CASE Crash(p)
    BY <1>1, <1>6 DEF Crash
  <1>7. CASE ApplyStep(p)
    <2>1. PICK pl \in Plans, t \in Names \cup {None}, mock \in BOOLEAN : Apply(p, pl, t, mock)
      BY <1>7 DEF ApplyStep
    <2>2. doc' = doc
      BY <2>1 DEF Apply
    <2> QED BY <2>1, <2>2, ApplyIs
  <1>8. CASE LoopStep(p)
    <2>1. pc[p] = "loop" /\ doc' = doc
      BY <1>8 DEF LoopStep, SkipExternal, QueueSops, MockOne, RefuseMock, Login, LoginFails,
             Describe, DescribeFails, OnAkeyless, InLoop
    <2>2. CASE SkipExternal(p) \/ MockOne(p) \/ DescribeFails(p)
      BY <1>2, <2>1, <2>2 DEF SkipExternal, MockOne, DescribeFails, Counts
    <2>3. CASE RefuseMock(p) \/ LoginFails(p)
      BY <1>3, <2>1, <2>3 DEF RefuseMock, LoginFails
    <2>4. CASE QueueSops(p)
      BY <2>1, <2>4, QueueIs DEF QueueSops
    <2>5. CASE Login(p)
      BY <2>1, <2>5, LoginIs DEF Login
    <2>6. CASE Describe(p)
      <3>1. \/ (job' = Count(p, "wrote") \/ job' = Count(p, "errored")) /\ UNCHANGED pc
            \/ pc' = [pc EXCEPT ![p] = "create"] /\ UNCHANGED job
        BY <2>6 DEF Describe, Answered
      <3> QED BY <1>1, <1>2, <2>1, <3>1 DEF Counts
    <2> QED BY <1>8, <2>2, <2>3, <2>4, <2>5, <2>6 DEF LoopStep
  <1> QED BY <1>4, <1>5, <1>6, <1>7, <1>8

LEMMA HookClear ==
  ASSUME PathsApart, TypeInv, ClearInv, NEW p \in Procs, HookStep(p)
  PROVE  ClearInv'
  <1>1. job \in [Procs -> Jobs] /\ pc \in [Procs -> PCs]
    BY DEF TypeInv, TypeOK, PCs
  <1>2. ASSUME NEW f \in Files, OpenFile(p, f) PROVE ClearInv'
    <2>1. pc[p] = "loop" /\ pc' = [pc EXCEPT ![p] = "hook"] /\ doc' = doc
      BY <1>2 DEF OpenFile, PastLoop
    <2>2. pc'[p] = "hook" /\ \A q \in Procs \ {p} : pc'[q] = pc[q]
      BY <1>1, <2>1
    <2>3. /\ \A q \in Procs \ {p} : job'[q] = job[q]
          /\ job'[p].open = f /\ job'[p].draft = doc[f]
      BY <1>2, OpenIs
    <2>4. NoLeafAbove(doc[f], f)
      BY DEF ClearInv
    <2>5. ClearOK(pc'[p], job'[p])
      BY <2>3, <2>4 DEF ClearOK
    <2> QED BY <2>1, <2>2, <2>3, <2>5, ClearKept
  <1>3. ASSUME NEW i \in job[p].left, KeepEntry(p, i) PROVE ClearInv'
    <2>1. pc[p] = "hook" /\ pc' = pc /\ doc' = doc
      BY <1>3 DEF KeepEntry, Visits
    <2>2. /\ \A q \in Procs \ {p} : job'[q] = job[q]
          /\ job'[p].open = job[p].open /\ job'[p].draft = job[p].draft
      BY <1>3, KeepIs
    <2>3. ClearOK(pc'[p], job'[p])
      BY <2>1, <2>2 DEF ClearInv, ClearOK
    <2> QED BY <2>1, <2>2, <2>3, ClearKept
  <1>4. ASSUME NEW i \in job[p].left, SpliceEntry(p, i) PROVE ClearInv'
    <2> DEFINE d == job[p].draft
               f == job[p].open
               q == EntryAt(p, i).path
               v == NewValue(p, EntryAt(p, i))
    <2>1. pc[p] = "hook" /\ pc' = pc /\ doc' = doc
      BY <1>4 DEF SpliceEntry, Visits
    <2>2. /\ \A x \in Procs \ {p} : job'[x] = job[x]
          /\ job'[p].open = f /\ job'[p].draft = YamlSet(d, q, v)
      BY <1>4, SpliceIs
    <2>3. f \in Files /\ i \in Batch(job[p].plan, f) /\ job[p].plan \in Plans
      BY <2>1, HookTyped, EntryTyped
    <2>4. q \in Planned(f)
      BY <2>3, PlannedPath DEF EntryAt
    <2>5. NoLeafAbove(d, f)
      BY <2>1 DEF ClearInv, ClearOK
    <2> HIDE DEF d, f, q, v
    <2>6. NoLeafAbove(YamlSet(d, q, v), f)
      BY <2>3, <2>4, <2>5, SetClear
    <2>7. ClearOK(pc'[p], job'[p])
      BY <2>2, <2>6 DEF ClearOK
    <2> QED BY <2>1, <2>2, <2>7, ClearKept
  <1>5. ASSUME NEW what \in Counts, pc[p] \in {"hook", "seal"}, Close(p, what)
        PROVE  /\ pc'[p] = "loop" /\ ClearOK(pc'[p], job'[p])
               /\ \A q \in Procs \ {p} : pc'[q] = pc[q] /\ job'[q] = job[q]
    <2>1. job[p].plan \in Plans
      BY <1>5, HookTyped
    <2> QED BY <1>1, <1>5, <2>1, CloseIs DEF PCs, ClearOK
  <1>6. ASSUME NEW i \in job[p].left, HookFails(p, i) PROVE ClearInv'
    BY <1>5, <1>6, ClearKept DEF HookFails, Visits, Counts
  <1>7. CASE FileFails(p)
    BY <1>5, <1>7, ClearKept DEF FileFails, Counts
  <1>8. CASE HookEnds(p)
    <2>1. pc[p] = "hook" /\ doc' = doc
      BY <1>8 DEF HookEnds
    <2>2. CASE pc' = [pc EXCEPT ![p] = "seal"] /\ UNCHANGED job
      <3>1. \A q \in Procs \ {p} : pc'[q] = pc[q] /\ job'[q] = job[q]
        BY <1>1, <2>2
      <3>2. ClearOK(pc'[p], job'[p])
        BY <2>1, <2>2 DEF ClearInv, ClearOK
      <3> QED BY <2>1, <3>1, <3>2, ClearKept
    <2> QED BY <1>5, <1>8, <2>1, <2>2, ClearKept DEF HookEnds, Counts
  <1>9. CASE Seal(p)
    <2> DEFINE f == job[p].open
    <2>1. /\ pc[p] = "seal" /\ Close(p, "wrote")
          /\ doc' = [doc EXCEPT ![f] = job[p].draft]
      BY <1>9 DEF Seal
    <2>2. NoLeafAbove(job[p].draft, f)
      BY <2>1 DEF ClearInv, ClearOK
    <2>3. \A g \in Files : doc'[g] = doc[g] \/ (g = f /\ doc'[g] = job[p].draft)
      BY <2>1 DEF TypeInv, TypeOK
    <2> HIDE DEF f
    <2>4. \A g \in Files : NoLeafAbove(doc'[g], g)
      BY <2>2, <2>3 DEF ClearInv
    <2>5. \A x \in Procs : ClearOK(pc'[x], job'[x])
      BY <1>5, <2>1 DEF ClearInv, Counts
    <2> QED BY <2>4, <2>5 DEF ClearInv, ClearOK, NoLeafAbove, Planned, Batch, IsLeaf
  <1> QED BY <1>2, <1>3, <1>4, <1>6, <1>7, <1>8, <1>9 DEF HookStep

LEMMA StepClear ==
  ASSUME PathsApart
  PROVE  TypeInv /\ ClearInv /\ [Next]_vars => ClearInv'
  <1> SUFFICES ASSUME TypeInv, ClearInv, [Next]_vars PROVE ClearInv' OBVIOUS
  <1>1. CASE Next
    <2>1. PICK p \in Procs : \/ LoopStep(p) \/ Create(p) \/ CreateFails(p) \/ HookStep(p)
                             \/ Finish(p) \/ Crash(p) \/ ApplyStep(p)
      BY <1>1, NextCases
    <2>2. CASE HookStep(p)
      BY <2>2, HookClear
    <2>3. CASE ~HookStep(p)
      <3>1. /\ doc' = doc /\ pc'[p] \notin {"hook", "seal"}
            /\ \A q \in Procs \ {p} : pc'[q] = pc[q] /\ job'[q] = job[q]
        BY <2>1, <2>3, NotInHook
      <3>2. ClearOK(pc'[p], job'[p])
        BY <3>1 DEF ClearOK
      <3> QED BY <3>1, <3>2, ClearKept
    <2> QED BY <2>2, <2>3
  <1>2. CASE UNCHANGED vars
    <2>1. doc' = doc /\ pc' = pc /\ job' = job
      BY <1>2 DEF vars
    <2> QED BY <2>1 DEF ClearInv, ClearOK, NoLeafAbove, Planned, Batch, IsLeaf
  <1> QED BY <1>1, <1>2

-----------------------------------------------------------------------------
(***************************************************************************)
(* What a successful apply leaves.                                         *)
(***************************************************************************)
LEMMA AlonePresent ==
  ASSUME OneApplier, NEW p \in Procs, PresentOK(pc'[p], job'[p], store', doc')
  PROVE  PresentInv'
  <1>1. \A q \in Procs : q = p
    BY DEF OneApplier
  <1>2. \A q \in Procs : PresentOK(pc'[q], job'[q], store', doc')
    BY <1>1
  <1> QED BY <1>2 DEF PresentInv, PresentOK, Batch, Present, YamlGet

LEMMA CountPresent ==
  ASSUME OneApplier, TypeInv, PresentInv, NEW p \in Procs, NEW what \in Counts,
         pc[p] \in {"loop", "create"}, job[p].at <= Len(Plan[job[p].plan]),
         job' = Count(p, what), pc'[p] = "loop", doc' = doc,
         \A x \in Items : store[x] # None => store'[x] # None,
         \/ what = "errored" \/ job[p].mock \/ Cur(p).gen = "external"
         \/ Cur(p).kind = "akeyless" /\ store'[Cur(p).item] # None
  PROVE  PresentInv'
  <1> DEFINE j == job[p]
             k == job'[p]
  <1>1. /\ j.plan \in Plans /\ j.at \in 1..Len(Plan[j.plan]) /\ j \in Jobs
        /\ Len(Plan[j.plan]) \in Nat
    BY RunningTyped, CurTyped DEF Running
  <1>2. /\ Started(j, k) /\ k.at = j.at + 1 /\ k.batches = j.batches
        /\ k.errored = j.errored + (IF what = "errored" THEN 1 ELSE 0)
    BY CountIs DEF TypeInv, TypeOK
  <1>3. PresentOK(pc[p], j, store, doc) /\ pc[p] \in Running
    BY DEF PresentInv, Running
  <1>4. \/ what = "errored" \/ j.mock \/ Plan[j.plan][j.at].gen = "external"
        \/ /\ Plan[j.plan][j.at].kind = "akeyless"
           /\ store'[Plan[j.plan][j.at].item] # None
    BY DEF Cur
  <1>5. j.errored \in Nat
    BY <1>1 DEF Jobs
  <1>6. \A i \in 1..Len(Plan[j.plan]) :
          Plan[j.plan][i].kind = "akeyless" => Plan[j.plan][i].item \in Items
    BY <1>1, PlanTyped
  <1> HIDE DEF j, k
  <1>7. ASSUME ~k.mock, k.errored = 0, NEW i \in 1..Len(Plan[k.plan]), i < k.at,
               Plan[k.plan][i].gen # "external"
        PROVE  /\ Plan[k.plan][i].kind # "mock"
               /\ Plan[k.plan][i].kind = "akeyless" => store'[Plan[k.plan][i].item] # None
               /\ Plan[k.plan][i].kind = "sops" /\ Plan[k.plan][i].file \notin k.batches
                    => Present(doc'[Plan[k.plan][i].file], Plan[k.plan][i].path)
    <2>1. ~j.mock /\ j.errored = 0 /\ k.plan = j.plan /\ what # "errored"
      BY <1>2, <1>5, <1>7 DEF Started
    <2>2. CASE i = j.at
      BY <1>4, <1>7, <2>1, <2>2
    <2>3. CASE i < j.at
      BY <1>2, <1>3, <1>6, <1>7, <2>1, <2>3 DEF PresentOK
    <2> QED BY <1>1, <1>2, <1>7, <2>1, <2>2, <2>3
  <1>8. PresentOK("loop", k, store', doc')
    BY <1>7 DEF PresentOK
  <1> QED BY <1>8, AlonePresent DEF k

\* A batch is closed after a failure, or with all its entries in the file.
LEMMA ClosePresent ==
  ASSUME OneApplier, TypeInv, PresentInv, NEW p \in Procs, NEW what \in Counts,
         pc[p] \in {"hook", "seal"}, Close(p, what), store' = store,
         \A f \in Files : f # job[p].open => doc'[f] = doc[f],
         \/ what = "errored"
         \/ \A i \in Batch(job[p].plan, job[p].open) :
              Present(doc'[job[p].open], Plan[job[p].plan][i].path)
  PROVE  PresentInv'
  <1> DEFINE j == job[p]
             k == job'[p]
             b == Batch(j.plan, j.open)
  <1>1. /\ j \in Jobs /\ j.plan \in Plans /\ Len(Plan[j.plan]) \in Nat
        /\ j.at = Len(Plan[j.plan]) + 1
    BY HookTyped
  <1>2. /\ pc'[p] = "loop" /\ Started(j, k) /\ k.at = j.at
        /\ k.batches = j.batches \ {j.open}
        /\ k.errored = j.errored + (IF what = "errored" THEN Cardinality(b) ELSE 0)
    BY <1>1, CloseIs DEF TypeInv, TypeOK
  <1>3. PresentOK(pc[p], j, store, doc) /\ pc[p] \in Running
    BY DEF PresentInv, Running
  <1>4. /\ IsFiniteSet(b) /\ Cardinality(b) \in Nat
        /\ \A i \in 1..Len(Plan[j.plan]) :
             Queued(j.plan, i) /\ Plan[j.plan][i].file = j.open => i \in b
    <2>1. IsFiniteSet(b) /\ Cardinality(b) \in Nat
      BY <1>1, BatchTyped
    <2>2. DOMAIN Plan[j.plan] = 1..Len(Plan[j.plan])
      BY <1>1, PlanTyped
    <2> HIDE DEF j
    <2> QED BY <2>1, <2>2 DEF Batch, Queued
  <1>5. Cardinality(b) = 0 => b = {}
    <2> HIDE DEF b
    <2> QED BY <1>4, FS_EmptySet
  <1>6. j.errored \in Nat
    BY <1>1 DEF Jobs
  <1>7. \/ what = "errored" \/ \A i \in b : Present(doc'[j.open], Plan[j.plan][i].path)
    OBVIOUS
  <1>8. \A i \in 1..Len(Plan[j.plan]) :
          Plan[j.plan][i].kind = "sops" => Plan[j.plan][i].file \in Files
    BY <1>1, PlanTyped
  <1>9. \A f \in Files : f # j.open => doc'[f] = doc[f]
    OBVIOUS
  <1> HIDE DEF j, k, b
  <1>10. ASSUME ~k.mock, k.errored = 0, NEW i \in 1..Len(Plan[k.plan]), i < k.at,
                Plan[k.plan][i].gen # "external"
         PROVE  /\ Plan[k.plan][i].kind # "mock"
                /\ Plan[k.plan][i].kind = "akeyless" => store'[Plan[k.plan][i].item] # None
                /\ Plan[k.plan][i].kind = "sops" /\ Plan[k.plan][i].file \notin k.batches
                     => Present(doc'[Plan[k.plan][i].file], Plan[k.plan][i].path)
    <2>1. /\ ~j.mock /\ j.errored = 0 /\ k.plan = j.plan /\ i < j.at
          /\ what = "errored" => b = {}
      BY <1>2, <1>4, <1>5, <1>6, <1>10 DEF Started
    <2>2. /\ Plan[k.plan][i].kind # "mock"
          /\ Plan[k.plan][i].kind = "akeyless" => store'[Plan[k.plan][i].item] # None
          /\ Plan[k.plan][i].kind = "sops" /\ Plan[k.plan][i].file \notin j.batches
               => Present(doc[Plan[k.plan][i].file], Plan[k.plan][i].path)
      BY <1>3, <1>10, <2>1 DEF PresentOK
    <2>3. ASSUME Plan[k.plan][i].kind = "sops", Plan[k.plan][i].file \notin k.batches
          PROVE  Present(doc'[Plan[k.plan][i].file], Plan[k.plan][i].path)
      <3>1. CASE Plan[k.plan][i].file = j.open
        <4>1. i \in b
          BY <1>4, <1>10, <2>1, <2>3, <3>1 DEF Queued
        <4> QED BY <1>7, <2>1, <3>1, <4>1
      <3>2. CASE Plan[k.plan][i].file # j.open
        <4>1. Plan[k.plan][i].file \notin j.batches
          BY <1>2, <2>3, <3>2
        <4>2. doc'[Plan[k.plan][i].file] = doc[Plan[k.plan][i].file]
          BY <1>8, <1>9, <1>10, <2>1, <2>3, <3>2
        <4> QED BY <2>2, <2>3, <4>1, <4>2
      <3> QED BY <3>1, <3>2
    <2> QED BY <2>2, <2>3
  <1>11. PresentOK("loop", k, store', doc')
    BY <1>10 DEF PresentOK
  <1> QED BY <1>2, <1>11, AlonePresent DEF k

LEMMA LoopPresent ==
  ASSUME OneApplier, TypeInv, PresentInv, NEW p \in Procs, LoopStep(p)
  PROVE  PresentInv'
  <1>1. job \in [Procs -> Jobs] /\ pc \in [Procs -> PCs]
    BY DEF TypeInv, TypeOK, PCs
  <1>2. pc[p] = "loop" /\ job[p].at <= Len(Plan[job[p].plan]) /\ store' = store /\ doc' = doc
    BY DEF LoopStep, SkipExternal, QueueSops, MockOne, RefuseMock, Login, LoginFails,
           Describe, DescribeFails, OnAkeyless, InLoop
  <1>3. ASSUME NEW what \in Counts, job' = Count(p, what), pc' = pc,
               \/ what = "errored" \/ job[p].mock \/ Cur(p).gen = "external"
               \/ Cur(p).kind = "akeyless" /\ store[Cur(p).item] # None
        PROVE  PresentInv'
    BY <1>2, <1>3, CountPresent
  <1>4. ASSUME NEW c \in {4, 5}, Exit(p, c) PROVE PresentInv'
    <2>1. pc'[p] = "done" /\ job'[p].code = c
      BY <1>1, <1>4, ExitIs DEF PCs
    <2>2. PresentOK(pc'[p], job'[p], store', doc')
      BY <2>1 DEF PresentOK, Running
    <2> QED BY <2>2, AlonePresent
  <1>5. CASE SkipExternal(p)
    BY <1>3, <1>5 DEF SkipExternal, Counts
  <1>6. CASE MockOne(p)
    BY <1>3, <1>6 DEF MockOne, Counts
  <1>7. CASE DescribeFails(p)
    BY <1>3, <1>7 DEF DescribeFails, Counts
  <1>8. CASE RefuseMock(p) \/ LoginFails(p)
    BY <1>4, <1>8 DEF RefuseMock, LoginFails
  <1>9. CASE Login(p)
    <2> DEFINE j == job[p]
               k == job'[p]
    <2>1. /\ pc'[p] = "loop" /\ Started(j, k) /\ k.errored = j.errored
          /\ k.batches = j.batches /\ k.at = j.at
      BY <1>2, <1>9, LoginIs DEF Login
    <2>2. PresentOK("loop", j, store, doc)
      BY <1>2 DEF PresentInv
    <2> HIDE DEF j, k
    <2>3. PresentOK("loop", k, store', doc')
      BY <1>2, <2>1, <2>2 DEF PresentOK, Running, Started
    <2> QED BY <2>1, <2>3, AlonePresent DEF k
  <1>10. CASE Describe(p)
    <2>1. \/ job' = Count(p, "wrote") /\ UNCHANGED pc /\ store[Cur(p).item] # None
          \/ job' = Count(p, "errored") /\ UNCHANGED pc
          \/ pc' = [pc EXCEPT ![p] = "create"] /\ UNCHANGED job
      BY <1>10 DEF Describe, Answered
    <2>2. Cur(p).kind = "akeyless"
      BY <1>10 DEF Describe, OnAkeyless
    <2>3. CASE pc' = [pc EXCEPT ![p] = "create"] /\ UNCHANGED job
      <3>1. pc'[p] = "create" /\ job'[p] = job[p]
        BY <1>1, <2>3
      <3>2. PresentOK("loop", job[p], store, doc)
        BY <1>2 DEF PresentInv
      <3>3. PresentOK("create", job[p], store', doc')
        BY <1>2, <3>2 DEF PresentOK, Running
      <3> QED BY <3>1, <3>3, AlonePresent
    <2> QED BY <1>3, <2>1, <2>2, <2>3 DEF Counts
  <1>11. CASE QueueSops(p)
    <2> DEFINE j == job[p]
               k == job'[p]
               f == Cur(p).file
    <2>1. /\ pc'[p] = "loop" /\ Started(j, k) /\ k.errored = j.errored
          /\ k.at = j.at + 1 /\ k.batches = j.batches \cup {f}
      BY <1>2, <1>11, QueueIs DEF QueueSops
    <2>2. /\ j.plan \in Plans /\ j.at \in 1..Len(Plan[j.plan]) /\ j \in Jobs
          /\ Len(Plan[j.plan]) \in Nat
      BY <1>2, RunningTyped, CurTyped DEF Running
    <2>3. PresentOK("loop", j, store, doc)
      BY <1>2 DEF PresentInv
    <2>4. Plan[j.plan][j.at].kind = "sops" /\ Plan[j.plan][j.at].file = f
      BY <1>11 DEF QueueSops, Cur
    <2> HIDE DEF j, k, f
    <2>5. ASSUME ~k.mock, k.errored = 0, NEW i \in 1..Len(Plan[k.plan]), i < k.at,
                 Plan[k.plan][i].gen # "external"
          PROVE  /\ Plan[k.plan][i].kind # "mock"
                 /\ Plan[k.plan][i].kind = "akeyless" => store'[Plan[k.plan][i].item] # None
                 /\ Plan[k.plan][i].kind = "sops" /\ Plan[k.plan][i].file \notin k.batches
                      => Present(doc'[Plan[k.plan][i].file], Plan[k.plan][i].path)
      <3>1. ~j.mock /\ j.errored = 0 /\ k.plan = j.plan
        BY <2>1, <2>5 DEF Started
      <3>2. CASE i = j.at
        BY <2>1, <2>4, <2>5, <3>1, <3>2
      <3>3. CASE i < j.at
        BY <1>2, <2>1, <2>3, <2>5, <3>1, <3>3 DEF PresentOK, Running
      <3> QED BY <2>1, <2>2, <2>5, <3>1, <3>2, <3>3
    <2>6. PresentOK("loop", k, store', doc')
      BY <2>5 DEF PresentOK
    <2> QED BY <2>1, <2>6, AlonePresent DEF k
  <1> QED BY <1>5, <1>6, <1>7, <1>8, <1>9, <1>10, <1>11 DEF LoopStep

LEMMA CreatePresent ==
  ASSUME OneApplier, TypeInv, PresentInv, NEW p \in Procs, Create(p) \/ CreateFails(p)
  PROVE  PresentInv'
  <1>1. /\ pc[p] = "create" /\ pc' = [pc EXCEPT ![p] = "loop"] /\ doc' = doc
        /\ \/ Store(p) /\ (job' = Count(p, "wrote") \/ job' = Count(p, "errored"))
           \/ store' = store /\ job' = Count(p, "errored")
    BY DEF Create, CreateFails
  <1>2. pc'[p] = "loop"
    BY <1>1 DEF TypeInv, TypeOK
  <1>3. job[p].at <= Len(Plan[job[p].plan]) /\ Cur(p).kind = "akeyless"
    BY <1>1 DEF TypeInv, RunOK, Cur
  <1>4. Cur(p).item \in Items /\ NewValue(p, Cur(p)) \in Values
    BY <1>1, <1>3, CurTyped DEF Running
  <1>5. NewValue(p, Cur(p)) # None
    BY <1>4, PlanAssumption
  <1>6. Store(p) => /\ store'[Cur(p).item] # None
                    /\ \A x \in Items : store[x] # None => store'[x] # None
    BY <1>4, <1>5 DEF Store, TypeInv, TypeOK
  <1> QED BY <1>1, <1>2, <1>3, <1>6, CountPresent DEF Counts

\* A value stored at a planned path leaves the other planned paths alone.
LEMMA SetKeepsPlanned ==
  ASSUME PathsApart, NEW f \in Files, NEW d, NoLeafAbove(d, f),
         NEW q \in Planned(f), NEW r \in Planned(f), NEW v
  PROVE  YamlSet(d, q, v)[r] = IF r = q THEN v ELSE d[r]
  <1>1. q \in Paths /\ r \in Paths /\ ~Strict(q, r) /\ ~Strict(r, q)
    BY PlannedPath DEF PathsApart
  <1> QED BY <1>1, SetAt DEF PutAt, Nodes

\* Inside the hook.
LEMMA HookedPresent ==
  ASSUME NEW j, NEW k, NEW st, NEW ds, NEW q \in Running, NEW r \in {"hook", "seal"},
         PresentOK(q, j, st, ds), Started(j, k), k.errored = j.errored, k.at = j.at,
         k.batches = j.batches,
         \A i \in Batch(k.plan, k.open) \ k.left : Present(k.draft, Plan[k.plan][i].path),
         r = "seal" => k.left = {},
         r = "hook" /\ ~k.dirty => k.draft = ds[k.open]
  PROVE  PresentOK(r, k, st, ds)
  BY DEF PresentOK, Started, Running

LEMMA HookPresent ==
  ASSUME OneApplier, PathsApart, TypeInv, ClearInv, PresentInv, NEW p \in Procs, HookStep(p)
  PROVE  PresentInv'
  <1>1. job \in [Procs -> Jobs] /\ pc \in [Procs -> PCs]
    BY DEF TypeInv, TypeOK, PCs
  <1>2. PresentOK(pc[p], job[p], store, doc)
    BY DEF PresentInv
  <1>3. ASSUME NEW f \in Files, OpenFile(p, f) PROVE PresentInv'
    <2> DEFINE j == job[p]
               k == job'[p]
    <2>1. pc[p] = "loop" /\ pc' = [pc EXCEPT ![p] = "hook"] /\ doc' = doc /\ store' = store
      BY <1>3 DEF OpenFile, PastLoop
    <2>2. pc'[p] = "hook"
      BY <1>1, <2>1
    <2>3. /\ Started(j, k) /\ k.errored = j.errored /\ k.at = j.at /\ k.batches = j.batches
          /\ k.open = f /\ k.left = Batch(j.plan, f) /\ k.draft = doc[f]
      BY <1>3, OpenIs
    <2> HIDE DEF j, k
    <2>4. Batch(k.plan, k.open) \ k.left = {}
      BY <2>3 DEF Started
    <2>5. PresentOK("hook", k, store, doc)
      BY <1>2, <2>1, <2>3, <2>4, HookedPresent DEF Running, j
    <2> QED BY <2>1, <2>2, <2>5, AlonePresent DEF k
  <1>4. ASSUME NEW i \in job[p].left, KeepEntry(p, i) PROVE PresentInv'
    <2> DEFINE j == job[p]
               k == job'[p]
    <2>1. pc[p] = "hook" /\ pc' = pc /\ doc' = doc /\ store' = store
      BY <1>4 DEF KeepEntry, Visits
    <2>2. Present(j.draft, Plan[j.plan][i].path)
      BY <1>4 DEF KeepEntry, Splices, EntryAt
    <2>3. /\ Started(j, k) /\ k.errored = j.errored /\ k.at = j.at /\ k.batches = j.batches
          /\ k.open = j.open /\ k.left = j.left \ {i} /\ k.draft = j.draft /\ k.dirty = j.dirty
      BY <1>4, KeepIs
    <2>4. /\ \A n \in Batch(j.plan, j.open) \ j.left : Present(j.draft, Plan[j.plan][n].path)
          /\ ~j.dirty => j.draft = doc[j.open]
      BY <1>2, <2>1 DEF PresentOK
    <2> HIDE DEF j, k
    <2>5. \A n \in Batch(k.plan, k.open) \ k.left : Present(k.draft, Plan[k.plan][n].path)
      BY <2>2, <2>3, <2>4 DEF Started
    <2>6. PresentOK("hook", k, store, doc)
      BY <1>2, <2>1, <2>3, <2>4, <2>5, HookedPresent DEF Running, j
    <2> QED BY <2>1, <2>6, AlonePresent DEF k
  <1>5. ASSUME NEW i \in job[p].left, SpliceEntry(p, i) PROVE PresentInv'
    <2> DEFINE j == job[p]
               k == job'[p]
               q == EntryAt(p, i).path
               v == NewValue(p, EntryAt(p, i))
    <2>1. pc[p] = "hook" /\ pc' = pc /\ doc' = doc /\ store' = store
      BY <1>5 DEF SpliceEntry, Visits
    <2>2. /\ Started(j, k) /\ k.errored = j.errored /\ k.at = j.at /\ k.batches = j.batches
          /\ k.open = j.open /\ k.left = j.left \ {i} /\ k.dirty
          /\ k.draft = YamlSet(j.draft, q, v)
      BY <1>5, SpliceIs
    <2>3. \A n \in Batch(j.plan, j.open) \ j.left : Present(j.draft, Plan[j.plan][n].path)
      BY <1>2, <2>1 DEF PresentOK
    <2>4. /\ j.open \in Files /\ i \in Batch(j.plan, j.open) /\ j.plan \in Plans
          /\ v \in Values /\ q = Plan[j.plan][i].path
      BY <2>1, HookTyped, EntryTyped DEF EntryAt
    <2>5. v # Absent
      BY <2>4, PlanAssumption
    <2>6. NoLeafAbove(j.draft, j.open)
      BY <2>1 DEF ClearInv, ClearOK
    <2> HIDE DEF j, k, q, v
    <2>7. \A n \in Batch(j.plan, j.open) :
            Plan[j.plan][n].path \in Planned(j.open) /\ q \in Planned(j.open)
      BY <2>4, PlannedPath
    <2>8. ASSUME NEW n \in Batch(k.plan, k.open) \ k.left
          PROVE  Present(k.draft, Plan[k.plan][n].path)
      <3>1. n \in Batch(j.plan, j.open) /\ (n = i \/ n \notin j.left) /\ k.plan = j.plan
        BY <2>2, <2>8 DEF Started
      <3> DEFINE r == Plan[j.plan][n].path
      <3>2. r \in Planned(j.open) /\ q \in Planned(j.open)
        BY <2>7, <3>1
      <3>3. k.draft[r] = IF r = q THEN v ELSE j.draft[r]
        BY <2>2, <2>4, <2>6, <3>2, SetKeepsPlanned
      <3>4. n # i => j.draft[r] # Absent
        BY <2>3, <3>1 DEF Present, YamlGet
      <3>5. n = i => r = q
        BY <2>4
      <3>6. k.draft[r] # Absent
        BY <2>5, <3>3, <3>4, <3>5
      <3> QED BY <3>1, <3>6 DEF Present, YamlGet
    <2>9. PresentOK("hook", k, store, doc)
      BY <1>2, <2>1, <2>2, <2>8, HookedPresent DEF Running, j
    <2> QED BY <2>1, <2>9, AlonePresent DEF k
  <1>6. ASSUME pc[p] \in {"hook", "seal"}, Close(p, "errored"), store' = store, doc' = doc
        PROVE  PresentInv'
    BY <1>6, ClosePresent DEF Counts
  <1>7. ASSUME NEW i \in job[p].left, HookFails(p, i) PROVE PresentInv'
    BY <1>6, <1>7 DEF HookFails, Visits
  <1>8. CASE FileFails(p)
    BY <1>6, <1>8 DEF FileFails
  <1>9. CASE HookEnds(p)
    <2>1. pc[p] = "hook" /\ doc' = doc /\ store' = store /\ job[p].left = {}
      BY <1>9 DEF HookEnds
    <2>2. /\ \A n \in Batch(job[p].plan, job[p].open) :
               Present(job[p].draft, Plan[job[p].plan][n].path)
          /\ ~job[p].dirty => job[p].draft = doc[job[p].open]
      BY <1>2, <2>1 DEF PresentOK
    <2>3. CASE pc' = [pc EXCEPT ![p] = "seal"] /\ UNCHANGED job
      <3>1. pc'[p] = "seal" /\ job'[p] = job[p]
        BY <1>1, <2>3
      <3> DEFINE j == job[p]
      <3>2. \A n \in Batch(j.plan, j.open) \ j.left : Present(j.draft, Plan[j.plan][n].path)
        BY <2>2
      <3>3. PresentOK("seal", j, store, doc)
        BY <1>2, <2>1, <3>2, HookedPresent DEF Running, Started
      <3> QED BY <2>1, <3>1, <3>3, AlonePresent
    <2>4. CASE ~job[p].dirty /\ Close(p, "skipped")
      BY <2>1, <2>2, <2>4, ClosePresent DEF Counts
    <2> QED BY <1>9, <2>3, <2>4 DEF HookEnds
  <1>10. CASE Seal(p)
    <2>1. /\ pc[p] = "seal" /\ Close(p, "wrote") /\ store' = store
          /\ doc' = [doc EXCEPT ![job[p].open] = job[p].draft]
      BY <1>10 DEF Seal
    <2>2. \A n \in Batch(job[p].plan, job[p].open) :
            Present(job[p].draft, Plan[job[p].plan][n].path)
      BY <1>2, <2>1 DEF PresentOK
    <2>3. job[p].open \in Files
      BY <2>1, HookTyped
    <2>4. /\ doc'[job[p].open] = job[p].draft
          /\ \A f \in Files : f # job[p].open => doc'[f] = doc[f]
      BY <2>1, <2>3 DEF TypeInv, TypeOK
    <2> QED BY <2>1, <2>2, <2>4, ClosePresent DEF Counts
  <1> QED BY <1>3, <1>4, <1>5, <1>7, <1>8, <1>9, <1>10 DEF HookStep

LEMMA EndPresent ==
  ASSUME OneApplier, TypeInv, PresentInv, NEW p \in Procs,
         Finish(p) \/ Crash(p) \/ ApplyStep(p)
  PROVE  PresentInv'
  <1>1. job \in [Procs -> Jobs] /\ pc \in [Procs -> PCs]
    BY DEF TypeInv, TypeOK, PCs
  <1>2. CASE Crash(p)
    <2>1. pc'[p] = "crashed"
      BY <1>1, <1>2 DEF Crash
    <2>2. PresentOK(pc'[p], job'[p], store', doc')
      BY <2>1 DEF PresentOK, Running
    <2> QED BY <2>2, AlonePresent
  <1>3. CASE ApplyStep(p)
    <2>1. PICK pl \in Plans, t \in Names \cup {None}, mock \in BOOLEAN : Apply(p, pl, t, mock)
      BY <1>3 DEF ApplyStep
    <2> DEFINE k == job'[p]
    <2>2. \/ pc'[p] = "done" /\ k.code = 4
          \/ pc'[p] = "loop" /\ k.plan = pl /\ k.at = 1
      BY <2>1, ApplyIs
    <2>3. Len(Plan[pl]) \in Nat
      BY PlanTyped
    <2> HIDE DEF k
    <2>4. k.plan = pl /\ k.at = 1 => \A i \in 1..Len(Plan[k.plan]) : ~(i < k.at)
      BY <2>3
    <2>5. PresentOK(pc'[p], k, store', doc')
      BY <2>2, <2>4 DEF PresentOK, Running
    <2> QED BY <2>5, AlonePresent DEF k
  <1>4. CASE Finish(p)
    <2> DEFINE j == job[p]
               k == job'[p]
    <2>1. /\ pc[p] = "loop" /\ j.batches = {} /\ j.at > Len(Plan[j.plan])
          /\ Exit(p, IF j.errored > 0 THEN 1 ELSE 0) /\ store' = store /\ doc' = doc
      BY <1>4 DEF Finish, PastLoop
    <2>2. /\ j.plan \in Plans /\ j.at \in Nat /\ Len(Plan[j.plan]) \in Nat /\ j \in Jobs
          /\ j.at <= Len(Plan[j.plan]) + 1
      BY <2>1, RunningTyped DEF Running
    <2> DEFINE c == IF j.errored > 0 THEN 1 ELSE 0
    <2>3. pc'[p] = "done" /\ Started(j, k) /\ k.code = c
      <3>1. c \in {0, 1, 4, 5} /\ Exit(p, c)
        BY <2>1
      <3> HIDE DEF c
      <3> QED BY <1>1, <3>1, ExitIs DEF PCs
    <2>4. PresentOK("loop", j, store, doc)
      BY <2>1 DEF PresentInv
    <2>5. k.code = 0 => j.errored = 0
      <3>1. j.errored \in Nat
        BY <2>2 DEF Jobs
      <3> QED BY <2>3, <3>1
    <2>6. \A i \in 1..Len(Plan[j.plan]) :
            /\ i < j.at
            /\ Plan[j.plan][i].kind \in {"akeyless", "sops", "mock"}
      BY <2>1, <2>2, PlanTyped
    <2> HIDE DEF j, k
    <2>7. ASSUME k.code = 0, ~k.mock, NEW i \in DOMAIN Plan[k.plan],
                 Plan[k.plan][i].gen # "external"
          PROVE  IF Plan[k.plan][i].kind = "akeyless" THEN store'[Plan[k.plan][i].item] # None
                 ELSE Present(doc'[Plan[k.plan][i].file], Plan[k.plan][i].path)
      <3>1. k.plan = j.plan /\ ~j.mock /\ i \in 1..Len(Plan[j.plan])
        BY <2>2, <2>3, <2>7, PlanTyped DEF Started
      <3> QED BY <2>1, <2>4, <2>5, <2>6, <2>7, <3>1 DEF PresentOK, Running
    <2>8. PresentOK("done", k, store', doc')
      BY <2>7 DEF PresentOK, Running
    <2> QED BY <2>3, <2>8, AlonePresent DEF k
  <1> QED BY <1>2, <1>3, <1>4

LEMMA StepPresent ==
  ASSUME OneApplier, PathsApart
  PROVE  TypeInv /\ ClearInv /\ PresentInv /\ [Next]_vars => PresentInv'
  <1> SUFFICES ASSUME TypeInv, ClearInv, PresentInv, [Next]_vars PROVE PresentInv' OBVIOUS
  <1>1. CASE Next
    <2>1. PICK p \in Procs : \/ LoopStep(p) \/ Create(p) \/ CreateFails(p) \/ HookStep(p)
                             \/ Finish(p) \/ Crash(p) \/ ApplyStep(p)
      BY <1>1, NextCases
    <2> QED BY <2>1, LoopPresent, CreatePresent, HookPresent, EndPresent
  <1>2. CASE UNCHANGED vars
    <2>1. store' = store /\ doc' = doc /\ pc' = pc /\ job' = job
      BY <1>2 DEF vars
    <2> QED BY <2>1 DEF PresentInv, PresentOK, Batch, Present, YamlGet
  <1> QED BY <1>1, <1>2

(***************************************************************************)
(* With one applier, plans whose paths in a file do not run through one    *)
(* another and no leaf above a planned path, an apply that exits 0 leaves  *)
(* every secret cofre manages in place: in the service, or at its path in  *)
(* its file, whatever applies before it failed or were killed half-way     *)
(* (main.rs, backends.rs).                                                 *)
(***************************************************************************)
THEOREM SuccessIsPresent ==
  ASSUME OneApplier, PathsApart
  PROVE  Spec => []SuccessMeansPresent
  <1>1. Init => PresentInv
    BY DEF Init, PresentInv, PresentOK, Running
  <1>2. TypeInv /\ PresentInv => SuccessMeansPresent
    <2> SUFFICES ASSUME TypeInv, PresentInv, NEW p \in Procs, pc[p] = "done", job[p].code = 0,
                        ~job[p].mock, NEW s \in Managed(job[p].plan)
                 PROVE  Holds(s)
      BY DEF SuccessMeansPresent
    <2>1. PICK i \in DOMAIN Plan[job[p].plan] : s = Plan[job[p].plan][i] /\ s.gen # "external"
      BY DEF Managed, SecretsOf
    <2>2. PresentOK(pc[p], job[p], store, doc)
      BY DEF PresentInv
    <2> QED BY <2>1, <2>2 DEF PresentOK, Holds
  <1>3. Spec => [](TypeInv /\ ClearInv /\ PresentInv)
    BY <1>1, InitType, InitClear, StepType, StepClear, StepPresent, PTL DEF Spec
  <1> QED BY <1>2, <1>3, PTL

-----------------------------------------------------------------------------
(***************************************************************************)
(* What an apply changes.                                                  *)
(***************************************************************************)
LEMMA AloneKeep ==
  ASSUME OneApplier, NEW p \in Procs, KeepOK(pc'[p], job'[p], store', doc')
  PROVE  KeepInv'
  <1>1. \A q \in Procs : q = p
    BY DEF OneApplier
  <1>2. \A q \in Procs : KeepOK(pc'[q], job'[q], store', doc')
    BY <1>1
  <1> QED BY <1>2 DEF KeepInv, KeepOK, Batch, IsLeaf, Rotatable, SecretsOf

\* Back in the loop, or out of it.
LEMMA LoopKeep ==
  ASSUME OneApplier, KeepInv, NEW p \in Procs, pc[p] \in Running,
         Started(job[p], job'[p]), pc'[p] \in {"loop", "done", "crashed"}
  PROVE  KeepInv'
  <1>1. KeepOK(pc[p], job[p], store, doc)
    BY DEF KeepInv
  <1>2. KeepOK(pc'[p], job'[p], store', doc')
    BY <1>1 DEF KeepOK, Running, Started
  <1> QED BY <1>2, AloneKeep

LEMMA OutsideKeep ==
  ASSUME OneApplier, TypeInv, KeepInv, NEW p \in Procs,
         \/ LoopStep(p) \/ Create(p) \/ CreateFails(p) \/ Finish(p) \/ Crash(p) \/ ApplyStep(p)
  PROVE  KeepInv'
  <1>1. job \in [Procs -> Jobs] /\ pc \in [Procs -> PCs]
    BY DEF TypeInv, TypeOK, PCs
  <1>2. ASSUME NEW what \in Counts, job' = Count(p, what) PROVE Started(job[p], job'[p])
    BY <1>1, <1>2, CountIs
  <1>3. ASSUME NEW c \in {0, 1, 4, 5}, Exit(p, c), pc[p] \in Running PROVE KeepInv'
    <2>1. pc'[p] = "done" /\ Started(job[p], job'[p])
      BY <1>1, <1>3, ExitIs DEF PCs
    <2> QED BY <1>3, <2>1, LoopKeep
  <1>4. CASE Create(p) \/ CreateFails(p)
    <2>1. /\ pc[p] = "create" /\ pc' = [pc EXCEPT ![p] = "loop"]
          /\ (job' = Count(p, "wrote") \/ job' = Count(p, "errored"))
      BY <1>4 DEF Create, CreateFails
    <2>2. pc'[p] = "loop"
      BY <1>1, <2>1
    <2> QED BY <1>2, <2>1, <2>2, LoopKeep DEF Counts, Running
  <1>5. CASE Finish(p)
    BY <1>3, <1>5 DEF Finish, PastLoop, Running
  <1>6. CASE Crash(p)
    <2>1. pc[p] \in Running /\ pc'[p] = "crashed" /\ job' = job
      BY <1>1, <1>6 DEF Crash
    <2> QED BY <2>1, LoopKeep DEF Started
  <1>7. CASE ApplyStep(p)
    <2>1. PICK pl \in Plans, t \in Names \cup {None}, mock \in BOOLEAN : Apply(p, pl, t, mock)
      BY <1>7 DEF ApplyStep
    <2> DEFINE k == job'[p]
    <2>2. \/ pc'[p] = "done"
          \/ /\ pc'[p] = "loop" /\ k.plan = pl /\ k.target = t
             /\ t = None \/ Rotatable(pl, t)
      BY <2>1, ApplyIs
    <2> HIDE DEF k
    <2>3. KeepOK(pc'[p], k, store', doc')
      BY <2>2 DEF KeepOK, Running
    <2> QED BY <2>3, AloneKeep DEF k
  <1>8. CASE LoopStep(p)
    <2>1. pc[p] = "loop" /\ doc' = doc /\ store' = store
      BY <1>8 DEF LoopStep, SkipExternal, QueueSops, MockOne, RefuseMock, Login, LoginFails,
             Describe, DescribeFails, OnAkeyless, InLoop
    <2>2. CASE SkipExternal(p) \/ MockOne(p) \/ DescribeFails(p)
      <3>1. pc' = pc /\ (job' = Count(p, "wrote") \/ job' = Count(p, "errored")
                          \/ job' = Count(p, "skipped"))
        BY <2>2 DEF SkipExternal, MockOne, DescribeFails
      <3> QED BY <1>2, <2>1, <3>1, LoopKeep DEF Counts, Running
    <2>3. CASE RefuseMock(p) \/ LoginFails(p)
      BY <1>3, <2>1, <2>3 DEF RefuseMock, LoginFails, Running
    <2>4. CASE QueueSops(p)
      <3>1. pc' = pc /\ Started(job[p], job'[p])
        BY <2>4, QueueIs DEF QueueSops
      <3> QED BY <2>1, <3>1, LoopKeep DEF Running
    <2>5. CASE Login(p)
      <3>1. pc' = pc /\ Started(job[p], job'[p])
        BY <2>5, LoginIs DEF Login
      <3> QED BY <2>1, <3>1, LoopKeep DEF Running
    <2>6. CASE Describe(p)
      <3>1. \/ (job' = Count(p, "wrote") \/ job' = Count(p, "errored")) /\ UNCHANGED pc
            \/ /\ pc' = [pc EXCEPT ![p] = "create"] /\ UNCHANGED job
               /\ store[Cur(p).item] = None \/ Forced(p, Cur(p))
        BY <2>6 DEF Describe, Answered
      <3>2. CASE /\ pc' = [pc EXCEPT ![p] = "create"] /\ UNCHANGED job
                 /\ store[Cur(p).item] = None \/ Forced(p, Cur(p))
        <4> DEFINE j == job[p]
        <4>1. pc'[p] = "create" /\ job'[p] = j
          BY <1>1, <3>2
        <4>2. store[Plan[j.plan][j.at].item] = None \/ j.target = Plan[j.plan][j.at].name
          BY <3>2 DEF Cur, Forced
        <4>3. KeepOK("loop", j, store, doc)
          BY <2>1 DEF KeepInv
        <4> HIDE DEF j
        <4>4. KeepOK("create", j, store', doc')
          BY <2>1, <4>2, <4>3 DEF KeepOK, Running
        <4> QED BY <4>1, <4>4, AloneKeep
      <3> QED BY <1>2, <2>1, <3>1, <3>2, LoopKeep DEF Counts, Running
    <2> QED BY <1>8, <2>2, <2>3, <2>4, <2>5, <2>6 DEF LoopStep
  <1> QED BY <1>4, <1>5, <1>6, <1>7, <1>8

\* The draft's part of KeepOK.
Explained(pl, f, t, d, e) ==
    \A r \in Paths : d[r] # e[r] =>
      /\ \E i \in Batch(pl, f) : \/ IsPrefix(Plan[pl][i].path, r)
                                 \/ IsPrefix(r, Plan[pl][i].path)
      /\ IsLeaf(e, r) => \E i \in Batch(pl, f) : /\ Plan[pl][i].name = t
                                                 /\ IsPrefix(Plan[pl][i].path, r)

LEMMA HookedKeep ==
  ASSUME NEW j, NEW k, NEW st, NEW ds, NEW q \in Running, NEW r \in {"hook", "seal"},
         KeepOK(q, j, st, ds), Started(j, k),
         Explained(k.plan, k.open, k.target, k.draft, ds[k.open])
  PROVE  KeepOK(r, k, st, ds)
  BY DEF KeepOK, Started, Running, Explained

\* A value that is missing from the draft, or whose rotation was asked for,
\* is stored.
LEMMA SpliceExplained ==
  ASSUME PathsApart, NEW pl \in Plans, NEW f \in Files, NEW t, NEW d, NEW e, NEW v,
         NEW i \in Batch(pl, f), NoLeafAbove(d, f), NoLeafAbove(e, f), WellFormed(d),
         Explained(pl, f, t, d, e),
         d[Plan[pl][i].path] = Absent \/ t = Plan[pl][i].name
  PROVE  Explained(pl, f, t, YamlSet(d, Plan[pl][i].path, v), e)
  <1> DEFINE q == Plan[pl][i].path
             n == YamlSet(d, q, v)
  <1> SUFFICES ASSUME NEW r \in Paths, n[r] # e[r]
               PROVE  /\ \E x \in Batch(pl, f) : \/ IsPrefix(Plan[pl][x].path, r)
                                                 \/ IsPrefix(r, Plan[pl][x].path)
                      /\ IsLeaf(e, r) => \E x \in Batch(pl, f) :
                                           /\ Plan[pl][x].name = t
                                           /\ IsPrefix(Plan[pl][x].path, r)
    BY DEF Explained
  <1>1. q \in Planned(f) /\ q \in Paths
    BY PlannedPath
  <1>2. q \in Seq(Segments) /\ r \in Seq(Segments)
    BY <1>1, NodesAreSequences DEF Nodes
  <1>3. n[r] = IF r = q THEN v ELSE IF Strict(r, q) THEN Map
               ELSE IF Strict(q, r) THEN Absent ELSE d[r]
    BY <1>1, SetAt DEF PutAt, Nodes
  <1>4. /\ Strict(q, r) \/ r = q => IsPrefix(q, r)
        /\ Strict(r, q) => IsPrefix(r, q)
    <2>1. Strict(q, r) => IsPrefix(q, r)
      BY <1>2 DEF Strict, IsStrictPrefix
    <2>2. Strict(r, q) => IsPrefix(r, q)
      BY <1>2 DEF Strict, IsStrictPrefix
    <2>3. IsPrefix(q, q)
      BY <1>2, PrefixDef
    <2> QED BY <2>1, <2>2, <2>3
  <1>5. CASE Strict(r, q)
    <2>1. ~IsLeaf(e, r)
      BY <1>1, <1>5 DEF NoLeafAbove
    <2> QED BY <1>4, <1>5, <2>1
  <1>6. CASE r = q \/ Strict(q, r)
    <2>1. CASE t = Plan[pl][i].name
      BY <1>4, <1>6, <2>1
    <2>2. CASE d[q] = Absent
      <3>1. d[r] = Absent
        BY <1>1, <1>6, <2>2, AbsentBelow
      <3>2. IsLeaf(e, r) => d[r] # e[r]
        BY <3>1 DEF IsLeaf
      <3> QED BY <1>4, <1>6, <3>2 DEF Explained
    <2> QED BY <2>1, <2>2
  <1>7. CASE ~Strict(r, q) /\ ~Strict(q, r) /\ r # q
    <2>1. d[r] # e[r]
      BY <1>3, <1>7
    <2> QED BY <2>1 DEF Explained
  <1> QED BY <1>5, <1>6, <1>7

LEMMA HookKeep ==
  ASSUME OneApplier, PathsApart, TypeInv, ClearInv, KeepInv, NEW p \in Procs, HookStep(p)
  PROVE  KeepInv'
  <1>1. job \in [Procs -> Jobs] /\ pc \in [Procs -> PCs]
    BY DEF TypeInv, TypeOK, PCs
  <1>2. KeepOK(pc[p], job[p], store, doc)
    BY DEF KeepInv
  <1>3. ASSUME NEW f \in Files, OpenFile(p, f) PROVE KeepInv'
    <2> DEFINE j == job[p]
               k == job'[p]
    <2>1. pc[p] = "loop" /\ pc' = [pc EXCEPT ![p] = "hook"] /\ doc' = doc /\ store' = store
      BY <1>3 DEF OpenFile, PastLoop
    <2>2. pc'[p] = "hook"
      BY <1>1, <2>1
    <2>3. Started(j, k) /\ k.open = f /\ k.draft = doc[f]
      BY <1>3, OpenIs
    <2> HIDE DEF j, k
    <2>4. Explained(k.plan, k.open, k.target, k.draft, doc[k.open])
      BY <2>3 DEF Explained
    <2>5. KeepOK("hook", k, store, doc)
      BY <1>2, <2>1, <2>3, <2>4, HookedKeep DEF Running, j
    <2> QED BY <2>1, <2>2, <2>5, AloneKeep DEF k
  <1>4. ASSUME NEW i \in job[p].left, KeepEntry(p, i) PROVE KeepInv'
    <2> DEFINE j == job[p]
               k == job'[p]
    <2>1. pc[p] = "hook" /\ pc' = pc /\ doc' = doc /\ store' = store
      BY <1>4 DEF KeepEntry, Visits
    <2>2. Started(j, k) /\ k.open = j.open /\ k.draft = j.draft
      BY <1>4, KeepIs
    <2>3. Explained(j.plan, j.open, j.target, j.draft, doc[j.open])
      BY <1>2, <2>1 DEF KeepOK, Explained
    <2> HIDE DEF j, k
    <2>4. Explained(k.plan, k.open, k.target, k.draft, doc[k.open])
      BY <2>2, <2>3 DEF Started
    <2>5. KeepOK("hook", k, store, doc)
      BY <1>2, <2>1, <2>2, <2>4, HookedKeep DEF Running, j
    <2> QED BY <2>1, <2>5, AloneKeep DEF k
  <1>5. ASSUME NEW i \in job[p].left, SpliceEntry(p, i) PROVE KeepInv'
    <2> DEFINE j == job[p]
               k == job'[p]
               q == Plan[j.plan][i].path
               v == NewValue(p, EntryAt(p, i))
               d == j.draft
               e == doc[j.open]
    <2>1. pc[p] = "hook" /\ pc' = pc /\ doc' = doc /\ store' = store
      BY <1>5 DEF SpliceEntry, Visits
    <2>2. Started(j, k) /\ k.open = j.open /\ k.draft = YamlSet(d, q, v)
      BY <1>5, SpliceIs DEF EntryAt
    <2>3. /\ j.open \in Files /\ i \in Batch(j.plan, j.open) /\ j.plan \in Plans
          /\ WellFormed(d)
      BY <2>1, HookTyped, EntryTyped
    <2>4. NoLeafAbove(d, j.open) /\ NoLeafAbove(e, j.open)
      BY <2>1, <2>3 DEF ClearInv, ClearOK
    <2>5. d[q] = Absent \/ j.target = Plan[j.plan][i].name
      BY <1>5 DEF SpliceEntry, Splices, EntryAt, Present, YamlGet, Forced
    <2>6. Explained(j.plan, j.open, j.target, d, e)
      BY <1>2, <2>1 DEF KeepOK, Explained
    <2> HIDE DEF j, k, v, d, e
    <2>7. Explained(j.plan, j.open, j.target, YamlSet(d, q, v), e)
      BY <2>3, <2>4, <2>5, <2>6, SpliceExplained
    <2> HIDE DEF q
    <2>8. Explained(k.plan, k.open, k.target, k.draft, doc[k.open])
      BY <2>2, <2>7 DEF Started, e
    <2>9. KeepOK("hook", k, store, doc)
      BY <1>2, <2>1, <2>2, <2>8, HookedKeep DEF Running, j
    <2> QED BY <2>1, <2>9, AloneKeep DEF k
  <1>6. ASSUME NEW what \in Counts, pc[p] \in {"hook", "seal"}, Close(p, what) PROVE KeepInv'
    <2>1. job[p].plan \in Plans
      BY <1>6, HookTyped
    <2>2. pc'[p] = "loop" /\ Started(job[p], job'[p])
      BY <1>1, <1>6, <2>1, CloseIs DEF PCs
    <2> QED BY <1>6, <2>2, LoopKeep DEF Running
  <1>7. ASSUME NEW i \in job[p].left, HookFails(p, i) PROVE KeepInv'
    BY <1>6, <1>7 DEF HookFails, Visits, Counts
  <1>8. CASE FileFails(p) \/ Seal(p)
    BY <1>6, <1>8 DEF FileFails, Seal, Counts
  <1>9. CASE HookEnds(p)
    <2>1. pc[p] = "hook" /\ doc' = doc /\ store' = store
      BY <1>9 DEF HookEnds
    <2>2. CASE pc' = [pc EXCEPT ![p] = "seal"] /\ UNCHANGED job
      <3> DEFINE j == job[p]
      <3>1. pc'[p] = "seal" /\ job'[p] = j
        BY <1>1, <2>2
      <3>2. Explained(j.plan, j.open, j.target, j.draft, doc[j.open])
        BY <1>2, <2>1 DEF KeepOK, Explained
      <3>3. KeepOK("seal", j, store, doc)
        BY <1>2, <2>1, <3>2, HookedKeep DEF Running, Started
      <3> QED BY <2>1, <3>1, <3>3, AloneKeep
    <2> QED BY <1>6, <1>9, <2>1, <2>2 DEF HookEnds, Counts
  <1> QED BY <1>3, <1>4, <1>5, <1>7, <1>8, <1>9 DEF HookStep

LEMMA StepKeep ==
  ASSUME OneApplier, PathsApart
  PROVE  TypeInv /\ ClearInv /\ KeepInv /\ [Next]_vars => KeepInv'
  <1> SUFFICES ASSUME TypeInv, ClearInv, KeepInv, [Next]_vars PROVE KeepInv' OBVIOUS
  <1>1. CASE Next
    <2>1. PICK p \in Procs : \/ LoopStep(p) \/ Create(p) \/ CreateFails(p) \/ HookStep(p)
                             \/ Finish(p) \/ Crash(p) \/ ApplyStep(p)
      BY <1>1, NextCases
    <2> QED BY <2>1, OutsideKeep, HookKeep
  <1>2. CASE UNCHANGED vars
    <2>1. store' = store /\ doc' = doc /\ pc' = pc /\ job' = job
      BY <1>2 DEF vars
    <2> QED BY <2>1 DEF KeepInv, KeepOK, Batch, IsLeaf, Rotatable, SecretsOf
  <1> QED BY <1>1, <1>2

LEMMA AlwaysKeep ==
  ASSUME OneApplier, PathsApart
  PROVE  Spec => [](TypeInv /\ ClearInv /\ KeepInv)
  <1>1. Init => KeepInv
    BY DEF Init, KeepInv, KeepOK, Running
  <1> QED BY <1>1, InitType, InitClear, StepType, StepClear, StepKeep, PTL DEF Spec

\* Who touches the service, and who a file.
LEMMA WhoWrites ==
  ASSUME TypeInv, NEW p \in Procs,
         \/ LoopStep(p) \/ Create(p) \/ CreateFails(p) \/ HookStep(p)
         \/ Finish(p) \/ Crash(p) \/ ApplyStep(p)
  PROVE  /\ store' = store \/ (pc[p] = "create" /\ Store(p))
         /\ doc' = doc \/ Seal(p)
  <1>1. CASE HookStep(p)
    <2>1. CASE \E f \in Files : OpenFile(p, f)
      BY <2>1 DEF OpenFile
    <2>2. CASE \E i \in job[p].left : KeepEntry(p, i) \/ SpliceEntry(p, i) \/ HookFails(p, i)
      BY <2>2 DEF KeepEntry, SpliceEntry, HookFails
    <2>3. CASE HookEnds(p) \/ Seal(p) \/ FileFails(p)
      BY <2>3 DEF HookEnds, Seal, FileFails
    <2> QED BY <1>1, <2>1, <2>2, <2>3 DEF HookStep
  <1>2. CASE LoopStep(p)
    BY <1>2 DEF LoopStep, SkipExternal, QueueSops, MockOne, RefuseMock, Login, LoginFails,
           Describe, DescribeFails
  <1>3. CASE Create(p) \/ CreateFails(p)
    BY <1>3 DEF Create, CreateFails
  <1>4. CASE Finish(p) \/ Crash(p)
    BY <1>4 DEF Finish, Crash
  <1>5. CASE ApplyStep(p)
    BY <1>5 DEF ApplyStep, Apply
  <1> QED BY <1>1, <1>2, <1>3, <1>4, <1>5

LEMMA NamesDiffer ==
  ASSUME NEW pl \in Plans, NEW i \in 1..Len(Plan[pl]), NEW x \in DOMAIN Plan[pl],
         Plan[pl][i].name = Plan[pl][x].name
  PROVE  i = x
  <1>1. DOMAIN Plan[pl] = 1..Len(Plan[pl])
    BY PlanTyped
  <1> QED BY <1>1, PlanAssumption

\* The secret a running apply was told to rotate may be rotated.
LEMMA TargetRotates ==
  ASSUME TypeInv, KeepInv, NEW p \in Procs, pc[p] \in Running,
         NEW i \in 1..Len(Plan[job[p].plan]), Plan[job[p].plan][i].name = job[p].target
  PROVE  Plan[job[p].plan][i] \in Rotated
  <1> DEFINE pl == job[p].plan
             s == Plan[pl][i]
  <1>1. pl \in Plans
    BY RunningTyped
  <1>2. DOMAIN Plan[pl] = 1..Len(Plan[pl]) /\ s.name \in Names
    BY <1>1, PlanTyped
  <1>3. job[p].target # None
    BY <1>2, PlanAssumption
  <1>4. Rotatable(pl, job[p].target)
    BY <1>3 DEF KeepInv, KeepOK
  <1>5. PICK x \in DOMAIN Plan[pl] : Plan[pl][x].name = job[p].target /\ ~Plan[pl][x].never
    BY <1>4 DEF Rotatable, SecretsOf
  <1>6. x = i
    BY <1>1, <1>5, NamesDiffer
  <1>7. s \in SecretsOf(pl)
    BY <1>2 DEF SecretsOf
  <1>8. Rotates(p, s)
    BY <1>5, <1>6, <1>7 DEF Rotates, Forced
  <1> QED BY <1>1, <1>7, <1>8 DEF Rotated

\* What a seal changes is explained.
LEMMA SealExplained ==
  ASSUME TypeInv, KeepInv, NEW p \in Procs, Seal(p), NEW f \in Files, NEW r \in Paths,
         doc'[f][r] # doc[f][r]
  PROVE  LET j == job[p] IN
         /\ f = j.open /\ j.plan \in Plans /\ pc[p] \in Running
         /\ \E i \in Batch(j.plan, f) : \/ IsPrefix(Plan[j.plan][i].path, r)
                                        \/ IsPrefix(r, Plan[j.plan][i].path)
         /\ IsLeaf(doc[f], r) => \E i \in Batch(j.plan, f) :
              Plan[j.plan][i].name = j.target /\ IsPrefix(Plan[j.plan][i].path, r)
  <1>1. pc[p] = "seal" /\ doc' = [doc EXCEPT ![job[p].open] = job[p].draft]
    BY DEF Seal
  <1>2. job[p].open \in Files /\ job[p].plan \in Plans
    BY <1>1, HookTyped
  <1>3. f = job[p].open /\ doc'[f] = job[p].draft
    BY <1>1, <1>2 DEF TypeInv, TypeOK
  <1>4. job[p].draft[r] # doc[job[p].open][r]
    BY <1>3
  <1>5. KeepOK(pc[p], job[p], store, doc)
    BY DEF KeepInv
  <1> QED BY <1>1, <1>2, <1>3, <1>4, <1>5 DEF KeepOK, Running

(***************************************************************************)
(* With one applier and plans and documents as above, no value of an       *)
(* Akeyless item and no leaf of a sops file that is there before an apply  *)
(* is replaced or lost, unless the apply was told to rotate the very       *)
(* secret that lives there, and its policy is not Never                    *)
(* (docs/security-model.md; main.rs, backends.rs).                         *)
(***************************************************************************)
THEOREM KeptWithoutRotation ==
  ASSUME OneApplier, PathsApart
  PROVE  Spec => KeptUnlessRotated
  <1> DEFINE A == /\ \A i \in Items :
                       store[i] # None /\ store'[i] # store[i]
                         => \E s \in Rotated : s.kind = "akeyless" /\ s.item = i
                  /\ \A f \in Files, q \in Paths :
                       IsLeaf(doc[f], q) /\ doc'[f][q] # doc[f][q]
                         => \E s \in Rotated : /\ s.kind = "sops" /\ s.file = f
                                               /\ IsPrefix(s.path, q)
  <1>1. TypeInv /\ KeepInv /\ Next => A
    <2> SUFFICES ASSUME TypeInv, KeepInv, Next PROVE A OBVIOUS
    <2>1. PICK p \in Procs : \/ LoopStep(p) \/ Create(p) \/ CreateFails(p) \/ HookStep(p)
                             \/ Finish(p) \/ Crash(p) \/ ApplyStep(p)
      BY NextCases
    <2>2. /\ store' = store \/ (pc[p] = "create" /\ Store(p))
          /\ doc' = doc \/ Seal(p)
      BY <2>1, WhoWrites
    <2>3. ASSUME NEW i \in Items, store[i] # None, store'[i] # store[i]
          PROVE  \E s \in Rotated : s.kind = "akeyless" /\ s.item = i
      <3>1. pc[p] = "create" /\ Store(p)
        BY <2>2, <2>3
      <3>2. /\ job[p].at <= Len(Plan[job[p].plan]) /\ Cur(p).kind = "akeyless"
        BY <3>1 DEF TypeInv, RunOK, Cur
      <3>3. job[p].at \in 1..Len(Plan[job[p].plan])
        BY <3>1, <3>2, CurTyped DEF Running
      <3>4. i = Cur(p).item
        BY <2>3, <3>1 DEF Store, TypeInv, TypeOK
      <3>5. job[p].target = Cur(p).name
        BY <2>3, <3>1, <3>4 DEF KeepInv, KeepOK, Cur
      <3>6. Cur(p) \in Rotated
        BY <3>1, <3>3, <3>5, TargetRotates DEF Running, Cur
      <3> QED BY <3>2, <3>4, <3>6
    <2>4. ASSUME NEW f \in Files, NEW q \in Paths, IsLeaf(doc[f], q), doc'[f][q] # doc[f][q]
          PROVE  \E s \in Rotated : s.kind = "sops" /\ s.file = f /\ IsPrefix(s.path, q)
      <3>1. Seal(p)
        BY <2>2, <2>4
      <3>2. /\ job[p].plan \in Plans /\ pc[p] \in Running
            /\ \E i \in Batch(job[p].plan, f) :
                 Plan[job[p].plan][i].name = job[p].target /\ IsPrefix(Plan[job[p].plan][i].path, q)
        BY <2>4, <3>1, SealExplained
      <3>3. PICK i \in Batch(job[p].plan, f) :
              Plan[job[p].plan][i].name = job[p].target /\ IsPrefix(Plan[job[p].plan][i].path, q)
        BY <3>2
      <3>4. /\ i \in 1..Len(Plan[job[p].plan])
            /\ Plan[job[p].plan][i].kind = "sops" /\ Plan[job[p].plan][i].file = f
        BY <3>2, BatchTyped
      <3>5. Plan[job[p].plan][i] \in Rotated
        BY <3>2, <3>3, <3>4, TargetRotates
      <3> QED BY <3>3, <3>4, <3>5
    <2> QED BY <2>3, <2>4
  <1>2. TypeInv /\ KeepInv /\ [Next]_vars => [A]_vars
    BY <1>1
  <1>3. Spec => [][A]_vars
    BY <1>2, AlwaysKeep, PTL DEF Spec
  <1> QED BY <1>3 DEF KeptUnlessRotated

(***************************************************************************)
(* Under the same conditions, whatever changes in a sops file stands on,   *)
(* above or below the path of a secret of the plan that is being applied   *)
(* (yaml_set, SopsBackend::apply_batch).                                   *)
(***************************************************************************)
THEOREM ChangesArePlanned ==
  ASSUME OneApplier, PathsApart
  PROVE  Spec => OnlyPlannedPaths
  <1> DEFINE A == \A f \in Files, q \in Paths : doc'[f][q] # doc[f][q]
                    => \E p \in Procs :
                         /\ pc[p] \in Running
                         /\ \E s \in Managed(job[p].plan) :
                              /\ s.kind = "sops" /\ s.file = f
                              /\ IsPrefix(q, s.path) \/ IsPrefix(s.path, q)
  <1>1. TypeInv /\ KeepInv /\ Next => A
    <2> SUFFICES ASSUME TypeInv, KeepInv, Next, NEW f \in Files, NEW q \in Paths,
                        doc'[f][q] # doc[f][q]
                 PROVE  \E p \in Procs :
                          /\ pc[p] \in Running
                          /\ \E s \in Managed(job[p].plan) :
                               /\ s.kind = "sops" /\ s.file = f
                               /\ IsPrefix(q, s.path) \/ IsPrefix(s.path, q)
      OBVIOUS
    <2>1. PICK p \in Procs : \/ LoopStep(p) \/ Create(p) \/ CreateFails(p) \/ HookStep(p)
                             \/ Finish(p) \/ Crash(p) \/ ApplyStep(p)
      BY NextCases
    <2>2. Seal(p)
      BY <2>1, WhoWrites
    <2>3. /\ job[p].plan \in Plans /\ pc[p] \in Running
          /\ \E i \in Batch(job[p].plan, f) : \/ IsPrefix(Plan[job[p].plan][i].path, q)
                                              \/ IsPrefix(q, Plan[job[p].plan][i].path)
      BY <2>2, SealExplained
    <2>4. PICK i \in Batch(job[p].plan, f) : \/ IsPrefix(Plan[job[p].plan][i].path, q)
                                             \/ IsPrefix(q, Plan[job[p].plan][i].path)
      BY <2>3
    <2> DEFINE s == Plan[job[p].plan][i]
    <2>5. s \in Managed(job[p].plan) /\ s.kind = "sops" /\ s.file = f
      BY DEF Batch, Managed, SecretsOf
    <2> QED BY <2>3, <2>4, <2>5
  <1>2. TypeInv /\ KeepInv /\ [Next]_vars => [A]_vars
    BY <1>1
  <1>3. Spec => [][A]_vars
    BY <1>2, AlwaysKeep, PTL DEF Spec
  <1> QED BY <1>3 DEF OnlyPlannedPaths
=============================================================================
