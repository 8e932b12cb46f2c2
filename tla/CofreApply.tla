----------------------------- MODULE CofreApply -----------------------------
(***************************************************************************)
(* "cofre apply": the loop over a plan's secrets and the editor batches    *)
(* that follow it (main.rs), against an Akeyless service and the sops      *)
(* files of the machine (backends.rs).                                     *)
(*                                                                         *)
(* Plan[pl] is a validated plan: a sequence of secrets with a name, the    *)
(* kind of their backend, what their generation policy is ("external" when *)
(* there is none, "unimplemented" for the keypairs, which generate()       *)
(* refuses, else "ok"), whether their rotation policy is Never, and where  *)
(* they live: item for Akeyless and mocks, file and path for sops.         *)
(***************************************************************************)
EXTENDS YamlPaths, Integers, FiniteSets

CONSTANTS
    Procs,          \* appliers
    Names,          \* secrets' names
    Items,          \* Akeyless paths
    Files,          \* sops files
    Plans, Plan,    \* plans and [Plans -> sequence of secrets]
    Docs,           \* what the sops files may hold at first
    Operator,       \* a value the operator put there by hand
    None,           \* no value
    MaxRuns,        \* bound: applies started
    MaxFaults       \* bound: failed calls and killed applies

Runs   == 1..MaxRuns
Values == [run : Runs, of : Names] \cup {Operator}
Trees  == [Nodes -> Values \cup {Map, Absent}]

SecretsOf(pl) == {Plan[pl][i] : i \in DOMAIN Plan[pl]}
Managed(pl)   == {s \in SecretsOf(pl) : s.gen # "external"}

SamePlace(s, t) ==
    /\ s.kind = t.kind
    /\ IF s.kind = "sops" THEN s.file = t.file /\ s.path = t.path
                          ELSE s.item = t.item

(***************************************************************************)
(* What SecretMaterializationPlan::validate makes of every plan.  It wants *)
(* the targets of any two secrets distinct, not their places: a keypair's  *)
(* targets are its place with two suffixes, so it may share the place of   *)
(* another secret, although exists() and write() use the place alone.      *)
(***************************************************************************)
ASSUME PlanAssumption ==
    /\ MaxRuns \in Nat /\ MaxFaults \in Nat
    /\ None \notin Names \cup Values
    /\ {Absent, Map} \cap Values = {}
    /\ \A pl \in Plans :
         /\ Len(Plan[pl]) \in Nat \ {0} /\ DOMAIN Plan[pl] = 1..Len(Plan[pl])
         /\ \A i, j \in DOMAIN Plan[pl] : LET s == Plan[pl][i] t == Plan[pl][j] IN
              /\ s.name \in Names
              /\ s.kind \in {"akeyless", "sops", "mock"}
              /\ s.gen \in {"external", "unimplemented", "ok"}
              /\ s.kind = "akeyless" => s.item \in Items
              /\ s.kind = "sops" => s.file \in Files /\ s.path \in Paths
              /\ i # j => s.name # t.name
              /\ i # j /\ SamePlace(s, t) => "unimplemented" \in {s.gen, t.gen}
    /\ \A d \in Docs : d \in Trees /\ WellFormed(d)

VARIABLES
    runs, faults,
    store,      \* store[i]: the value of Akeyless item i, or None
    doc,        \* doc[f]: the plaintext of sops file f
    pc,
    job         \* job[p]: the memory of applier p

vars == <<runs, faults, store, doc, pc, job>>

NoJob == [plan |-> None, target |-> None, mock |-> FALSE, run |-> 0, at |-> 1,
          authed |-> FALSE, batches |-> {}, open |-> None, left |-> {},
          draft |-> None, dirty |-> FALSE,
          wrote |-> 0, skipped |-> 0, errored |-> 0, code |-> None]

Running == {"loop", "create", "hook", "seal"}

\* A file's batch: where in the plan its entries stand.
Batch(pl, f) ==
    {i \in DOMAIN Plan[pl] : LET s == Plan[pl][i] IN
       s.kind = "sops" /\ s.gen # "external" /\ s.file = f}

InLoop(p) == pc[p] = "loop" /\ job[p].at <= Len(Plan[job[p].plan])
PastLoop(p) == pc[p] = "loop" /\ job[p].at > Len(Plan[job[p].plan])

Cur(p)      == Plan[job[p].plan][job[p].at]
Forced(p, s) == job[p].target = s.name
NewValue(p, s) == [run |-> job[p].run, of |-> s.name]

\* n more secrets written, skipped or failed.
Tally(j, what, n) ==
    [j EXCEPT !.wrote   = IF what = "wrote" THEN @ + n ELSE @,
              !.skipped = IF what = "skipped" THEN @ + n ELSE @,
              !.errored = IF what = "errored" THEN @ + n ELSE @]

Count(p, what) ==
    [job EXCEPT ![p] = Tally([job[p] EXCEPT !.at = @ + 1], what, 1)]

Exit(p, c) ==
    /\ pc' = [pc EXCEPT ![p] = "done"]
    /\ job' = [job EXCEPT ![p].code = c]

\* --rotate names a secret of the plan that may be rotated.
Rotatable(pl, t) == \E s \in SecretsOf(pl) : s.name = t /\ ~s.never

Apply(p, pl, t, mock) ==
    /\ pc[p] \notin Running
    /\ runs < MaxRuns
    /\ runs' = runs + 1
    /\ LET started == [NoJob EXCEPT !.plan = pl, !.target = t, !.mock = mock,
                                    !.run = runs + 1]
           refused == t # None /\ ~Rotatable(pl, t)
       IN  /\ pc' = [pc EXCEPT ![p] = IF refused THEN "done" ELSE "loop"]
           /\ job' = [job EXCEPT ![p] = IF refused
                                        THEN [started EXCEPT !.code = 4]
                                        ELSE started]
    /\ UNCHANGED <<faults, store, doc>>

(***************************************************************************)
(* The loop over plan.secrets.                                             *)
(***************************************************************************)
SkipExternal(p) ==
    /\ InLoop(p) /\ Cur(p).gen = "external"
    /\ job' = Count(p, "skipped")
    /\ UNCHANGED <<runs, faults, store, doc, pc>>

QueueSops(p) ==
    /\ InLoop(p) /\ Cur(p).gen # "external" /\ Cur(p).kind = "sops"
    /\ job' = [job EXCEPT ![p].batches = @ \cup {Cur(p).file}, ![p].at = @ + 1]
    /\ UNCHANGED <<runs, faults, store, doc, pc>>

\* The mock backend is a map in this run's memory: it holds what an earlier
\* secret of the plan stored in the same place.
MockHolds(p, s) ==
    \E i \in 1..job[p].at - 1 :
      Plan[job[p].plan][i].gen = "ok" /\ SamePlace(Plan[job[p].plan][i], s)

MockOne(p) ==
    /\ InLoop(p) /\ Cur(p).gen # "external" /\ Cur(p).kind # "sops"
    /\ job[p].mock
    /\ LET s == Cur(p) IN
       job' = Count(p, IF s.gen = "ok" \/ (MockHolds(p, s) /\ ~Forced(p, s))
                       THEN "wrote" ELSE "errored")
    /\ UNCHANGED <<runs, faults, store, doc, pc>>

RefuseMock(p) ==
    /\ InLoop(p) /\ Cur(p).gen # "external" /\ Cur(p).kind = "mock"
    /\ ~job[p].mock
    /\ Exit(p, 4)
    /\ UNCHANGED <<runs, faults, store, doc>>

OnAkeyless(p) ==
    /\ InLoop(p) /\ Cur(p).gen # "external" /\ Cur(p).kind = "akeyless"
    /\ ~job[p].mock

Login(p) ==
    /\ OnAkeyless(p) /\ ~job[p].authed
    /\ job' = [job EXCEPT ![p].authed = TRUE]
    /\ UNCHANGED <<runs, faults, store, doc, pc>>

LoginFails(p) ==
    /\ OnAkeyless(p) /\ ~job[p].authed
    /\ faults < MaxFaults /\ faults' = faults + 1
    /\ Exit(p, 5)
    /\ UNCHANGED <<runs, store, doc>>

\* apply_one_via_backend once exists() has answered: Ok(false), a policy
\* that cannot be generated, or on to the write.
Answered(p, present) ==
    IF present /\ ~Forced(p, Cur(p))
    THEN job' = Count(p, "wrote") /\ UNCHANGED pc
    ELSE IF Cur(p).gen # "ok"
    THEN job' = Count(p, "errored") /\ UNCHANGED pc
    ELSE pc' = [pc EXCEPT ![p] = "create"] /\ UNCHANGED job

\* Mutant: exists() is not asked.
DescribeUnasked(p) ==
    /\ OnAkeyless(p) /\ job[p].authed
    /\ Answered(p, FALSE)
    /\ UNCHANGED <<runs, faults, store, doc>>

Describe(p) ==
    /\ OnAkeyless(p) /\ job[p].authed
    /\ Answered(p, store[Cur(p).item] # None)
    /\ UNCHANGED <<runs, faults, store, doc>>

\* describe_item fails.  An error whose text holds "404" or "not found" is
\* taken for a missing item; here only a missing item causes such a text.
DescribeFails(p) ==
    /\ OnAkeyless(p) /\ job[p].authed
    /\ faults < MaxFaults /\ faults' = faults + 1
    /\ job' = Count(p, "errored")
    /\ UNCHANGED <<runs, store, doc, pc>>

(***************************************************************************)
(* create_secret.  The service stores a new item; of one that exists, it   *)
(* refuses the creation or replaces the value.                             *)
(***************************************************************************)
Store(p) == store' = [store EXCEPT ![Cur(p).item] = NewValue(p, Cur(p))]

Create(p) ==
    /\ pc[p] = "create"
    /\ \/ Store(p) /\ job' = Count(p, "wrote")
       \/ /\ store[Cur(p).item] # None
          /\ job' = Count(p, "errored")
          /\ UNCHANGED store
    /\ pc' = [pc EXCEPT ![p] = "loop"]
    /\ UNCHANGED <<runs, faults, doc>>

\* Mutant: a failed call counts as a write.
CreateFailsSilently(p) ==
    /\ pc[p] = "create"
    /\ faults < MaxFaults /\ faults' = faults + 1
    /\ job' = Count(p, "wrote")
    /\ Store(p) \/ UNCHANGED store
    /\ pc' = [pc EXCEPT ![p] = "loop"]
    /\ UNCHANGED <<runs, doc>>

\* The call fails, or its answer is lost after the value was stored.
CreateFails(p) ==
    /\ pc[p] = "create"
    /\ faults < MaxFaults /\ faults' = faults + 1
    /\ job' = Count(p, "errored")
    /\ Store(p) \/ UNCHANGED store
    /\ pc' = [pc EXCEPT ![p] = "loop"]
    /\ UNCHANGED <<runs, doc>>

(***************************************************************************)
(* The sops batches, in the arbitrary order of a HashMap.  sops decrypts   *)
(* the file, runs "cofre __sops-editor-hook" on the plaintext, and seals   *)
(* what the hook leaves.                                                   *)
(***************************************************************************)
OpenFile(p, f) ==
    /\ PastLoop(p) /\ f \in job[p].batches
    /\ job' = [job EXCEPT ![p].open = f, ![p].left = Batch(job[p].plan, f),
                          ![p].draft = doc[f], ![p].dirty = FALSE]
    /\ pc' = [pc EXCEPT ![p] = "hook"]
    /\ UNCHANGED <<runs, faults, store, doc>>

Closed(j) == [j EXCEPT !.batches = @ \ {j.open}, !.open = None, !.left = {},
                       !.draft = None]

\* Mutant: one per file instead of one per entry.
CloseCountsFiles(p, what) ==
    /\ job' = [job EXCEPT ![p] = Tally(Closed(job[p]), what, 1)]
    /\ pc' = [pc EXCEPT ![p] = "loop"]

\* Every entry of the file's batch is counted alike.
Close(p, what) ==
    /\ job' = [job EXCEPT ![p] =
                 Tally(Closed(job[p]), what,
                       Cardinality(Batch(job[p].plan, job[p].open)))]
    /\ pc' = [pc EXCEPT ![p] = "loop"]

\* The hook takes the batch's entries in the plan's order.
Visits(p, i) == /\ pc[p] = "hook"
                /\ i \in job[p].left /\ \A j \in job[p].left : i <= j

EntryAt(p, i) == Plan[job[p].plan][i]

Splices(p, e) == ~Present(job[p].draft, e.path) \/ Forced(p, e)

KeepEntry(p, i) ==
    /\ Visits(p, i) /\ ~Splices(p, EntryAt(p, i))
    /\ job' = [job EXCEPT ![p].left = @ \ {i}]
    /\ UNCHANGED <<runs, faults, store, doc, pc>>

\* Mutant: the hook starts again after a splice.
SpliceEntryAgain(p, i) == LET e == EntryAt(p, i) IN
    /\ Visits(p, i) /\ Splices(p, e) /\ e.gen = "ok"
    /\ job' = [job EXCEPT ![p].draft = YamlSet(@, e.path, NewValue(p, e)),
                          ![p].dirty = TRUE,
                          ![p].left = Batch(job[p].plan, job[p].open)]
    /\ UNCHANGED <<runs, faults, store, doc, pc>>

SpliceEntry(p, i) == LET e == EntryAt(p, i) IN
    /\ Visits(p, i) /\ Splices(p, e) /\ e.gen = "ok"
    /\ job' = [job EXCEPT ![p].draft = YamlSet(@, e.path, NewValue(p, e)),
                          ![p].dirty = TRUE, ![p].left = @ \ {i}]
    /\ UNCHANGED <<runs, faults, store, doc, pc>>

\* The hook exits with an error, sops leaves the file alone.
HookFails(p, i) == LET e == EntryAt(p, i) IN
    /\ Visits(p, i) /\ Splices(p, e) /\ e.gen # "ok"
    /\ Close(p, "errored")
    /\ UNCHANGED <<runs, faults, store, doc>>

\* Without a change sops exits 200, which is no error.
HookEnds(p) ==
    /\ pc[p] = "hook" /\ job[p].left = {}
    /\ IF job[p].dirty
       THEN pc' = [pc EXCEPT ![p] = "seal"] /\ UNCHANGED job
       ELSE Close(p, "skipped")
    /\ UNCHANGED <<runs, faults, store, doc>>

Seal(p) ==
    /\ pc[p] = "seal"
    /\ doc' = [doc EXCEPT ![job[p].open] = job[p].draft]
    /\ Close(p, "wrote")
    /\ UNCHANGED <<runs, faults, store>>

\* No sops binary, a file that does not decrypt or that has comments, an
\* editor or sops that fails before it has replaced the file.
FileFails(p) ==
    /\ pc[p] \in {"hook", "seal"}
    /\ faults < MaxFaults /\ faults' = faults + 1
    /\ Close(p, "errored")
    /\ UNCHANGED <<runs, store, doc>>

Finish(p) ==
    /\ PastLoop(p) /\ job[p].batches = {}
    /\ Exit(p, IF job[p].errored > 0 THEN 1 ELSE 0)
    /\ UNCHANGED <<runs, faults, store, doc>>

\* Killed, with the sops and the hook it may have started.
Crash(p) ==
    /\ pc[p] \in Running
    /\ faults < MaxFaults /\ faults' = faults + 1
    /\ pc' = [pc EXCEPT ![p] = "crashed"]
    /\ UNCHANGED <<runs, store, doc, job>>

Step(p) ==
    \/ SkipExternal(p) \/ QueueSops(p) \/ MockOne(p) \/ RefuseMock(p)
    \/ Login(p) \/ LoginFails(p) \/ Describe(p) \/ DescribeFails(p)
    \/ Create(p) \/ CreateFails(p)
    \/ \E f \in Files : OpenFile(p, f)
    \/ \E i \in job[p].left : KeepEntry(p, i) \/ SpliceEntry(p, i) \/ HookFails(p, i)
    \/ HookEnds(p)
    \/ Seal(p) \/ FileFails(p) \/ Finish(p)

Init ==
    /\ runs = 0 /\ faults = 0
    /\ store \in [Items -> {None, Operator}]
    /\ doc \in [Files -> Docs]
    /\ pc = [p \in Procs |-> "idle"]
    /\ job = [p \in Procs |-> NoJob]

Next ==
    \E p \in Procs :
      \/ Step(p) \/ Crash(p)
      \/ \E pl \in Plans, t \in Names \cup {None}, mock \in BOOLEAN :
           Apply(p, pl, t, mock)

Spec == Init /\ [][Next]_vars

\* A started apply keeps being executed.
FairSpec == Spec /\ \A p \in Procs : WF_vars(Step(p))
-----------------------------------------------------------------------------
Jobs   == [plan : Plans \cup {None}, target : Names \cup {None},
           mock : BOOLEAN, run : Runs \cup {0}, at : Nat, authed : BOOLEAN,
           batches : SUBSET Files, open : Files \cup {None}, left : SUBSET Nat,
           draft : Trees \cup {None}, dirty : BOOLEAN,
           wrote : Nat, skipped : Nat, errored : Nat, code : {None, 0, 1, 4, 5}]

\* Type invariant: stores, documents and what an applier remembers.
TypeOK ==
    /\ runs \in Nat /\ faults \in Nat
    /\ store \in [Items -> Values \cup {None}]
    /\ doc \in [Files -> Trees]
    /\ \A f \in Files : WellFormed(doc[f])
    /\ pc \in [Procs -> Running \cup {"idle", "done", "crashed"}]
    /\ job \in [Procs -> Jobs]
    /\ \A p \in Procs : pc[p] \in {"hook", "seal"} =>
         job[p].open \in job[p].batches /\ WellFormed(job[p].draft)

Holds(s) == IF s.kind = "akeyless" THEN store[s.item] # None
                                   ELSE Present(doc[s.file], s.path)

(***************************************************************************)
(* "apply skips existing secrets; --rotate <name> is the only path to      *)
(* overwrite, and RotationPolicy::Never rejects even that"                 *)
(* (docs/security-model.md): a value in the service or in a file changes   *)
(* only by an apply that was told to rotate the secret that lives there.   *)
(***************************************************************************)
Rotates(p, s) == /\ pc[p] \in Running
                 /\ s \in SecretsOf(job[p].plan) /\ ~s.never
                 /\ Forced(p, s)

Rotated == UNION {{s \in SecretsOf(pl) : \E p \in Procs : Rotates(p, s)} :
                  pl \in Plans}

KeptUnlessRotated ==
    [][/\ \A i \in Items :
            store[i] # None /\ store'[i] # store[i]
              => \E s \in Rotated : s.kind = "akeyless" /\ s.item = i
       /\ \A f \in Files, q \in Paths :
            IsLeaf(doc[f], q) /\ doc'[f][q] # doc[f][q]
              => \E s \in Rotated : /\ s.kind = "sops" /\ s.file = f
                                    /\ IsPrefix(s.path, q)]_vars

(***************************************************************************)
(* An apply that exits 0 leaves every secret cofre manages with a value in *)
(* its place, whatever earlier applies left half-done.                     *)
(***************************************************************************)
SuccessMeansPresent ==
    \A p \in Procs : pc[p] = "done" /\ job[p].code = 0 /\ ~job[p].mock
      => \A s \in Managed(job[p].plan) : Holds(s)

(***************************************************************************)
(* The counts an apply prints are of every secret of the plan, each once,  *)
(* although files are counted by batch and secrets one by one.             *)
(***************************************************************************)
Accounted ==
    \A p \in Procs : pc[p] = "done" /\ job[p].code \in {0, 1}
      => job[p].wrote + job[p].skipped + job[p].errored
           = Len(Plan[job[p].plan])

(***************************************************************************)
(* Nothing around a write moves: a node of a file changes only on the path *)
(* of a secret of a running plan, above it (a mapping is created) or below *)
(* it.                                                                     *)
(***************************************************************************)
OnlyPlannedPaths ==
    [][\A f \in Files, q \in Paths : doc'[f][q] # doc[f][q]
         => \E p \in Procs : /\ pc[p] \in Running
                             /\ \E s \in Managed(job[p].plan) :
                                  /\ s.kind = "sops" /\ s.file = f
                                  /\ IsPrefix(q, s.path) \/ IsPrefix(s.path, q)]_vars

\* "--mock: Mock backends only" (main.rs): such an apply changes nothing.
MockTouchesNothing ==
    [][\A p \in Procs : pc[p] \in Running /\ job[p].mock
         => UNCHANGED <<store, doc>>]_vars

\* An apply that starts ends, with an exit code or killed.
AppliesEnd == \A p \in Procs : pc[p] \in Running ~> pc[p] \notin Running
=============================================================================
