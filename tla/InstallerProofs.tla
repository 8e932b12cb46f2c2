--------------------------- MODULE InstallerProofs ---------------------------
(***************************************************************************)
(* Theorems about Installer, for every manifest, every number of sops      *)
(* files and every bound: typing, the inductive invariant of a run's       *)
(* memory, claim and generation, the refinement of Publication, and last   *)
(* what a run that ended well leaves behind and what is in the generations *)
(* that are not live.                                                      *)
(***************************************************************************)
EXTENDS Installer, NaturalSets, FiniteSetTheorems, TLAPS

-----------------------------------------------------------------------------
\* The run's own memory, where its program counter says what it holds.
MemoryOK(p) ==
    /\ pc[p] \in Placing => todo[p] \subseteq Entries(man[p])
    /\ pc[p] \in {"fill", "chown", "chmod"} => cur[p] \in todo[p]
    /\ pc[p] = "fill" /\ cur[p] \in Secrets
         => cache[p][Decl(man[p], cur[p]).file] # None
    /\ pc[p] = "fill" /\ cur[p] \notin Secrets
         => \A r \in Decl(man[p], cur[p]).refs : values[p][r] # None
    /\ pc[p] \in {"symlink", "rename"} => cur[p] \in LinkPaths

TypeInv == TypeOK /\ \A p \in Procs : MemoryOK(p)

LEMMA EntriesAreNames == \A m \in Manifests : Entries(m) \subseteq Names
  BY PlanAssumption DEF Entries, Names

LEMMA LinksArePaths == \A m \in Manifests : LinksOf(m) \subseteq LinkPaths
  BY EntriesAreNames DEF LinksOf, LinkPaths

LEMMA NextEntriesAreLeft == \A m, left : NextEntries(m, left) \subseteq left
  BY DEF NextEntries

LEMMA NextLinksAreLeft == \A left : NextLinks(left) \subseteq left
  BY DEF NextLinks

LEMMA FreshFile == [data |-> Empty, owner |-> Creator, mode |-> CreateMode] \in FileRec
  BY DEF FileRec, Contents, Owners, Modes

LEMMA DeclaredOwnerMode ==
  \A m \in Manifests : \A n \in Entries(m) :
    Decl(m, n).owner \in Owners /\ Decl(m, n).mode \in Modes
  BY DEF Owners, Modes

LEMMA NoneIsNoValue ==
  None \notin Times /\ None \notin Versions /\ None \notin Manifests
  BY InstallerAssumption, PlanAssumption

LEMMA InitType == Init => TypeInv
  <1> SUFFICES ASSUME Init PROVE TypeInv OBVIOUS
  <1>1. (CHOOSE v \in Versions : TRUE) \in Versions
    BY InstallerAssumption
  <1>2. 1 \in Times
    BY InstallerAssumption DEF Times
  <1>3. NoFiles \in [Names -> FileRec \cup {None}]
    BY DEF NoFiles
  <1>4. TypeOK
    BY <1>1, <1>2, <1>3, InstallerAssumption DEF Init, TypeOK, Ended, LinkPaths
  <1>5. \A p \in Procs : MemoryOK(p)
    BY DEF Init, MemoryOK, Placing
  <1> QED BY <1>4, <1>5 DEF TypeInv

LEMMA EndType ==
  ASSUME NEW p \in Procs, NEW how \in Ended \ {"idle"},
         TypeInv, pc[p] \in Running, End(p, how),
         UNCHANGED <<source, tree, links, finished>>,
         boots' \in Nat, faults' \in Nat, edits' \in Nat, blind' = blind
  PROVE  TypeInv'
  <1>1. TypeOK'
    BY DEF TypeInv, TypeOK, End, Goto, tree, links, Running, Ended, Placing,
           Linking, Reaping
  <1>2. ASSUME NEW q \in Procs PROVE MemoryOK(q)'
    <2>1. CASE q = p
      BY <2>1 DEF TypeInv, TypeOK, End, Goto, MemoryOK, Ended, Placing
    <2>2. CASE q # p
      BY <2>2 DEF TypeInv, TypeOK, End, Goto, MemoryOK
    <2> QED BY <2>1, <2>2
  <1> QED BY <1>1, <1>2 DEF TypeInv

LEMMA StartType ==
  ASSUME NEW p \in Procs, NEW m \in Manifests, NEW t \in Times, TypeInv,
         Start(p, m, t)
  PROVE  TypeInv'
  <1>1. TypeOK'
    BY NoneIsNoValue DEF TypeInv, TypeOK, Start, Goto, Ended, Running, tree,
       links, environment
  <1>2. ASSUME NEW q \in Procs PROVE MemoryOK(q)'
    <2>1. CASE q = p
      BY <2>1 DEF TypeInv, TypeOK, Start, Goto, MemoryOK, Placing
    <2>2. CASE q # p
      BY <2>2 DEF TypeInv, TypeOK, Start, Goto, MemoryOK
    <2> QED BY <2>1, <2>2
  <1> QED BY <1>1, <1>2 DEF TypeInv

LEMMA RunIsSet ==
  ASSUME NEW p \in Procs, TypeInv, pc[p] \in Running
  PROVE  man[p] \in Manifests /\ gen[p] \in Times
  BY DEF TypeInv, TypeOK, Running, Placing, Linking, Reaping

LEMMA EntryIsSet ==
  ASSUME NEW p \in Procs, TypeInv, pc[p] \in {"fill", "chown", "chmod"}
  PROVE  cur[p] \in Entries(man[p]) /\ cur[p] \in Names
  <1>1. pc[p] \in Running /\ pc[p] \in Placing
    BY DEF Running, Placing
  <1>2. man[p] \in Manifests
    BY <1>1, RunIsSet
  <1> QED BY <1>1, <1>2, EntriesAreNames DEF TypeInv, MemoryOK

LEMMA EnsureSecureStorageType ==
  ASSUME NEW p \in Procs, TypeInv, EnsureSecureStorage(p)
  PROVE  TypeInv'
  <1>1. TypeOK'
    BY DEF TypeInv, TypeOK, Goto, Ended, Running, tree, links,
       environment, memory, EnsureSecureStorage
  <1>2. ASSUME NEW q \in Procs PROVE MemoryOK(q)'
    <2>1. CASE q = p
      BY <2>1 DEF TypeInv, TypeOK, MemoryOK, Goto, EnsureSecureStorage,
         memory, Placing
    <2>2. CASE q # p
      BY <2>2 DEF TypeInv, TypeOK, MemoryOK, Goto, EnsureSecureStorage,
         memory, Placing
    <2> QED BY <2>1, <2>2
  <1> QED BY <1>1, <1>2 DEF TypeInv

LEMMA StoreUnseenType ==
  ASSUME NEW p \in Procs, TypeInv, StoreUnseen(p)
  PROVE  TypeInv'
  <1>1. blind' \in 0..MaxBlind
    BY InstallerAssumption DEF TypeInv, TypeOK, StoreUnseen
  <1>2. TypeOK'
    BY <1>1 DEF TypeInv, TypeOK, Goto, Ended, Running, tree, links, memory,
                StoreUnseen
  <1>3. ASSUME NEW q \in Procs PROVE MemoryOK(q)'
    <2>1. CASE q = p
      BY <2>1 DEF TypeInv, TypeOK, MemoryOK, Goto, StoreUnseen, memory, Placing
    <2>2. CASE q # p
      BY <2>2 DEF TypeInv, TypeOK, MemoryOK, Goto, StoreUnseen, memory, Placing
    <2> QED BY <2>1, <2>2
  <1> QED BY <1>2, <1>3 DEF TypeInv

LEMMA MountSecureType ==
  ASSUME NEW p \in Procs, TypeInv, MountSecure(p)
  PROVE  TypeInv'
  <1>1. TypeOK'
    BY DEF TypeInv, TypeOK, Goto, Ended, Running, tree, links,
       environment, memory, MountSecure, NoFiles
  <1>2. ASSUME NEW q \in Procs PROVE MemoryOK(q)'
    <2>1. CASE q = p
      BY <2>1 DEF TypeInv, TypeOK, MemoryOK, Goto, MountSecure, memory, Placing
    <2>2. CASE q # p
      BY <2>2 DEF TypeInv, TypeOK, MemoryOK, Goto, MountSecure, memory, Placing
    <2> QED BY <2>1, <2>2
  <1> QED BY <1>1, <1>2 DEF TypeInv

LEMMA AfterEntryType ==
  ASSUME NEW p \in Procs, NEW left, TypeInv, pc[p] \in Running,
         left \subseteq Entries(man[p]), AfterEntry(p, left), UNCHANGED man
  PROVE  /\ pc' \in [Procs -> Running \cup Ended]
         /\ \A q \in Procs : pc'[q] # "idle" => man'[q] # None /\ gen[q] # None
         /\ todo' \in [Procs -> SUBSET LinkPaths]
         /\ finished' \subseteq Times
         /\ MemoryOK(p)'
         /\ \A q \in Procs \ {p} : pc'[q] = pc[q] /\ todo'[q] = todo[q]
  <1>1. man[p] \in Manifests /\ gen[p] \in Times
    BY RunIsSet
  <1>2. left \subseteq LinkPaths /\ LinksOf(man[p]) \subseteq LinkPaths
    BY <1>1, EntriesAreNames, LinksArePaths DEF LinkPaths
  <1>3. "place" \in Running /\ "link" \in Running /\ pc[p] # "idle"
    BY DEF Running, Placing, Linking, Reaping
  <1>4. pc' \in [Procs -> Running \cup Ended]
    BY <1>3 DEF TypeInv, TypeOK, AfterEntry, Goto
  <1>5. todo' \in [Procs -> SUBSET LinkPaths]
    BY <1>2 DEF TypeInv, TypeOK, AfterEntry
  <1>6. finished' \subseteq Times
    BY <1>1 DEF TypeInv, TypeOK, AfterEntry
  <1>7. \A q \in Procs : pc'[q] # "idle" => man'[q] # None /\ gen[q] # None
    BY <1>3 DEF TypeInv, TypeOK, AfterEntry, Goto
  <1>8. MemoryOK(p)'
    BY DEF TypeInv, TypeOK, MemoryOK, AfterEntry, Goto, Placing
  <1>9. \A q \in Procs \ {p} : pc'[q] = pc[q] /\ todo'[q] = todo[q]
    BY DEF TypeInv, TypeOK, AfterEntry, Goto
  <1> QED BY <1>4, <1>5, <1>6, <1>7, <1>8, <1>9

LEMMA MakeGenerationType ==
  ASSUME NEW p \in Procs, TypeInv, MakeGeneration(p)
  PROVE  TypeInv'
  <1>1. pc[p] \in Running /\ AfterEntry(p, Entries(man[p])) /\ UNCHANGED man
    BY DEF MakeGeneration, Running
  <1>2. TypeOK'
    BY <1>1, AfterEntryType, RunIsSet DEF TypeInv, TypeOK, MakeGeneration,
       environment, links
  <1>3. ASSUME NEW q \in Procs PROVE MemoryOK(q)'
    <2>1. CASE q = p
      BY <2>1, <1>1, AfterEntryType
    <2>2. CASE q # p
      BY <2>2, <1>1, AfterEntryType DEF TypeInv, MemoryOK, MakeGeneration
    <2> QED BY <2>1, <2>2
  <1> QED BY <1>2, <1>3 DEF TypeInv

LEMMA SymlinkType ==
  ASSUME NEW p \in Procs, TypeInv, Symlink(p)
  PROVE  TypeInv'
  <1>1. TypeOK'
    BY DEF TypeInv, TypeOK, Goto, Ended, Running, tree, links,
       environment, memory, MemoryOK, Symlink, Target, Linking
  <1>2. ASSUME NEW q \in Procs PROVE MemoryOK(q)'
    <2>1. CASE q = p
      BY <2>1 DEF TypeInv, TypeOK, MemoryOK, Goto, Symlink, memory, Placing
    <2>2. CASE q # p
      BY <2>2 DEF TypeInv, TypeOK, MemoryOK, Goto, Symlink, memory, Placing
    <2> QED BY <2>1, <2>2
  <1> QED BY <1>1, <1>2 DEF TypeInv

LEMMA RenameType ==
  ASSUME NEW p \in Procs, TypeInv, Rename(p)
  PROVE  TypeInv'
  <1>1. TypeOK'
    BY DEF TypeInv, TypeOK, Goto, Ended, Running, tree, links,
       environment, memory, MemoryOK, Rename, Linking, Reaping
  <1>2. ASSUME NEW q \in Procs PROVE MemoryOK(q)'
    <2>1. CASE q = p
      BY <2>1 DEF TypeInv, TypeOK, MemoryOK, Goto, Rename, Placing
    <2>2. CASE q # p
      BY <2>2 DEF TypeInv, TypeOK, MemoryOK, Goto, Rename, Placing
    <2> QED BY <2>1, <2>2
  <1> QED BY <1>1, <1>2 DEF TypeInv

LEMMA ListGenerationsType ==
  ASSUME NEW p \in Procs, TypeInv, ListGenerations(p)
  PROVE  TypeInv'
  <1>1. TypeOK'
    BY DEF TypeInv, TypeOK, Goto, Ended, Running, tree, links,
       environment, memory, ListGenerations, Doomed, Reaping
  <1>2. ASSUME NEW q \in Procs PROVE MemoryOK(q)'
    <2>1. CASE q = p
      BY <2>1 DEF TypeInv, TypeOK, MemoryOK, Goto, ListGenerations, Placing
    <2>2. CASE q # p
      BY <2>2 DEF TypeInv, TypeOK, MemoryOK, Goto, ListGenerations, Placing
    <2> QED BY <2>1, <2>2
  <1> QED BY <1>1, <1>2 DEF TypeInv

LEMMA RemoveTmpType ==
  ASSUME NEW p \in Procs, NEW l \in LinkPaths, TypeInv, RemoveTmp(p, l)
  PROVE  TypeInv'
  <1>1. TypeOK'
    BY DEF TypeInv, TypeOK, Goto, Ended, Running, tree, links,
       environment, memory, RemoveTmp, Linking
  <1>2. ASSUME NEW q \in Procs PROVE MemoryOK(q)'
    <2>1. CASE q = p
      BY <2>1 DEF TypeInv, TypeOK, MemoryOK, Goto, RemoveTmp, Placing
    <2>2. CASE q # p
      BY <2>2 DEF TypeInv, TypeOK, MemoryOK, Goto, RemoveTmp, Placing
    <2> QED BY <2>1, <2>2
  <1> QED BY <1>1, <1>2 DEF TypeInv

LEMMA RemoveReapedType ==
  ASSUME NEW p \in Procs, NEW g \in Times, TypeInv, RemoveReaped(p, g)
  PROVE  TypeInv'
  <1>1. TypeOK'
    BY DEF TypeInv, TypeOK, Goto, Ended, Running, tree, links,
       environment, memory, RemoveReaped, NoFiles
  <1>2. ASSUME NEW q \in Procs PROVE MemoryOK(q)'
    <2>1. CASE q = p
      BY <2>1 DEF TypeInv, TypeOK, MemoryOK, Goto, RemoveReaped, Placing
    <2>2. CASE q # p
      BY <2>2 DEF TypeInv, TypeOK, MemoryOK, Goto, RemoveReaped, Placing
    <2> QED BY <2>1, <2>2
  <1> QED BY <1>1, <1>2 DEF TypeInv

\* Changing one attribute of a file that exists keeps the tree well formed.
LEMMA FileUpdateType ==
  ASSUME NEW g \in Times, NEW n \in Names, NEW d \in FileRec \cup {None}, TypeOK
  PROVE  [file EXCEPT ![g][n] = d] \in [Times -> [Names -> FileRec \cup {None}]]
  BY DEF TypeOK

LEMMA ChownType ==
  ASSUME NEW p \in Procs, TypeInv, Chown(p)
  PROVE  TypeInv'
  <1> DEFINE n == cur[p]
             d == [file[gen[p]][n] EXCEPT !.owner = Decl(man[p], n).owner]
  <1>1. pc[p] \in Running /\ pc[p] \in {"fill", "chown", "chmod"}
    BY DEF Chown, Running, Placing
  <1>2. /\ man[p] \in Manifests /\ gen[p] \in Times
        /\ n \in Entries(man[p]) /\ n \in Names
    BY <1>1, RunIsSet, EntryIsSet
  <1>3. file[gen[p]][n] \in FileRec
    BY <1>2 DEF TypeInv, TypeOK, Chown
  <1>4. d \in FileRec
    BY <1>2, <1>3, DeclaredOwnerMode DEF FileRec
  <1>5. file' = [file EXCEPT ![gen[p]][n] = d]
    BY DEF Chown
  <1>6. file' \in [Times -> [Names -> FileRec \cup {None}]]
    BY <1>2, <1>4, <1>5, FileUpdateType DEF TypeInv
  <1>7. TypeOK'
    BY <1>6 DEF TypeInv, TypeOK, Goto, Chown, Running, Placing, environment,
       links, memory
  <1>8. ASSUME NEW q \in Procs PROVE MemoryOK(q)'
    BY DEF TypeInv, TypeOK, MemoryOK, Goto, Chown, memory, Placing
  <1> QED BY <1>7, <1>8 DEF TypeInv

LEMMA ChmodType ==
  ASSUME NEW p \in Procs, TypeInv, Chmod(p)
  PROVE  TypeInv'
  <1> DEFINE n == cur[p]
             d == [file[gen[p]][n] EXCEPT !.mode = Decl(man[p], n).mode]
  <1>1. pc[p] \in Running /\ pc[p] \in {"fill", "chown", "chmod"}
        /\ pc[p] \in Placing
    BY DEF Chmod, Running, Placing
  <1>2. /\ man[p] \in Manifests /\ gen[p] \in Times
        /\ n \in Entries(man[p]) /\ n \in Names
    BY <1>1, RunIsSet, EntryIsSet
  <1>3. file[gen[p]][n] \in FileRec
    BY <1>2 DEF TypeInv, TypeOK, Chmod
  <1>4. d \in FileRec
    BY <1>2, <1>3, DeclaredOwnerMode DEF FileRec
  <1>5. file' = [file EXCEPT ![gen[p]][n] = d]
    BY DEF Chmod
  <1>6. file' \in [Times -> [Names -> FileRec \cup {None}]]
    BY <1>2, <1>4, <1>5, FileUpdateType DEF TypeInv
  <1>7. todo[p] \ {n} \subseteq Entries(man[p])
    BY <1>1 DEF TypeInv, MemoryOK
  <1>8. AfterEntry(p, todo[p] \ {n}) /\ UNCHANGED man
    BY DEF Chmod
  <1>9. TypeOK'
    BY <1>1, <1>6, <1>7, <1>8, AfterEntryType DEF TypeInv, TypeOK, Chmod,
       environment, links
  <1>10. ASSUME NEW q \in Procs PROVE MemoryOK(q)'
    <2>1. CASE q = p
      BY <2>1, <1>1, <1>7, <1>8, AfterEntryType
    <2>2. CASE q # p
      BY <2>2, <1>1, <1>7, <1>8, AfterEntryType
         DEF TypeInv, TypeOK, MemoryOK, Chmod
    <2> QED BY <2>1, <2>2
  <1> QED BY <1>9, <1>10 DEF TypeInv

LEMMA SecretsOfManifest ==
  ASSUME NEW m \in Manifests, NEW n \in Entries(m)
  PROVE  /\ n \in Secrets => n \in SecretsOf(m) /\ Decl(m, n).file \in Files
                             /\ Decl(m, n).key \in Keys
         /\ n \notin Secrets => n \in TemplatesOf(m)
                                /\ Decl(m, n).refs \subseteq Secrets
  BY PlanAssumption DEF Entries

\* What a run holds of an entry it has obtained is content.
LEMMA ObtainedType ==
  ASSUME NEW p \in Procs, TypeInv, pc[p] = "fill"
  PROVE  /\ Obtained(p, cur[p]) \in Contents
         /\ cur[p] \in Secrets => /\ Obtained(p, cur[p]) \in Plaintexts
                                  /\ Decl(man[p], cur[p]).key \in Keys
  <1> DEFINE n == cur[p]
             m == man[p]
  <1>1. m \in Manifests /\ n \in Entries(m)
    BY RunIsSet, EntryIsSet DEF Running, Placing
  <1>2. CASE n \in Secrets
    <2>1. Decl(m, n).file \in Files /\ Decl(m, n).key \in Keys
      BY <1>1, <1>2, SecretsOfManifest
    <2>2. cache[p][Decl(m, n).file] \in Versions
      BY <1>2, <2>1 DEF TypeInv, TypeOK, MemoryOK
    <2> QED BY <1>2, <2>1, <2>2 DEF Obtained, Plain, Plaintexts, Contents
  <1>3. CASE n \notin Secrets
    <2> DEFINE R == Decl(m, n).refs
    <2>1. R \subseteq Secrets
      BY <1>1, <1>3, SecretsOfManifest
    <2>2. \A r \in R : values[p][r] \in Plaintexts
      BY <1>3, <2>1, PlanAssumption DEF TypeInv, TypeOK, MemoryOK
    <2>3. [r \in R |-> values[p][r]] \in [R -> Plaintexts]
      BY <2>2
    <2> QED BY <1>3, <2>1, <2>3 DEF Obtained, Contents, Bodies
  <1> QED BY <1>2, <1>3

LEMMA FillEntryType ==
  ASSUME NEW p \in Procs, TypeInv, FillEntry(p)
  PROVE  TypeInv'
  <1> DEFINE n == cur[p]
             g == gen[p]
             d == [file[g][n] EXCEPT !.data = Obtained(p, n)]
  <1>1. pc[p] = "fill" /\ pc[p] \in Running
    BY DEF FillEntry, Running, Placing
  <1>2. man[p] \in Manifests /\ g \in Times /\ n \in Names
    BY <1>1, RunIsSet, EntryIsSet
  <1>3. file' \in [Times -> [Names -> FileRec \cup {None}]]
    <2>1. CASE file[g][n] = None
      BY <2>1 DEF TypeInv, TypeOK, FillEntry
    <2>2. CASE file[g][n] # None
      <3>1. file[g][n] \in FileRec
        BY <1>2, <2>2 DEF TypeInv, TypeOK
      <3>2. d \in FileRec
        BY <1>1, <3>1, ObtainedType DEF FileRec
      <3>3. file' = [file EXCEPT ![g][n] = d]
        BY <2>2 DEF FillEntry
      <3> QED BY <1>2, <3>2, <3>3, FileUpdateType DEF TypeInv
    <2> QED BY <2>1, <2>2
  <1>4. values' \in [Procs -> [Keys -> Plaintexts \cup {None}]]
    BY <1>1, ObtainedType DEF TypeInv, TypeOK, FillEntry
  <1>5. TypeOK'
    BY <1>3, <1>4 DEF TypeInv, TypeOK, Goto, FillEntry, AfterWrite, Running,
       Placing, environment, links
  <1>6. ASSUME NEW q \in Procs PROVE MemoryOK(q)'
    <2>1. CASE q = p
      BY <2>1 DEF TypeInv, TypeOK, MemoryOK, Goto, FillEntry,
         AfterWrite, Placing
    <2>2. CASE q # p
      BY <2>2 DEF TypeInv, TypeOK, MemoryOK, Goto, FillEntry
    <2> QED BY <2>1, <2>2
  <1> QED BY <1>5, <1>6 DEF TypeInv

LEMMA OpenEntryType ==
  ASSUME NEW p \in Procs, NEW n \in Names, TypeInv, OpenEntry(p, n)
  PROVE  TypeInv'
  <1> DEFINE g == gen[p]
             f == Decl(man[p], n).file
             d == IF file[g][n] = None
                  THEN [data |-> Empty, owner |-> Creator, mode |-> CreateMode]
                  ELSE [file[g][n] EXCEPT !.data = Empty]
  <1>1. pc[p] = "place" /\ pc[p] \in Running /\ pc[p] \in Placing
    BY DEF OpenEntry, Running, Placing
  <1>2. man[p] \in Manifests /\ g \in Times /\ n \in todo[p]
        /\ n \in Entries(man[p])
    BY <1>1, RunIsSet, NextEntriesAreLeft DEF OpenEntry, TypeInv, MemoryOK
  <1>3. d \in FileRec
    <2>1. file[g][n] \in FileRec \cup {None}
      BY <1>2 DEF TypeInv, TypeOK
    <2> QED BY <2>1, FreshFile DEF FileRec, Contents
  <1>4. file' = [file EXCEPT ![g][n] = d]
    BY DEF OpenEntry
  <1>5. file' \in [Times -> [Names -> FileRec \cup {None}]]
    BY <1>2, <1>3, <1>4, FileUpdateType DEF TypeInv
  <1>6. cache' \in [Procs -> [Files -> Versions \cup {None}]]
        /\ (n \in Secrets => cache'[p][f] # None)
        /\ \A q \in Procs \ {p} : cache'[q] = cache[q]
    <2>1. CASE n \in Secrets
      <3>1. f \in Files /\ VersionRead(p, f) \in Versions
        BY <1>2, <2>1, SecretsOfManifest
           DEF TypeInv, TypeOK, OpenEntry, Obtains, Decrypts, VersionRead
      <3>2. cache' = [cache EXCEPT ![p][f] = VersionRead(p, f)]
        BY <2>1 DEF OpenEntry
      <3> QED BY <3>1, <3>2, NoneIsNoValue DEF TypeInv, TypeOK
    <2>2. CASE n \notin Secrets
      BY <2>2 DEF TypeInv, TypeOK, OpenEntry
    <2> QED BY <2>1, <2>2
  <1>7. TypeOK'
    BY <1>2, <1>5, <1>6 DEF TypeInv, TypeOK, Goto, OpenEntry, Running, Placing,
       environment, links, LinkPaths
  <1>8. ASSUME NEW q \in Procs PROVE MemoryOK(q)'
    <2>1. CASE q = p
      <3>1. n \notin Secrets => \A r \in Decl(man[p], n).refs : values[p][r] # None
        BY DEF OpenEntry, Obtains, Renders
      <3> QED BY <1>1, <1>2, <1>6, <2>1, <3>1
                 DEF TypeInv, TypeOK, MemoryOK, Goto, OpenEntry, Placing
    <2>2. CASE q # p
      BY <1>6, <2>2 DEF TypeInv, TypeOK, MemoryOK, Goto, OpenEntry
    <2> QED BY <2>1, <2>2
  <1> QED BY <1>7, <1>8 DEF TypeInv

\* The actions that end a run.
LEMMA EndingsType ==
  ASSUME NEW p \in Procs, TypeInv,
         \/ \E n \in Names : CannotObtain(p, n)
         \/ EntryVanished(p) \/ SwapCollides(p) \/ ReapEnds(p) \/ Fault(p)
  PROVE  TypeInv'
  <1> USE DEF Running, Placing, Linking, Reaping
  <1>1. boots \in Nat /\ faults \in Nat /\ edits \in Nat
    BY DEF TypeInv, TypeOK
  <1>2. {"published", "unreaped", "failed", "blocked"} \subseteq Ended \ {"idle"}
    BY DEF Ended
  <1>3. CASE \E n \in Names : CannotObtain(p, n)
    BY <1>1, <1>2, <1>3, EndType DEF CannotObtain, environment
  <1>4. CASE EntryVanished(p)
    BY <1>1, <1>2, <1>4, EndType DEF EntryVanished, environment
  <1>5. CASE SwapCollides(p)
    BY <1>1, <1>2, <1>5, EndType DEF SwapCollides, environment
  <1>6. CASE ReapEnds(p)
    BY <1>1, <1>2, <1>6, EndType DEF ReapEnds, environment
  <1>7. CASE Fault(p)
    <2>1. End(p, "failed") \/ End(p, "unreaped")
      BY <1>7 DEF Fault
    <2> QED BY <1>1, <1>2, <1>7, <2>1, EndType DEF Fault
  <1> QED BY <1>3, <1>4, <1>5, <1>6, <1>7

LEMMA StepType ==
  ASSUME NEW p \in Procs, TypeInv, Step(p)
  PROVE  TypeInv'
  BY EnsureSecureStorageType, StoreUnseenType, MountSecureType, MakeGenerationType,
     OpenEntryType,
     FillEntryType, ChownType, ChmodType, RemoveTmpType, SymlinkType, RenameType,
     ListGenerationsType, RemoveReapedType, EndingsType DEF Step

LEMMA EnvironmentType ==
  ASSUME TypeInv,
         \/ Reboot
         \/ \E f \in Files, v \in Versions \cup {Damaged} : EditSource(f, v)
  PROVE  TypeInv'
  <1>1. CASE \E f \in Files, v \in Versions \cup {Damaged} : EditSource(f, v)
    <2>1. TypeOK'
      BY <1>1 DEF TypeInv, TypeOK, EditSource, tree, links, memory
    <2>2. \A p \in Procs : MemoryOK(p)'
      BY <1>1 DEF TypeInv, MemoryOK, EditSource, memory
    <2> QED BY <2>1, <2>2 DEF TypeInv
  <1>2. CASE Reboot
    <2>1. TypeOK'
      BY <1>2, InstallerAssumption
         DEF TypeInv, TypeOK, Reboot, Ended, NoFiles, LinkPaths
    <2>2. \A p \in Procs : MemoryOK(p)'
      BY <1>2 DEF MemoryOK, Reboot, Placing
    <2> QED BY <2>1, <2>2 DEF TypeInv
  <1> QED BY <1>1, <1>2

LEMMA NextType == TypeInv /\ [Next]_vars => TypeInv'
  <1> SUFFICES ASSUME TypeInv, [Next]_vars PROVE TypeInv' OBVIOUS
  <1>1. CASE Next
    BY <1>1, StepType, EndingsType, StartType, EnvironmentType DEF Next
  <1>2. CASE UNCHANGED vars
    <2>1. TypeOK'
      BY <1>2 DEF TypeInv, TypeOK, vars, environment, tree, links, memory
    <2>2. \A p \in Procs : MemoryOK(p)'
      BY <1>2 DEF TypeInv, MemoryOK, vars, memory
    <2> QED BY <2>1, <2>2 DEF TypeInv
  <1> QED BY <1>1, <1>2

(***************************************************************************)
(* The type invariant, with what each program counter says of the run's    *)
(* memory: a run never writes an entry it did not decrypt or could not     *)
(* render.  For any number of installers, overlapping or not.              *)
(***************************************************************************)
THEOREM TypeCorrect == Spec => [](TypeOK /\ \A p \in Procs : MemoryOK(p))
  <1>1. Spec => []TypeInv
    BY InitType, NextType, PTL DEF Spec
  <1> QED BY <1>1, PTL DEF TypeInv

-----------------------------------------------------------------------------
(***************************************************************************)
(* The environment the safety theorems assume: runs do not overlap, none   *)
(* meets the second of a generation, and a secret's name is its key.       *)
(* Those about what a reader sees assume that the mount table is readable. *)
(***************************************************************************)
SingleRun       == \A p, q \in Procs : p = q
DistinctSeconds == ~SameSecond
NamesAreKeys    == \A m \in Manifests : \A s \in SecretsOf(m) : Decl(m, s).key = s
Serial          == SingleRun /\ DistinctSeconds /\ NamesAreKeys
TableReadable   == MaxBlind = 0

\* Everything entry n is made of is in cache c.
Cached(m, c, n) ==
    IF n \in Secrets
    THEN c[Decl(m, n).file] # None
    ELSE \A r \in Decl(m, n).refs : r \in SecretsOf(m) /\ c[Decl(m, r).file] # None

\* Entry n of generation g is as declared, from what cache c holds.
Placed(g, m, c, n) == Cached(m, c, n) /\ file[g][n] = Declared(m, c, n)

\* A file with content d and owner o that has not been widened yet.
Narrow(d, o) == [data |-> d, owner |-> o, mode |-> CreateMode]
Bare(d)      == Narrow(d, Creator)

(***************************************************************************)
(* The inductive invariant.  A generation no directory holds is empty;     *)
(* without a secure store there is no generation; what is live is whole,   *)
(* or it is hidden under a store that a run mounted over its own.          *)
(***************************************************************************)
Absence == \A g \in Times \ dirs : file[g] = NoFiles
Storage == /\ mounts <= 1 + blind
           /\ mounts = 0 /\ ~UserMode => dirs = {} /\ Live = None
Visible == Live # None => LiveWhole \/ (Live \notin dirs /\ blind > 0)

\* A run's memory is empty before and after it ...
Forgetful(p) ==
    pc[p] \in Ended \cup {"ensure", "mount", "mkgen"}
      => cache[p] = [f \in Files |-> None] /\ values[p] = [k \in Keys |-> None]

\* ... and holds only plaintext of its own manifest and cache meanwhile.
Truthful(p) ==
    \A k \in Keys : values[p][k] # None =>
      /\ k \in SecretsOf(man[p])
      /\ cache[p][Decl(man[p], k).file] # None
      /\ values[p][k] = Plain(man[p], cache[p], k)

Starting(p) ==
    /\ pc[p] \in {"ensure", "mount", "mkgen"} => gen[p] \notin dirs \cup {Live}
    /\ pc[p] = "mount" => mounts <= blind /\ ~UserMode
    /\ pc[p] \in {"mkgen"} \cup Placing \cup Linking \cup Reaping
         => UserMode \/ mounts > 0

\* The generation being built, entry by entry; nothing points at it.
Building(p) == LET g == gen[p] n == cur[p] m == man[p] c == cache[p] IN
    /\ pc[p] \in Placing \cup Linking =>
         /\ g \in dirs /\ g # Live
         /\ \A x \in Names \ Entries(m) : file[g][x] = None
    /\ pc[p] \in Placing => \A x \in Entries(m) \ todo[p] : Placed(g, m, c, x)
    /\ pc[p] = "place" => \A x \in todo[p] : file[g][x] = None
    /\ pc[p] \in {"fill", "chown", "chmod"} =>
         \A x \in todo[p] \ {n} : file[g][x] = None
    /\ pc[p] = "fill" => file[g][n] = Bare(Empty)
    /\ pc[p] \in {"chown", "chmod"} => Cached(m, c, n)
    /\ pc[p] = "chown" => ~UserMode /\ file[g][n] = Bare(Body(m, c, n))
    /\ pc[p] = "chmod" =>
         file[g][n] = Narrow(Body(m, c, n), OwnerOf(m, n))
    /\ pc[p] \in Linking => \A x \in Entries(m) : Placed(g, m, c, x)

Swapping(p) ==
    /\ pc[p] = "symlink" => tmp[cur[p]] = None
    /\ pc[p] = "rename" => tmp[cur[p]] = Target(p, cur[p])

\* From the swap on the run's generation is live; reaping never lists it.
Reaped(p) ==
    /\ pc[p] \in Reaping \cup {"published", "unreaped"} => Live = gen[p] /\ Live \in dirs
    /\ pc[p] = "sweep" => doomed[p] \subseteq dirs \ {gen[p]}

RunOK(p) == /\ Forgetful(p) /\ Truthful(p) /\ Starting(p) /\ Building(p)
            /\ Swapping(p) /\ Reaped(p) /\ pc[p] # "blocked"

Safe == /\ TypeInv /\ Absence /\ Storage /\ Visible
        /\ \A p \in Procs : RunOK(p)

-----------------------------------------------------------------------------
LEMMA InitSafe == Init => Safe
  <1> SUFFICES ASSUME Init PROVE Safe OBVIOUS
  <1>1. TypeInv
    BY InitType
  <1>2. Absence /\ Storage /\ Visible
    BY DEF Init, Absence, Storage, Visible, Live, LinkPaths
  <1>3. ASSUME NEW p \in Procs PROVE RunOK(p)
    BY DEF Init, RunOK, Forgetful, Truthful, Starting, Building, Swapping,
           Reaped, Placing, Linking, Reaping
  <1> QED BY <1>1, <1>2, <1>3 DEF Safe

LEMMA BlindIsNat == Safe => blind \in Nat
  BY DEF Safe, TypeInv, TypeOK

\* A run is alone: the invariant is preserved when it is for that run.
LEMMA AloneIsAll ==
  ASSUME SingleRun, NEW p \in Procs, TypeInv', Absence', Storage',
         Visible', RunOK(p)'
  PROVE  Safe'
  <1>1. \A q \in Procs : q = p
    BY DEF SingleRun
  <1> QED BY <1>1 DEF Safe

\* What others see is as it was when neither the tree nor the links change.
LEMMA SharedKept ==
  ASSUME Safe, UNCHANGED <<mounts, dirs, file, blind>>, Live' = Live
  PROVE  Absence' /\ Storage' /\ Visible'
  BY DEF Safe, Absence, Storage, Visible, LiveWhole, Complete

LEMMA EndSafe ==
  ASSUME Serial, NEW p \in Procs, Safe, NEW how \in {"published", "unreaped", "failed"},
         End(p, how), TypeInv', UNCHANGED <<tree, links, blind>>,
         how # "failed" => pc[p] \in Reaping
  PROVE  Safe'
  <1>1. Absence' /\ Storage' /\ Visible'
    BY SharedKept DEF environment, tree, links, Live
  <1>2. pc'[p] = how
    BY DEF Safe, TypeInv, TypeOK, End, Goto
  <1>3. Forgetful(p)' /\ Truthful(p)'
    BY DEF Safe, TypeInv, TypeOK, End, Forgetful, Truthful
  <1>4. Starting(p)' /\ Building(p)' /\ Swapping(p)'
    BY <1>2 DEF Starting, Building, Swapping, Placing, Linking, Reaping
  <1>5. Reaped(p)'
    BY <1>2 DEF Safe, RunOK, Reaped, End, tree, links, Live, Reaping
  <1> QED BY <1>1, <1>2, <1>3, <1>4, <1>5, AloneIsAll DEF Serial, RunOK

LEMMA StartSafe ==
  ASSUME Serial, NEW p \in Procs, NEW m \in Manifests, NEW t \in Times, Safe,
         Start(p, m, t)
  PROVE  Safe'
  <1>1. TypeInv'
    BY StartType DEF Safe
  <1>2. Absence' /\ Storage' /\ Visible'
    BY SharedKept DEF environment, Start, tree, links, Live
  <1>3. pc'[p] \in {"ensure", "failed"} /\ gen'[p] = t /\ t \notin dirs \cup {Live}
    BY DEF Safe, TypeInv, TypeOK, Start, Goto, Serial, DistinctSeconds, Fresh
  <1>4. Forgetful(p)' /\ Truthful(p)'
    BY DEF Safe, RunOK, Start, Forgetful, Truthful
  <1>5. Starting(p)' /\ Building(p)' /\ Swapping(p)' /\ Reaped(p)'
    BY <1>3 DEF Start, tree, links, Live, Starting, Building, Swapping, Reaped, Placing,
                Linking, Reaping
  <1> QED BY <1>1, <1>2, <1>3, <1>4, <1>5, AloneIsAll DEF Serial, RunOK

LEMMA EnsureSecureStorageSafe ==
  ASSUME Serial, NEW p \in Procs, Safe, EnsureSecureStorage(p)
  PROVE  Safe'
  <1>1. TypeInv'
    BY EnsureSecureStorageType DEF Safe
  <1>2. Absence' /\ Storage' /\ Visible'
    BY SharedKept DEF environment, EnsureSecureStorage, tree, links, Live
  <1>3. /\ pc[p] = "ensure" /\ pc'[p] \in {"mkgen", "mount"}
        /\ pc'[p] = "mount" => mounts <= blind /\ ~UserMode
        /\ pc'[p] = "mkgen" => UserMode \/ mounts > 0
    BY DEF Safe, TypeInv, TypeOK, Storage, EnsureSecureStorage,
       AlreadySecure, Goto
  <1>4. Forgetful(p)' /\ Truthful(p)'
    BY <1>3 DEF Safe, RunOK, EnsureSecureStorage, memory, Forgetful, Truthful
  <1>5. Starting(p)' /\ Building(p)' /\ Swapping(p)' /\ Reaped(p)'
    BY <1>3 DEF Safe, RunOK, EnsureSecureStorage, memory, environment, tree,
                links, Live, Starting, Building, Swapping, Reaped, Placing, Linking, Reaping
  <1> QED BY <1>1, <1>2, <1>3, <1>4, <1>5, AloneIsAll DEF Serial, RunOK

LEMMA StoreUnseenSafe ==
  ASSUME Serial, NEW p \in Procs, Safe, StoreUnseen(p)
  PROVE  Safe'
  <1>1. TypeInv'
    BY StoreUnseenType DEF Safe
  <1>2. blind \in Nat /\ mounts \in Nat /\ blind' = blind + 1
    BY DEF Safe, TypeInv, TypeOK, StoreUnseen
  <1>3. Absence' /\ Storage' /\ Visible'
    BY <1>2 DEF Safe, StoreUnseen, tree, links, Live, Absence, Storage, Visible,
                LiveWhole, Complete
  <1>4. /\ pc[p] = "ensure" /\ pc'[p] = "mount"
        /\ mounts' <= blind' /\ ~UserMode
    BY <1>2 DEF Safe, TypeInv, TypeOK, Storage, StoreUnseen, tree, Goto
  <1>5. Forgetful(p)' /\ Truthful(p)'
    BY <1>4 DEF Safe, RunOK, StoreUnseen, memory, Forgetful, Truthful
  <1>6. Starting(p)' /\ Building(p)' /\ Swapping(p)' /\ Reaped(p)'
    BY <1>4 DEF Safe, RunOK, StoreUnseen, memory, tree, links, Live, Starting,
                Building, Swapping, Reaped, Placing, Linking, Reaping
  <1> QED BY <1>1, <1>3, <1>4, <1>5, <1>6, AloneIsAll DEF Serial, RunOK

LEMMA MountSecureSafe ==
  ASSUME Serial, NEW p \in Procs, Safe, MountSecure(p)
  PROVE  Safe'
  <1>1. TypeInv'
    BY MountSecureType DEF Safe
  <1>2. /\ mounts \in Nat /\ blind \in Nat /\ mounts <= blind
        /\ mounts' = mounts + 1 /\ blind' = blind
        /\ ~UserMode /\ pc'[p] = "mkgen" /\ gen[p] # Live
    BY DEF Safe, TypeInv, TypeOK, RunOK, Starting, MountSecure, Goto, environment
  <1>3. Absence' /\ Storage' /\ Visible'
    <2>1. Live # None => blind > 0
      BY <1>2 DEF Safe, Storage
    <2> QED BY <1>2, <2>1 DEF MountSecure, links, Live, Absence, Storage, Visible
  <1>4. Forgetful(p)' /\ Truthful(p)'
    BY <1>2 DEF Safe, RunOK, MountSecure, memory, Forgetful, Truthful
  <1>5. Starting(p)' /\ Building(p)' /\ Swapping(p)' /\ Reaped(p)'
    BY <1>2 DEF MountSecure, memory, links, Live, Starting, Building, Swapping,
                Reaped, Placing, Linking, Reaping
  <1> QED BY <1>1, <1>2, <1>3, <1>4, <1>5, AloneIsAll DEF Serial, RunOK

LEMMA RemoveTmpSafe ==
  ASSUME Serial, NEW p \in Procs, NEW l \in LinkPaths, Safe, RemoveTmp(p, l)
  PROVE  Safe'
  <1>1. TypeInv'
    BY RemoveTmpType DEF Safe
  <1>2. Absence' /\ Storage' /\ Visible'
    BY SharedKept DEF environment, RemoveTmp, tree, Live
  <1>3. pc[p] = "link" /\ pc'[p] = "symlink" /\ cur'[p] = l /\ tmp'[l] = None
    BY DEF Safe, TypeInv, TypeOK, RemoveTmp, Goto
  <1>4. Forgetful(p)' /\ Truthful(p)'
    BY <1>3 DEF Safe, RunOK, RemoveTmp, Forgetful, Truthful, Ended
  <1>5. Building(p)'
    BY <1>3 DEF Safe, RunOK, Building, Placed, Live, RemoveTmp, tree,
       Placing, Linking
  <1>6. Starting(p)' /\ Swapping(p)' /\ Reaped(p)'
    BY <1>3 DEF Safe, RunOK, RemoveTmp, tree, Starting, Swapping, Reaped,
                Placing, Linking, Reaping
  <1> QED BY <1>1, <1>2, <1>3, <1>4, <1>5, <1>6, AloneIsAll DEF Serial, RunOK

LEMMA SymlinkSafe ==
  ASSUME Serial, NEW p \in Procs, Safe, Symlink(p)
  PROVE  Safe'
  <1>1. TypeInv'
    BY SymlinkType DEF Safe
  <1>2. Absence' /\ Storage' /\ Visible'
    BY SharedKept DEF environment, Symlink, tree, Live
  <1>3. /\ pc[p] = "symlink" /\ pc'[p] = "rename"
        /\ tmp'[cur[p]] = Target(p, cur[p])
    BY DEF Safe, TypeInv, TypeOK, MemoryOK, Symlink, Goto
  <1>4. Forgetful(p)' /\ Truthful(p)'
    BY <1>3 DEF Safe, RunOK, Symlink, memory, Forgetful, Truthful, Ended
  <1>5. Building(p)'
    BY <1>3 DEF Safe, RunOK, Building, Placed, Live, Symlink, tree, memory,
                Placing, Linking
  <1>6. Starting(p)' /\ Swapping(p)' /\ Reaped(p)'
    BY <1>3 DEF Safe, RunOK, Symlink, tree, memory, Starting, Swapping, Reaped,
                Target, Placing, Linking, Reaping
  <1> QED BY <1>1, <1>2, <1>3, <1>4, <1>5, <1>6, AloneIsAll DEF Serial, RunOK

\* A generation placed to its last entry is whole.
LEMMA PlacedIsComplete ==
  ASSUME TypeOK, NEW g \in Times, NEW m \in Manifests,
         NEW c \in [Files -> Versions \cup {None}],
         \A x \in Entries(m) : Placed(g, m, c, x),
         \A x \in Names \ Entries(m) : file[g][x] = None
  PROVE  Complete(g)
  <1> DEFINE w == [f \in Files |-> IF c[f] = None
                                   THEN CHOOSE v \in Versions : TRUE ELSE c[f]]
  <1>1. w \in [Files -> Versions]
    BY InstallerAssumption
  <1>2. ASSUME NEW x \in Entries(m) PROVE Body(m, w, x) = Body(m, c, x)
    <2>1. Cached(m, c, x)
      BY DEF Placed
    <2>2. CASE x \in Secrets
      BY <2>1, <2>2, SecretsOfManifest DEF Cached, Body, Plain
    <2>3. CASE x \notin Secrets
      <3>1. \A r \in Decl(m, x).refs : Plain(m, w, r) = Plain(m, c, r)
        <4> SUFFICES ASSUME NEW r \in Decl(m, x).refs
                     PROVE  Plain(m, w, r) = Plain(m, c, r)
          OBVIOUS
        <4>1. r \in SecretsOf(m) /\ c[Decl(m, r).file] # None
          BY <2>1, <2>3 DEF Cached
        <4>2. Decl(m, r).file \in Files
          BY <4>1, PlanAssumption
        <4> QED BY <4>1, <4>2 DEF Plain
      <3> QED BY <2>3, <3>1 DEF Body
    <2> QED BY <2>2, <2>3
  <1>3. file[g] = View(m, w)
    <2>1. \A x \in Names : file[g][x] = View(m, w)[x]
      BY <1>2 DEF Placed, Declared, View
    <2>2. file[g] = [x \in Names |-> file[g][x]]
      BY DEF TypeOK
    <2> QED BY <2>1, <2>2 DEF View
  <1> QED BY <1>1, <1>3 DEF Complete

LEMMA RenameSafe ==
  ASSUME Serial, NEW p \in Procs, Safe, Rename(p)
  PROVE  Safe'
  <1> DEFINE l == cur[p]
  <1>1. TypeInv'
    BY RenameType DEF Safe
  <1>2. /\ pc[p] = "rename" /\ pc'[p] = IF l = Root THEN "reap" ELSE "link"
        /\ l \in LinkPaths /\ link'[l] = Target(p, l)
    BY DEF Safe, TypeInv, TypeOK, MemoryOK, RunOK, Swapping, Rename, Goto
  <1>3. man[p] \in Manifests /\ gen[p] \in Times
    BY <1>2, RunIsSet DEF Safe, Running, Linking
  <1>4. /\ gen[p] \in dirs /\ gen[p] # Live
        /\ \A x \in Entries(man[p]) : Placed(gen[p], man[p], cache[p], x)
        /\ \A x \in Names \ Entries(man[p]) : file[gen[p]][x] = None
    BY <1>2 DEF Safe, RunOK, Building, Linking
  <1>5. Complete(gen[p])
    BY <1>3, <1>4, PlacedIsComplete DEF Safe, TypeInv, TypeOK
  <1>6. Live' = IF l = Root THEN gen[p] ELSE Live
    BY <1>2 DEF Rename, Target, Live, LinkPaths, Safe, TypeInv, TypeOK
  <1>7. Absence' /\ Storage' /\ Visible'
    <2>1. UserMode \/ mounts > 0
      BY <1>2 DEF Safe, RunOK, Starting, Linking
    <2>2. CASE l = Root
      <3>1. Live' = gen[p] /\ UNCHANGED <<mounts, dirs, file, blind>>
        BY <1>6, <2>2 DEF Rename, environment, tree
      <3>2. mounts = 0 => UserMode
        BY <2>1
      <3>3. LiveWhole'
        BY <1>4, <1>5, <3>1 DEF LiveWhole, Complete
      <3> QED BY <3>1, <3>2, <3>3 DEF Safe, Absence, Storage, Visible
    <2>3. CASE l # Root
      BY <1>6, <2>3, SharedKept DEF Rename, environment, tree
    <2> QED BY <2>2, <2>3
  <1>8. Forgetful(p)' /\ Truthful(p)'
    BY <1>2 DEF Safe, RunOK, Rename, Forgetful, Truthful, Ended
  <1>9. Building(p)'
    BY <1>2, <1>4, <1>6 DEF Building, Placed, Rename, tree, Placing, Linking
  <1>10. Starting(p)' /\ Swapping(p)' /\ Reaped(p)'
    BY <1>2, <1>4, <1>6 DEF Safe, RunOK, Rename, tree, Starting, Swapping,
                Reaped, Placing, Linking, Reaping
  <1> QED BY <1>1, <1>2, <1>7, <1>8, <1>9, <1>10, AloneIsAll DEF Serial, RunOK

LEMMA ListGenerationsSafe ==
  ASSUME Serial, NEW p \in Procs, Safe, ListGenerations(p)
  PROVE  Safe'
  <1>1. TypeInv'
    BY ListGenerationsType DEF Safe
  <1>2. Absence' /\ Storage' /\ Visible'
    BY SharedKept DEF environment, ListGenerations, tree, links, Live
  <1>3. /\ pc[p] = "reap" /\ pc'[p] = "sweep"
        /\ doomed'[p] \subseteq dirs \ {gen[p]}
    BY DEF Safe, TypeInv, TypeOK, ListGenerations, Goto, Doomed
  <1>4. Forgetful(p)' /\ Truthful(p)'
    BY <1>3 DEF Safe, RunOK, ListGenerations, Forgetful, Truthful, Ended
  <1>5. Starting(p)' /\ Building(p)' /\ Swapping(p)' /\ Reaped(p)'
    BY <1>3 DEF Safe, RunOK, ListGenerations, tree, links, Live, Starting,
                Building, Swapping, Reaped, Placing, Linking, Reaping
  <1> QED BY <1>1, <1>2, <1>3, <1>4, <1>5, AloneIsAll DEF Serial, RunOK

LEMMA RemoveReapedSafe ==
  ASSUME Serial, NEW p \in Procs, NEW g \in Times, Safe, RemoveReaped(p, g)
  PROVE  Safe'
  <1>1. TypeInv'
    BY RemoveReapedType DEF Safe
  <1>2. /\ pc[p] = "sweep" /\ pc'[p] = "sweep" /\ g # gen[p]
        /\ doomed'[p] = doomed[p] \ {g}
        /\ doomed[p] \subseteq dirs \ {gen[p]} /\ Live = gen[p]
    BY DEF Safe, TypeInv, TypeOK, RunOK, Reaped, RemoveReaped, Reaping
  <1>3. Live' = Live /\ file'[gen[p]] = file[gen[p]] /\ dirs' = dirs \ {g}
    BY <1>2 DEF Safe, TypeInv, TypeOK, RemoveReaped, links, Live
  <1>4. Absence'
    BY DEF Safe, TypeInv, TypeOK, Absence, RemoveReaped
  <1>5. Storage' /\ Visible'
    BY <1>2, <1>3 DEF Safe, RunOK, Reaped, Reaping, Storage, Visible, LiveWhole,
                      Complete, RemoveReaped, environment
  <1>6. Forgetful(p)' /\ Truthful(p)'
    BY <1>2 DEF Safe, RunOK, RemoveReaped, Forgetful, Truthful, Ended
  <1>7. Starting(p)' /\ Building(p)' /\ Swapping(p)' /\ Reaped(p)'
    BY <1>2, <1>3 DEF Safe, RunOK, RemoveReaped, links, Starting,
                Building, Swapping, Reaped, Placing, Linking, Reaping
  <1> QED BY <1>1, <1>2, <1>4, <1>5, <1>6, <1>7, AloneIsAll DEF Serial, RunOK

\* Where AfterEntry leads: on to the next entry, or to the links.
LEMMA AfterEntryLeads ==
  ASSUME NEW p \in Procs, NEW left, TypeOK, AfterEntry(p, left)
  PROVE  \/ left # {} /\ pc'[p] = "place" /\ todo'[p] = left
         \/ left = {} /\ pc'[p] = "link"
  BY DEF TypeOK, AfterEntry, Goto

LEMMA MakeGenerationSafe ==
  ASSUME Serial, NEW p \in Procs, Safe, MakeGeneration(p)
  PROVE  Safe'
  <1> DEFINE g == gen[p]
  <1>1. TypeInv'
    BY MakeGenerationType DEF Safe
  <1>2. pc[p] = "mkgen" /\ g \in Times /\ g \notin dirs /\ man' = man /\ gen' = gen
    BY RunIsSet DEF Safe, RunOK, Starting, MakeGeneration, Running
  <1>3. \/ Entries(man[p]) # {} /\ pc'[p] = "place" /\ todo'[p] = Entries(man[p])
        \/ Entries(man[p]) = {} /\ pc'[p] = "link"
    BY AfterEntryLeads DEF Safe, TypeInv, MakeGeneration
  <1>4. /\ file'[g] = NoFiles /\ file' = file /\ dirs' = dirs \cup {g}
        /\ Live' = Live /\ mounts' = mounts /\ Live # g
    BY <1>2 DEF Safe, RunOK, Starting, Absence, MakeGeneration, links, Live
  <1>5. UserMode \/ mounts > 0
    BY <1>2 DEF Safe, RunOK, Starting
  <1>6. Absence' /\ Storage' /\ Visible'
    BY <1>2, <1>4, <1>5, BlindIsNat DEF Safe, MakeGeneration, environment, Absence,
       Storage, Visible, LiveWhole, Complete
  <1>7. Forgetful(p)' /\ Truthful(p)'
    BY <1>3, <1>2 DEF Safe, RunOK, MakeGeneration, Forgetful, Truthful, Ended
  <1>8. Building(p)'
    <2>1. \A x \in Names : file'[g][x] = None
      BY <1>4 DEF NoFiles
    <2>2. Entries(man[p]) \subseteq Names
      BY <1>2, RunIsSet, EntriesAreNames DEF Safe, Running
    <2> QED BY <1>2, <1>3, <1>4, <2>1, <2>2 DEF Building, Placing, Linking
  <1>9. Starting(p)' /\ Swapping(p)' /\ Reaped(p)'
    BY <1>3, <1>4, <1>5 DEF Starting, Swapping, Reaped, Reaping
  <1>10. pc'[p] # "blocked"
    BY <1>3
  <1> QED BY <1>1, <1>6, <1>7, <1>8, <1>9, <1>10, AloneIsAll DEF Serial, RunOK

LEMMA OpenEntrySafe ==
  ASSUME Serial, NEW p \in Procs, NEW n \in Names, Safe, OpenEntry(p, n)
  PROVE  Safe'
  <1> DEFINE g == gen[p]
             m == man[p]
             f == Decl(m, n).file
  <1>1. TypeInv'
    BY OpenEntryType DEF Safe
  <1>2. /\ pc[p] = "place" /\ pc'[p] = "fill" /\ cur'[p] = n
        /\ man' = man /\ gen' = gen /\ todo' = todo /\ values' = values
    BY DEF Safe, TypeInv, TypeOK, OpenEntry, Goto
  <1>3. m \in Manifests /\ g \in Times /\ n \in todo[p] /\ n \in Entries(m)
    BY <1>2, RunIsSet, NextEntriesAreLeft
       DEF OpenEntry, Safe, TypeInv, MemoryOK, Running, Placing
  <1>4. /\ g \in dirs /\ g # Live /\ (UserMode \/ mounts > 0)
        /\ \A x \in Names \ Entries(m) : file[g][x] = None
        /\ \A x \in Entries(m) \ todo[p] : Placed(g, m, cache[p], x)
        /\ \A x \in todo[p] : file[g][x] = None
    BY <1>2 DEF Safe, RunOK, Building, Starting, Placing
  <1>5. /\ dirs' = dirs /\ mounts' = mounts /\ Live' = Live /\ tmp' = tmp
        /\ file' = [file EXCEPT ![g][n] = Bare(Empty)]
    <2>1. file[g][n] = None
      BY <1>3, <1>4
    <2> QED BY <1>4, <2>1 DEF OpenEntry, links, Live, Bare, Narrow
  <1>6. /\ file'[g][n] = Bare(Empty)
        /\ \A x \in Names \ {n} : file'[g][x] = file[g][x]
        /\ \A h \in Times \ {g} : file'[h] = file[h]
    BY <1>3, <1>5 DEF Safe, TypeInv, TypeOK
  <1>7. Absence' /\ Storage' /\ Visible'
    BY <1>4, <1>5, <1>6 DEF Safe, TypeInv, TypeOK, OpenEntry, environment,
       Absence, Storage, Visible, LiveWhole, Complete
  <1>8. \A h \in Files : cache[p][h] # None => cache'[p][h] = cache[p][h]
    <2>1. CASE n \in Secrets
      BY <1>3, <2>1, SecretsOfManifest
         DEF OpenEntry, VersionRead, Safe, TypeInv, TypeOK
    <2>2. CASE n \notin Secrets
      BY <2>2 DEF OpenEntry
    <2> QED BY <2>1, <2>2
  <1>9. \A x \in Entries(m) : Cached(m, cache[p], x) =>
          Cached(m, cache'[p], x) /\ Body(m, cache'[p], x) = Body(m, cache[p], x)
    <2> SUFFICES ASSUME NEW x \in Entries(m), Cached(m, cache[p], x)
                 PROVE  /\ Cached(m, cache'[p], x)
                        /\ Body(m, cache'[p], x) = Body(m, cache[p], x)
      OBVIOUS
    <2>1. CASE x \in Secrets
      BY <1>3, <1>8, <2>1, SecretsOfManifest DEF Cached, Body, Plain
    <2>2. CASE x \notin Secrets
      <3>1. \A r \in Decl(m, x).refs :
              /\ r \in SecretsOf(m) /\ Decl(m, r).file \in Files
              /\ cache[p][Decl(m, r).file] # None
        BY <1>3, <2>2, PlanAssumption DEF Cached
      <3>2. \A r \in Decl(m, x).refs :
              Plain(m, cache'[p], r) = Plain(m, cache[p], r)
        BY <1>8, <3>1 DEF Plain
      <3>3. Cached(m, cache'[p], x)
        BY <1>8, <2>2, <3>1 DEF Cached
      <3> QED BY <2>2, <3>2, <3>3 DEF Body
    <2> QED BY <2>1, <2>2
  <1>10. Forgetful(p)' /\ Truthful(p)'
    <2>1. Forgetful(p)'
      BY <1>2 DEF Forgetful, Ended
    <2>2. \A k \in SecretsOf(m) : Decl(m, k).file \in Files
      BY <1>3, PlanAssumption
    <2> QED BY <1>2, <1>8, <2>1, <2>2 DEF Safe, RunOK, Truthful, Plain
  <1>11. Building(p)'
    <2>1. \A x \in Entries(m) \ todo[p] :
            /\ Cached(m, cache'[p], x)
            /\ file'[g][x] = Declared(m, cache'[p], x)
      BY <1>3, <1>4, <1>6, <1>9, EntriesAreNames DEF Placed, Declared
    <2>2. \A x \in todo[p] \ {n} : file'[g][x] = None
      BY <1>4, <1>6, <1>3, EntriesAreNames
         DEF Safe, TypeInv, MemoryOK, OpenEntry, Placing
    <2> QED BY <1>2, <1>3, <1>4, <1>5, <1>6, <2>1, <2>2
            DEF Building, Placed, Placing, Linking
  <1>12. Starting(p)' /\ Swapping(p)' /\ Reaped(p)'
    BY <1>2, <1>4, <1>5 DEF Starting, Swapping, Reaped, Reaping
  <1> QED BY <1>1, <1>2, <1>7, <1>10, <1>11, <1>12, AloneIsAll DEF Serial, RunOK

\* Changing the generation a run builds leaves what others see alone.
LEMMA BuildingIsPrivate ==
  ASSUME Safe, NEW g \in dirs, g # Live,
         \A h \in Times \ {g} : file'[h] = file[h],
         mounts' = mounts, dirs' = dirs, link' = link, blind' = blind
  PROVE  Absence' /\ Storage' /\ Visible' /\ Live' = Live
  <1>1. Live' = Live
    BY DEF Live
  <1>2. Absence' /\ Storage' /\ Visible'
    BY <1>1 DEF Safe, TypeInv, TypeOK, Absence, Storage, Visible, LiveWhole, Complete
  <1> QED BY <1>1, <1>2

\* What a run writes is what the entry is declared to hold.
LEMMA ObtainedIsBody ==
  ASSUME Serial, NEW p \in Procs, Safe, pc[p] = "fill"
  PROVE  /\ Obtained(p, cur[p]) = Body(man[p], cache[p], cur[p])
         /\ Cached(man[p], cache[p], cur[p])
  <1> DEFINE n == cur[p]
             m == man[p]
  <1>1. m \in Manifests /\ n \in Entries(m)
    BY RunIsSet, EntryIsSet DEF Safe, Running, Placing
  <1>2. CASE n \in Secrets
    BY <1>2 DEF Obtained, Body, Cached, Safe, TypeInv, MemoryOK
  <1>3. CASE n \notin Secrets
    <2>1. \A r \in Decl(m, n).refs :
            /\ r \in SecretsOf(m) /\ cache[p][Decl(m, r).file] # None
            /\ values[p][r] = Plain(m, cache[p], r)
      <3>1. \A r \in Decl(m, n).refs : r \in Keys /\ values[p][r] # None
        BY <1>1, <1>3, SecretsOfManifest, PlanAssumption
           DEF Safe, TypeInv, MemoryOK
      <3> QED BY <3>1 DEF Safe, RunOK, Truthful
    <2> QED BY <1>3, <2>1 DEF Obtained, Body, Cached
  <1> QED BY <1>2, <1>3

LEMMA FillEntrySafe ==
  ASSUME Serial, NEW p \in Procs, Safe, FillEntry(p)
  PROVE  Safe'
  <1> DEFINE n == cur[p]
             g == gen[p]
             m == man[p]
             b == Body(m, cache[p], n)
  <1>1. TypeInv'
    BY FillEntryType DEF Safe
  <1>2. /\ pc[p] = "fill" /\ pc'[p] = AfterWrite
        /\ man' = man /\ gen' = gen /\ todo' = todo /\ cur' = cur
        /\ cache' = cache /\ dirs' = dirs /\ mounts' = mounts /\ link' = link
        /\ blind' = blind
    BY DEF Safe, TypeInv, TypeOK, FillEntry, Goto, environment, links
  <1>3. m \in Manifests /\ g \in Times /\ n \in Entries(m) /\ n \in Names
        /\ n \in todo[p]
    BY <1>2, RunIsSet, EntryIsSet
       DEF Safe, TypeInv, MemoryOK, Running, Placing
  <1>4. /\ g \in dirs /\ g # Live /\ (UserMode \/ mounts > 0)
        /\ \A x \in Names \ Entries(m) : file[g][x] = None
        /\ \A x \in Entries(m) \ todo[p] : Placed(g, m, cache[p], x)
        /\ \A x \in todo[p] \ {n} : file[g][x] = None
        /\ file[g][n] = Bare(Empty)
    BY <1>2 DEF Safe, RunOK, Building, Starting, Placing
  <1>5. Obtained(p, n) = b /\ Cached(m, cache[p], n)
    BY <1>2, ObtainedIsBody
  <1>6. file' = [file EXCEPT ![g][n] = Bare(b)]
    <2>1. file[g][n] # None
      BY <1>4, FreshFile, NoneIsNoFile DEF Bare, Narrow
    <2>2. [file[g][n] EXCEPT !.data = b] = Bare(b)
      BY <1>4 DEF Bare, Narrow
    <2> QED BY <1>5, <2>1, <2>2 DEF FillEntry
  <1>7. /\ Absence' /\ Storage' /\ Visible' /\ Live' = Live
        /\ file'[g][n] = Bare(b)
        /\ \A x \in Names \ {n} : file'[g][x] = file[g][x]
    <2>1. /\ file'[g][n] = Bare(b)
          /\ \A x \in Names \ {n} : file'[g][x] = file[g][x]
          /\ \A h \in Times \ {g} : file'[h] = file[h]
      BY <1>2, <1>3, <1>4, <1>6 DEF Safe, TypeInv, TypeOK
    <2> QED BY <1>2, <1>3, <1>4, <1>6, <2>1, BuildingIsPrivate
  <1>8. \/ pc'[p] = "chmod" /\ UserMode
        \/ pc'[p] = "chown" /\ ~UserMode
    BY <1>2, PlanAssumption DEF AfterWrite
  <1>9. Forgetful(p)'
    BY <1>8 DEF Forgetful, Ended
  <1>10. Truthful(p)'
    <2>1. CASE n \in Secrets
      <3>1. Decl(m, n).key = n /\ n \in SecretsOf(m)
        BY <1>3, <2>1, SecretsOfManifest DEF Serial, NamesAreKeys
      <3>2. values' = [values EXCEPT ![p][n] = Plain(m, cache[p], n)]
        BY <1>5, <2>1, <3>1 DEF FillEntry, Body
      <3> QED BY <1>2, <1>5, <2>1, <3>1, <3>2
              DEF Safe, RunOK, Truthful, TypeInv, TypeOK, Cached
    <2>2. CASE n \notin Secrets
      BY <1>2, <2>2 DEF Safe, RunOK, Truthful, FillEntry
    <2> QED BY <2>1, <2>2
  <1>11. Building(p)'
    <2>1. \A x \in Entries(m) \ todo[p] :
            file'[g][x] = file[g][x] /\ Placed(g, m, cache[p], x)
      BY <1>3, <1>4, <1>7, EntriesAreNames
    <2>2. \A x \in Names \ Entries(m) : file'[g][x] = None
      BY <1>3, <1>4, <1>7
    <2>3. \A x \in todo[p] \ {n} : file'[g][x] = None
      BY <1>2, <1>3, <1>4, <1>7, EntriesAreNames
         DEF Safe, TypeInv, MemoryOK, Placing
    <2>4. UserMode => Bare(b) = Narrow(b, OwnerOf(m, n))
      BY DEF Bare, OwnerOf
    <2> QED BY <1>2, <1>3, <1>4, <1>5, <1>7, <1>8, <2>1, <2>2, <2>3, <2>4
            DEF Building, Placed, Placing, Linking
  <1>12. Starting(p)' /\ Swapping(p)' /\ Reaped(p)'
    BY <1>2, <1>4, <1>8 DEF Starting, Swapping, Reaped, Reaping
  <1>13. pc'[p] # "blocked"
    BY <1>8
  <1> QED BY <1>1, <1>7, <1>9, <1>10, <1>11, <1>12, <1>13, AloneIsAll
          DEF Serial, RunOK

LEMMA ChownSafe ==
  ASSUME Serial, NEW p \in Procs, Safe, Chown(p)
  PROVE  Safe'
  <1> DEFINE n == cur[p]
             g == gen[p]
             m == man[p]
             d == Narrow(Body(m, cache[p], n), OwnerOf(m, n))
  <1>1. TypeInv'
    BY ChownType DEF Safe
  <1>2. /\ pc[p] = "chown" /\ pc'[p] = "chmod"
        /\ UNCHANGED memory /\ dirs' = dirs /\ mounts' = mounts /\ link' = link
        /\ blind' = blind
    BY DEF Safe, TypeInv, TypeOK, Chown, Goto, environment, links
  <1>3. m \in Manifests /\ g \in Times /\ n \in Entries(m) /\ n \in Names
    BY <1>2, RunIsSet, EntryIsSet DEF Safe, Running, Placing
  <1>4. /\ g \in dirs /\ g # Live /\ (UserMode \/ mounts > 0)
        /\ \A x \in Names \ Entries(m) : file[g][x] = None
        /\ \A x \in Entries(m) \ todo[p] : Placed(g, m, cache[p], x)
        /\ \A x \in todo[p] \ {n} : file[g][x] = None
        /\ ~UserMode /\ file[g][n] = Bare(Body(m, cache[p], n))
        /\ Cached(m, cache[p], n)
    BY <1>2 DEF Safe, RunOK, Building, Starting, Placing
  <1>5. file' = [file EXCEPT ![g][n] = d]
    <2>1. [file[g][n] EXCEPT !.owner = Decl(m, n).owner] = d
      BY <1>4 DEF Bare, Narrow, OwnerOf
    <2> QED BY <2>1 DEF Chown
  <1>6. /\ Absence' /\ Storage' /\ Visible' /\ Live' = Live
        /\ file'[g][n] = d
        /\ \A x \in Names \ {n} : file'[g][x] = file[g][x]
    <2>1. /\ file'[g][n] = d
          /\ \A x \in Names \ {n} : file'[g][x] = file[g][x]
          /\ \A h \in Times \ {g} : file'[h] = file[h]
      BY <1>2, <1>3, <1>4, <1>5 DEF Safe, TypeInv, TypeOK
    <2> QED BY <1>2, <1>3, <1>4, <1>5, <2>1, BuildingIsPrivate
  <1>7. Forgetful(p)' /\ Truthful(p)'
    BY <1>2 DEF Safe, RunOK, Forgetful, Truthful, Ended, memory
  <1>8. n \in todo[p] /\ todo[p] \subseteq Entries(m)
    BY <1>2 DEF Safe, TypeInv, MemoryOK, Placing
  <1>9. Building(p)'
    <2>1. \A x \in Entries(m) \ todo[p] :
            file'[g][x] = file[g][x] /\ Placed(g, m, cache[p], x)
      BY <1>3, <1>4, <1>6, <1>8, EntriesAreNames
    <2>2. \A x \in Names \ Entries(m) : file'[g][x] = None
      BY <1>3, <1>4, <1>6
    <2>3. \A x \in todo[p] \ {n} : file'[g][x] = None
      BY <1>3, <1>4, <1>6, <1>8, EntriesAreNames
    <2> QED BY <1>2, <1>3, <1>4, <1>6, <2>1, <2>2, <2>3
            DEF Building, Placed, Placing, Linking, memory
  <1>10. Starting(p)' /\ Swapping(p)' /\ Reaped(p)'
    BY <1>2, <1>4 DEF Starting, Swapping, Reaped, Reaping
  <1> QED BY <1>1, <1>2, <1>6, <1>7, <1>9, <1>10, AloneIsAll DEF Serial, RunOK

LEMMA ChmodSafe ==
  ASSUME Serial, NEW p \in Procs, Safe, Chmod(p)
  PROVE  Safe'
  <1> DEFINE n == cur[p]
             g == gen[p]
             m == man[p]
             c == cache[p]
             left == todo[p] \ {n}
  <1>1. TypeInv'
    BY ChmodType DEF Safe
  <1>2. /\ pc[p] = "chmod" /\ man' = man /\ gen' = gen /\ cache' = cache
        /\ values' = values /\ dirs' = dirs /\ mounts' = mounts /\ link' = link
        /\ blind' = blind
    BY DEF Chmod, environment, links
  <1>3. \/ left # {} /\ pc'[p] = "place" /\ todo'[p] = left
        \/ left = {} /\ pc'[p] = "link"
    BY AfterEntryLeads DEF Safe, TypeInv, Chmod
  <1>4. m \in Manifests /\ g \in Times /\ n \in Entries(m) /\ n \in Names
        /\ n \in todo[p] /\ todo[p] \subseteq Entries(m)
    BY <1>2, RunIsSet, EntryIsSet
       DEF Safe, TypeInv, MemoryOK, Running, Placing
  <1>5. /\ g \in dirs /\ g # Live /\ (UserMode \/ mounts > 0)
        /\ \A x \in Names \ Entries(m) : file[g][x] = None
        /\ \A x \in Entries(m) \ todo[p] : Placed(g, m, c, x)
        /\ \A x \in left : file[g][x] = None
        /\ file[g][n] = Narrow(Body(m, c, n), OwnerOf(m, n))
        /\ Cached(m, c, n)
    BY <1>2 DEF Safe, RunOK, Building, Starting, Placing
  <1>6. file' = [file EXCEPT ![g][n] = Declared(m, c, n)]
    <2>1. [file[g][n] EXCEPT !.mode = Decl(m, n).mode] = Declared(m, c, n)
      BY <1>5 DEF Narrow, Declared
    <2> QED BY <2>1 DEF Chmod
  <1>7. /\ Absence' /\ Storage' /\ Visible' /\ Live' = Live
        /\ file'[g][n] = Declared(m, c, n)
        /\ \A x \in Names \ {n} : file'[g][x] = file[g][x]
    <2>1. /\ file'[g][n] = Declared(m, c, n)
          /\ \A x \in Names \ {n} : file'[g][x] = file[g][x]
          /\ \A h \in Times \ {g} : file'[h] = file[h]
      BY <1>2, <1>4, <1>5, <1>6 DEF Safe, TypeInv, TypeOK
    <2> QED BY <1>2, <1>4, <1>5, <1>6, <2>1, BuildingIsPrivate
  <1>8. Forgetful(p)' /\ Truthful(p)'
    BY <1>2, <1>3 DEF Safe, RunOK, Forgetful, Truthful, Ended
  <1>9. Building(p)'
    <2>1. \A x \in Entries(m) \ left :
            Cached(m, c, x) /\ file'[g][x] = Declared(m, c, x)
      BY <1>4, <1>5, <1>7, EntriesAreNames DEF Placed
    <2>2. \A x \in Names \ Entries(m) : file'[g][x] = None
      BY <1>4, <1>5, <1>7
    <2>3. \A x \in left : file'[g][x] = None
      BY <1>4, <1>5, <1>7, EntriesAreNames
    <2> QED BY <1>2, <1>3, <1>4, <1>5, <1>7, <2>1, <2>2, <2>3
            DEF Building, Placed, Placing, Linking
  <1>10. Starting(p)' /\ Swapping(p)' /\ Reaped(p)'
    BY <1>2, <1>3, <1>5 DEF Starting, Swapping, Reaped, Reaping
  <1>11. pc'[p] # "blocked"
    BY <1>3
  <1> QED BY <1>1, <1>7, <1>8, <1>9, <1>10, <1>11, AloneIsAll DEF Serial, RunOK

LEMMA BodyIsContent ==
  ASSUME NEW m \in Manifests, NEW n \in Entries(m),
         NEW c \in [Files -> Versions \cup {None}], Cached(m, c, n)
  PROVE  Body(m, c, n) \in IF n \in Secrets THEN Plaintexts ELSE Bodies
  <1>1. \A s \in SecretsOf(m) :
          c[Decl(m, s).file] # None => Plain(m, c, s) \in Plaintexts
    BY PlanAssumption DEF Plain, Plaintexts
  <1>2. CASE n \in Secrets
    BY <1>1, <1>2, SecretsOfManifest DEF Cached, Body
  <1>3. CASE n \notin Secrets
    <2>1. n \in TemplatesOf(m)
      BY <1>3, PlanAssumption DEF Entries
    <2>2. Decl(m, n).refs \subseteq Secrets
      BY <2>1, PlanAssumption
    <2>3. Body(m, c, n) \in [Decl(m, n).refs -> Plaintexts]
      BY <1>1, <1>3 DEF Cached, Body
    <2> QED BY <1>3, <2>2, <2>3 DEF Bodies
  <1> QED BY <1>2, <1>3

\* Of the ways a run ends, two need a name that somebody else removed.
LEMMA NothingVanishes ==
  ASSUME NEW p \in Procs, Safe
  PROVE  ~EntryVanished(p) /\ ~SwapCollides(p)
  <1>1. ~EntryVanished(p)
    <2> SUFFICES ASSUME pc[p] \in {"chown", "chmod"},
                        file[gen[p]][cur[p]] = None
                 PROVE  FALSE
      BY DEF EntryVanished
    <2>1. man[p] \in Manifests /\ cur[p] \in Entries(man[p])
      BY RunIsSet, EntryIsSet DEF Safe, TypeInv, Running, Placing
    <2>2. Cached(man[p], cache[p], cur[p])
      BY DEF Safe, RunOK, Building
    <2>3. Body(man[p], cache[p], cur[p]) \in Contents
      BY <2>1, <2>2, BodyIsContent DEF Safe, TypeInv, TypeOK, Contents
    <2>4. \E o \in Owners : None = Narrow(Body(man[p], cache[p], cur[p]), o)
      BY <2>1, DeclaredOwnerMode
         DEF Safe, RunOK, Building, Bare, OwnerOf, Owners
    <2> QED BY <2>3, <2>4, NoneIsNoFile DEF Narrow, FileRec, Modes
  <1>2. ~SwapCollides(p)
    <2>1. pc[p] = "rename" => tmp[cur[p]] = Target(p, cur[p])
      BY DEF Safe, RunOK, Swapping
    <2>2. pc[p] = "rename" => Target(p, cur[p]) # None
      BY NoneIsNoValue, PlanAssumption, RunIsSet
         DEF Safe, TypeInv, Target, Running, Linking
    <2>3. pc[p] = "symlink" => tmp[cur[p]] = None
      BY DEF Safe, RunOK, Swapping
    <2> QED BY <2>1, <2>2, <2>3 DEF SwapCollides
  <1> QED BY <1>1, <1>2

LEMMA EndingsSafe ==
  ASSUME Serial, NEW p \in Procs, Safe,
         (\E n \in Names : CannotObtain(p, n)) \/ ReapEnds(p) \/ Fault(p)
  PROVE  Safe'
  <1>1. TypeInv'
    BY EndingsType DEF Safe
  <1>2. CASE \E n \in Names : CannotObtain(p, n)
    BY <1>1, <1>2, EndSafe DEF CannotObtain, environment
  <1>3. CASE ReapEnds(p)
    BY <1>1, <1>3, EndSafe DEF ReapEnds, Reaping, environment
  <1>4. CASE Fault(p)
    BY <1>1, <1>4, EndSafe DEF Fault
  <1> QED BY <1>2, <1>3, <1>4

LEMMA StepSafe ==
  ASSUME Serial, NEW p \in Procs, Safe, Step(p)
  PROVE  Safe'
  BY EnsureSecureStorageSafe, StoreUnseenSafe, MountSecureSafe, MakeGenerationSafe,
     OpenEntrySafe,
     FillEntrySafe, ChownSafe, ChmodSafe, RemoveTmpSafe, SymlinkSafe, RenameSafe,
     ListGenerationsSafe, RemoveReapedSafe, EndingsSafe, NothingVanishes DEF Step

LEMMA RunKept ==
  ASSUME NEW p \in Procs, RunOK(p),
         UNCHANGED <<tree, links, pc, memory, blind>>
  PROVE  RunOK(p)'
  BY DEF tree, links, memory, RunOK, Forgetful, Truthful, Starting, Building,
         Placed, Swapping, Target, Reaped, Live

LEMMA EnvironmentSafe ==
  ASSUME Safe,
         \/ Reboot
         \/ \E f \in Files, v \in Versions \cup {Damaged} : EditSource(f, v)
  PROVE  Safe'
  <1>1. TypeInv'
    BY EnvironmentType DEF Safe
  <1>2. CASE UNCHANGED <<tree, links, pc, memory, blind>>
    <2>1. Absence' /\ Storage' /\ Visible'
      BY <1>2, SharedKept DEF tree, links, Live
    <2>2. \A p \in Procs : RunOK(p)'
      BY <1>2, RunKept DEF Safe
    <2> QED BY <1>1, <2>1, <2>2 DEF Safe
  <1>3. CASE Reboot
    <2>1. Absence' /\ Storage' /\ Visible'
      BY <1>3 DEF Safe, TypeInv, TypeOK, Reboot, Absence, Storage, Visible,
         Live, LinkPaths
    <2>2. \A p \in Procs : RunOK(p)'
      BY <1>3 DEF Reboot, RunOK, Forgetful, Truthful, Starting, Building,
         Swapping, Reaped, Placing, Linking, Reaping
    <2> QED BY <1>1, <2>1, <2>2 DEF Safe
  <1> QED BY <1>2, <1>3 DEF EditSource

LEMMA NextSafe == Serial /\ Safe /\ [Next]_vars => Safe'
  <1> SUFFICES ASSUME Serial, Safe, [Next]_vars PROVE Safe' OBVIOUS
  <1>1. CASE Next
    BY <1>1, StepSafe, EndingsSafe, StartSafe, EnvironmentSafe DEF Next
  <1>2. CASE UNCHANGED vars
    <2>1. TypeInv'
      BY NextType DEF Safe
    <2>2. Absence' /\ Storage' /\ Visible'
      BY <1>2, SharedKept DEF vars, environment, tree, links, Live
    <2>3. \A p \in Procs : RunOK(p)'
      BY <1>2, RunKept DEF Safe, vars, environment
    <2> QED BY <2>1, <2>2, <2>3 DEF Safe
  <1> QED BY <1>1, <1>2

LEMMA AlwaysSafe == Serial => (Spec => []Safe)
  <1> SUFFICES ASSUME Serial PROVE Spec => []Safe OBVIOUS
  <1>1. Safe /\ [Next]_vars => Safe'
    BY NextSafe
  <1> QED BY <1>1, InitSafe, PTL DEF Spec

-----------------------------------------------------------------------------
(***************************************************************************)
(* No reader ever meets a part of a generation; one whose store another    *)
(* was mounted over is out of sight until a run gets to its swap, and that *)
(* costs a mount table that could not be read.                             *)
(***************************************************************************)
THEOREM LiveIsWholeOrHidden == Serial => (Spec => []LiveWholeOrHidden)
  <1>1. Safe => LiveWholeOrHidden
    BY DEF Safe, RunOK, Visible, Reaped, LiveWholeOrHidden
  <1> QED BY <1>1, AlwaysSafe, PTL

LEMMA NeverHidden == TableReadable /\ Safe => LiveComplete /\ mounts <= 1 /\ blind = 0
  BY DEF TableReadable, Safe, TypeInv, TypeOK, Storage, Visible, LiveComplete

(***************************************************************************)
(* What /run/secrets names is a whole generation at every instant of every *)
(* run, of one that fails or is killed too: no reader meets a half-placed  *)
(* generation (place.rs rule 2).                                           *)
(***************************************************************************)
THEOREM LiveIsComplete == Serial /\ TableReadable => (Spec => []LiveComplete)
  <1> SUFFICES ASSUME Serial, TableReadable PROVE Spec => []LiveComplete OBVIOUS
  <1>1. Safe => LiveComplete
    BY NeverHidden
  <1> QED BY <1>1, AlwaysSafe, PTL

(***************************************************************************)
(* However many runs failed or were killed, and wherever: none of what     *)
(* they left ("l.new", a half-written generation, a half-done reaping)     *)
(* stops a later run.                                                      *)
(***************************************************************************)
THEOREM LeftoversNeverBlock == Serial => (Spec => []NeverBlocked)
  <1>1. Safe => NeverBlocked
    BY DEF Safe, RunOK, NeverBlocked
  <1> QED BY <1>1, AlwaysSafe, PTL

(***************************************************************************)
(* Of runs that follow one another, however often they fail or are killed, *)
(* each mounts a store only when there is none or when it could not read   *)
(* the mount table; and no generation exists outside a store.              *)
(***************************************************************************)
THEOREM StoresCostUnreadTables == Serial => (Spec => []OneSecureStore)
  <1>1. Safe => OneSecureStore
    BY DEF Safe, TypeInv, TypeOK, Storage, OneSecureStore
  <1> QED BY <1>1, AlwaysSafe, PTL

(***************************************************************************)
(* What a reader of /run/secrets sees of one step: nothing, or another     *)
(* generation, or a restart.                                               *)
(***************************************************************************)
Unseen    == /\ Live' = Live /\ boots' = boots
             /\ Live # None => Live \in dirs' /\ file'[Live] = file[Live]
Republished == boots' = boots /\ Live' \notin {Live, None}
Restarted == boots' = boots + 1 /\ Live' = None

\* A step that leaves the tree and the links alone is not seen.
LEMMA TreeKeptUnseen ==
  ASSUME TableReadable, Safe, UNCHANGED <<dirs, file, Live, boots>>
  PROVE  Unseen
  BY NeverHidden DEF Safe, LiveComplete, LiveWhole, Unseen

\* Nor is one in a generation that is not the live one.
LEMMA PlacingUnseen ==
  ASSUME Serial, TableReadable, NEW p \in Procs, Safe,
         \/ \E n \in Names : OpenEntry(p, n)
         \/ FillEntry(p) \/ Chown(p) \/ Chmod(p)
  PROVE  Unseen
  <1>1. pc[p] \in Placing /\ boots' = boots /\ Live' = Live
    BY DEF OpenEntry, FillEntry, Chown, Chmod, environment, links, Live, Placing
  <1>2. gen[p] \in Times /\ gen[p] # Live
    BY <1>1, RunIsSet DEF Safe, RunOK, Building, Running
  <1>3. \A h \in Times \ {gen[p]} : file'[h] = file[h]
    <2>1. file \in [Times -> [Names -> FileRec \cup {None}]]
      BY DEF Safe, TypeInv, TypeOK
    <2>2. CASE \E n \in Names : OpenEntry(p, n)
      BY <1>2, <2>1, <2>2 DEF OpenEntry
    <2>3. CASE FillEntry(p)
      BY <1>2, <2>1, <2>3 DEF FillEntry
    <2>4. CASE Chown(p)
      BY <1>2, <2>1, <2>4 DEF Chown
    <2>5. CASE Chmod(p)
      BY <1>2, <2>1, <2>5 DEF Chmod
    <2> QED BY <2>2, <2>3, <2>4, <2>5
  <1>4. dirs \subseteq dirs'
    BY DEF OpenEntry, FillEntry, Chown, Chmod
  <1>5. Live # None => Live \in dirs /\ Live \in Times
    BY NeverHidden DEF Safe, LiveComplete, LiveWhole, TypeInv, TypeOK
  <1> QED BY <1>1, <1>2, <1>3, <1>4, <1>5 DEF Unseen

LEMMA StepSeen ==
  ASSUME Serial, TableReadable, NEW p \in Procs, Safe, Step(p)
  PROVE  Unseen \/ Republished
  <1>1. CASE \/ EnsureSecureStorage(p) \/ ListGenerations(p) \/ ReapEnds(p)
             \/ Symlink(p) \/ (\E n \in Names : CannotObtain(p, n))
             \/ (\E l \in LinkPaths : RemoveTmp(p, l))
    BY <1>1, TreeKeptUnseen
       DEF EnsureSecureStorage, ListGenerations, ReapEnds, Symlink, CannotObtain,
           RemoveTmp, environment, tree, links, Live
  <1>2. CASE MountSecure(p)
    <2>1. Live = None
      BY <1>2, NeverHidden
         DEF MountSecure, Safe, RunOK, Starting, Storage, TypeInv, TypeOK
    <2> QED BY <1>2, <2>1 DEF MountSecure, Unseen, environment, links, Live
  <1>3. CASE MakeGeneration(p)
    BY <1>3, NeverHidden DEF MakeGeneration, Safe, RunOK, Starting, LiveComplete,
                LiveWhole, Unseen, environment, links,
                Live
  <1>4. CASE \/ \E n \in Names : OpenEntry(p, n)
             \/ FillEntry(p) \/ Chown(p) \/ Chmod(p)
    BY <1>4, PlacingUnseen
  <1>5. CASE Rename(p)
    <2>1. pc[p] = "rename" /\ cur[p] \in LinkPaths /\ gen[p] # Live
          /\ gen[p] # None /\ tmp[cur[p]] = Target(p, cur[p])
      BY <1>5, RunIsSet, NoneIsNoValue DEF Rename, Safe, TypeInv, MemoryOK,
         RunOK, Building, Swapping, Running, Linking
    <2>2. Live' = IF cur[p] = Root THEN gen[p] ELSE Live
      BY <1>5, <2>1 DEF Rename, Target, Live, LinkPaths, Safe, TypeInv, TypeOK
    <2>3. CASE cur[p] = Root
      BY <1>5, <2>1, <2>2, <2>3 DEF Rename, Republished, environment
    <2>4. CASE cur[p] # Root
      BY <1>5, <2>2, <2>4, TreeKeptUnseen DEF Rename, environment, tree
    <2> QED BY <2>3, <2>4
  <1>6. CASE \E g \in Times : RemoveReaped(p, g)
    <2>1. PICK g \in Times : RemoveReaped(p, g)
      BY <1>6
    <2>2. Live = gen[p] /\ g # Live
      BY <2>1 DEF RemoveReaped, Safe, RunOK, Reaped, Reaping
    <2>3. Live' = Live /\ boots' = boots
      BY <2>1 DEF RemoveReaped, environment, links, Live
    <2>4. Live # None => Live \in dirs /\ Live \in Times
      BY NeverHidden DEF Safe, LiveComplete, LiveWhole, TypeInv, TypeOK
    <2> QED BY <2>1, <2>2, <2>3, <2>4
            DEF RemoveReaped, Unseen, Safe, TypeInv, TypeOK
  <1>7. ~StoreUnseen(p)
    BY NeverHidden DEF StoreUnseen, TableReadable
  <1> QED BY <1>1, <1>2, <1>3, <1>4, <1>5, <1>6, <1>7, NothingVanishes DEF Step

LEMMA NextSeen ==
  ASSUME Serial, TableReadable, Safe, [Next]_vars
  PROVE  Unseen \/ Republished \/ Restarted
  <1>1. CASE \E p \in Procs : Step(p)
    BY <1>1, StepSeen
  <1>2. CASE \/ \E p \in Procs : Fault(p)
             \/ \E p \in Procs, m \in Manifests, t \in Times : Start(p, m, t)
             \/ UNCHANGED vars
             \/ \E f \in Files, v \in Versions \cup {Damaged} : EditSource(f, v)
    BY <1>2, TreeKeptUnseen DEF Fault, Start, EditSource, vars, environment,
                                tree, links, Live
  <1>3. CASE Reboot
    BY <1>3 DEF Reboot, Restarted, Live, LinkPaths, Safe, TypeInv, TypeOK
  <1> QED BY <1>1, <1>2, <1>3 DEF Next

(***************************************************************************)
(* Until /run/secrets names another generation nothing changes in the one  *)
(* it names: a run that fails before its swap leaves the previous          *)
(* generation "still live and untouched" (apply.rs).                       *)
(***************************************************************************)
THEOREM LiveIsUntouched == Serial /\ TableReadable => (Spec => LiveUntouched)
  <1> SUFFICES ASSUME Serial, TableReadable PROVE Spec => LiveUntouched OBVIOUS
  <1>1. Safe /\ [Next]_vars =>
          (Live # None /\ boots' = boots /\ Live' = Live
             => Live \in dirs' /\ file'[Live] = file[Live])
    <2>1. Safe => boots \in Nat
      BY DEF Safe, TypeInv, TypeOK
    <2> QED BY <2>1, NextSeen DEF Unseen, Republished, Restarted
  <1> QED BY <1>1, AlwaysSafe, PTL DEF Spec, LiveUntouched

(***************************************************************************)
(* The installer implements the register of whole generations that module  *)
(* Publication describes.                                                  *)
(***************************************************************************)
THEOREM InstallerPublishesAtomically ==
  Serial /\ TableReadable => (Spec => PublishesAtomically)
  <1> SUFFICES ASSUME Serial, TableReadable PROVE Spec => PublishesAtomically OBVIOUS
  <1>1. Init => Published!Init
    BY DEF Init, Published!Init, Live, LinkPaths
  <1>2. Safe => LiveComplete
    BY NeverHidden
  <1>3. Safe /\ LiveComplete' /\ [Next]_vars => [Published!Next]_(Published!vars)
    <2> SUFFICES ASSUME Safe, LiveComplete', [Next]_vars
                 PROVE  [Published!Next]_(Published!vars)
      OBVIOUS
    <2>1. CASE Unseen
      BY <2>1 DEF Unseen, Published!vars
    <2>2. CASE Republished
      <3>1. Complete(Live)'
        BY <2>2 DEF LiveComplete, LiveWhole, Republished
      <3>2. file'[Live'] \in
              {View(m, vers) : m \in Manifests, vers \in [Files -> Versions]}
        BY <3>1 DEF Complete
      <3> QED BY <2>2, <3>2 DEF Republished, Published!Next, Published!Publish
    <2>3. CASE Restarted
      BY <2>3 DEF Restarted, Published!Next, Published!Restart
    <2> QED BY <2>1, <2>2, <2>3, NextSeen
  <1> QED BY <1>1, <1>2, <1>3, AlwaysSafe, PTL
          DEF Spec, PublishesAtomically, Published!Spec

-----------------------------------------------------------------------------
(***************************************************************************)
(* The symlink protocol, for any number of installers that may overlap and *)
(* may start in the same second.                                           *)
(***************************************************************************)
LinkInv ==
    /\ OnlyFinishedPublished
    /\ tmp[Root] # None => tmp[Root] \in finished
    /\ \A p \in Procs : pc[p] \in Linking => gen[p] \in finished

\* Wherever the links are left alone only the last entry leads to them.
LEMMA LinkInvKept ==
  ASSUME NEW p \in Procs, TypeInv, LinkInv,
         link'[Root] = link[Root] \/ link'[Root] = None,
         tmp'[Root] = tmp[Root] \/ tmp'[Root] = None,
         finished \subseteq finished', gen' = gen \/ pc'[p] \notin Linking,
         \A q \in Procs \ {p} : pc'[q] = pc[q] /\ gen'[q] = gen[q],
         pc'[p] \in Linking => pc[p] \in Linking \/ gen[p] \in finished'
  PROVE  LinkInv'
  BY DEF LinkInv, OnlyFinishedPublished, Live

LEMMA StepLinks ==
  ASSUME NEW p \in Procs, TypeInv, LinkInv,
         Step(p) \/ Fault(p) \/ \E m \in Manifests, t \in Times : Start(p, m, t)
  PROVE  LinkInv'
  <1> USE DEF Linking
  <1>1. pc \in [Procs -> Running \cup Ended] /\ gen \in [Procs -> Times \cup {None}]
        /\ link \in [LinkPaths -> Times \cup {Stable, None}]
        /\ tmp \in [LinkPaths -> Times \cup {Stable, None}] /\ Root \in LinkPaths
    BY DEF TypeInv, TypeOK, LinkPaths
  <1>2. CASE MakeGeneration(p) \/ Chmod(p)
    <2>1. \E left : AfterEntry(p, left)
      BY <1>2 DEF MakeGeneration, Chmod
    <2>2. /\ finished \subseteq finished'
          /\ \A q \in Procs \ {p} : pc'[q] = pc[q]
          /\ pc'[p] \in Linking => gen[p] \in finished'
      BY <1>1, <2>1 DEF AfterEntry, Goto
    <2> QED BY <1>2, <2>2, LinkInvKept DEF MakeGeneration, Chmod, links
  <1>3. CASE \/ EnsureSecureStorage(p) \/ StoreUnseen(p) \/ MountSecure(p)
             \/ (\E n \in Names : OpenEntry(p, n)) \/ FillEntry(p) \/ Chown(p)
             \/ ListGenerations(p) \/ \E g \in Times : RemoveReaped(p, g)
    <2>1. /\ UNCHANGED <<link, tmp, finished, gen>>
          /\ \A q \in Procs \ {p} : pc'[q] = pc[q]
      BY <1>1, <1>3 DEF EnsureSecureStorage, StoreUnseen, MountSecure, OpenEntry, FillEntry,
         Chown, ListGenerations, RemoveReaped, Goto, links, memory
    <2>2. pc'[p] \notin Linking
      BY <1>1, <1>3 DEF EnsureSecureStorage, StoreUnseen, MountSecure, OpenEntry, FillEntry,
         Chown, ListGenerations, RemoveReaped, Goto, AfterWrite
    <2> QED BY <2>1, <2>2, LinkInvKept
  <1>4. CASE \/ (\E n \in Names : CannotObtain(p, n)) \/ EntryVanished(p)
             \/ SwapCollides(p) \/ ReapEnds(p) \/ Fault(p)
    <2>1. UNCHANGED <<link, tmp, finished>>
      BY <1>4 DEF CannotObtain, EntryVanished, SwapCollides, ReapEnds,
         Fault, links
    <2>2. \E how \in Ended : End(p, how)
      BY <1>4 DEF CannotObtain, EntryVanished, SwapCollides, ReapEnds,
         Fault, Ended
    <2>3. gen' = gen /\ pc'[p] \notin Linking
          /\ \A q \in Procs \ {p} : pc'[q] = pc[q]
      BY <1>1, <2>2 DEF End, Goto, Ended
    <2> QED BY <2>1, <2>3, LinkInvKept
  <1>5. CASE \E m \in Manifests, t \in Times : Start(p, m, t)
    <2>1. UNCHANGED <<link, tmp, finished>>
      BY <1>5 DEF Start, links
    <2>2. \A q \in Procs \ {p} : pc'[q] = pc[q] /\ gen'[q] = gen[q]
      BY <1>1, <1>5 DEF Start, Goto
    <2>3. pc'[p] \notin Linking
      BY <1>1, <1>5 DEF Start, Goto
    <2> QED BY <2>1, <2>2, <2>3, LinkInvKept
  <1>6. CASE \E l \in LinkPaths : RemoveTmp(p, l)
    <2>1. /\ UNCHANGED <<link, finished, gen>> /\ pc[p] \in Linking
          /\ \A q \in Procs \ {p} : pc'[q] = pc[q]
          /\ tmp'[Root] = tmp[Root] \/ tmp'[Root] = None
      BY <1>1, <1>6 DEF RemoveTmp, Goto
    <2> QED BY <2>1, LinkInvKept
  <1>7. CASE Symlink(p)
    <2>1. /\ UNCHANGED <<link, finished, gen>> /\ pc[p] \in Linking
          /\ \A q \in Procs \ {p} : pc'[q] = pc[q]
          /\ tmp'[Root] \in {tmp[Root], gen[p]}
      BY <1>1, <1>7 DEF Symlink, Target, Goto, memory
    <2> QED BY <2>1 DEF LinkInv, OnlyFinishedPublished, Live
  <1>8. CASE Rename(p)
    <2>1. /\ UNCHANGED <<finished, gen>> /\ pc[p] \in Linking
          /\ \A q \in Procs \ {p} : pc'[q] = pc[q]
          /\ link'[Root] \in {link[Root], tmp[Root]}
          /\ tmp'[Root] \in {tmp[Root], None}
      BY <1>1, <1>8 DEF Rename, Goto
    <2> QED BY <2>1 DEF LinkInv, OnlyFinishedPublished, Live
  <1> QED BY <1>2, <1>3, <1>4, <1>5, <1>6, <1>7, <1>8 DEF Step

LEMMA NextLinkInv == TypeInv /\ LinkInv /\ [Next]_vars => LinkInv'
  <1> SUFFICES ASSUME TypeInv, LinkInv, [Next]_vars PROVE LinkInv' OBVIOUS
  <1>1. CASE \E p \in Procs :
               Step(p) \/ Fault(p)
                 \/ \E m \in Manifests, t \in Times : Start(p, m, t)
    BY <1>1, StepLinks
  <1>2. CASE \/ UNCHANGED vars
             \/ \E f \in Files, v \in Versions \cup {Damaged} : EditSource(f, v)
    BY <1>2 DEF EditSource, vars, links, memory, LinkInv,
                OnlyFinishedPublished, Live
  <1>3. CASE Reboot
    BY <1>3 DEF Reboot, LinkInv, OnlyFinishedPublished, Live, Linking, TypeInv,
                TypeOK, LinkPaths
  <1> QED BY <1>1, <1>2, <1>3 DEF Next

(***************************************************************************)
(* Also when runs overlap and race for "/run/secrets.new", whatever they   *)
(* make /run/secrets name was placed to its last entry by some run.        *)
(***************************************************************************)
THEOREM OnlyFinishedIsPublished == Spec => []OnlyFinishedPublished
  <1>1. Init => LinkInv
    BY DEF Init, LinkInv, OnlyFinishedPublished, Live, Linking, LinkPaths
  <1>2. Spec => []TypeInv
    BY InitType, NextType, PTL DEF Spec
  <1>3. LinkInv => OnlyFinishedPublished
    BY DEF LinkInv
  <1> QED BY <1>1, <1>2, <1>3, NextLinkInv, PTL DEF Spec

(***************************************************************************)
(* There is no instant without /run/secrets between two boots once there   *)
(* was one, also when runs overlap: the swap is a rename (place.rs rule 3).*)
(***************************************************************************)
THEOREM LinkIsNeverWithdrawn == Spec => LinkNeverWithdrawn
  <1>1. TypeInv /\ [Next]_vars =>
          (Live # None /\ boots' = boots => Live' # None)
    <2> SUFFICES ASSUME TypeInv, [Next]_vars, link[Root] # None, boots' = boots
                 PROVE  link'[Root] # None
      BY DEF Live
    <2>1. boots \in Nat /\ link \in [LinkPaths -> Times \cup {Stable, None}]
      BY DEF TypeInv, TypeOK
    <2>2. ~Reboot
      BY <2>1 DEF Reboot
    <2>3. ASSUME NEW p \in Procs, Rename(p) PROVE link'[Root] # None
      BY <2>1, <2>3 DEF Rename, LinkPaths
    <2>4. ASSUME NEW p \in Procs, Step(p), ~Rename(p) PROVE link' = link
      BY <2>4 DEF Step, EnsureSecureStorage, StoreUnseen, MountSecure, MakeGeneration,
         OpenEntry, CannotObtain, FillEntry, Chown, Chmod, EntryVanished,
         RemoveTmp, Symlink, SwapCollides, ListGenerations, RemoveReaped,
         ReapEnds, links
    <2> QED BY <2>2, <2>3, <2>4
            DEF Next, Fault, Start, EditSource, vars, links
  <1>2. Spec => []TypeInv
    BY InitType, NextType, PTL DEF Spec
  <1> QED BY <1>1, <1>2, PTL DEF Spec, LinkNeverWithdrawn

-----------------------------------------------------------------------------
(***************************************************************************)
(* Counting generations.                                                   *)
(***************************************************************************)
LEMMA TimesAreFinite == \A S \in SUBSET Times :
                          IsFiniteSet(S) /\ Cardinality(S) \in Nat
  <1>1. IsFiniteSet(Times)
    BY FS_Interval, InstallerAssumption DEF Times
  <1> QED BY <1>1, FS_Subset, FS_CardinalityType

\* What Doomed spares: at most "keep" generations.
LEMMA DoomedLeaves ==
  ASSUME NEW S \in SUBSET Times, NEW k \in Nat
  PROVE  Cardinality(S \ Doomed(S, k)) <= k
  <1> DEFINE kept     == S \ Doomed(S, k)
             newer(g) == {h \in S : h > g}
  <1>1. Times \subseteq Nat
    BY InstallerAssumption DEF Times
  <1>2. \A g \in kept : Cardinality(newer(g)) < k
    <2>1. \A g \in S : newer(g) \in SUBSET Times
      OBVIOUS
    <2>2. \A g \in S : Cardinality(newer(g)) \in Nat
      BY <2>1, TimesAreFinite
    <2> QED BY <2>2 DEF Doomed
  <1>3. CASE kept = {}
    BY <1>3, FS_EmptySet
  <1>4. CASE kept # {}
    <2>1. PICK m \in kept : \A x \in kept : m <= x
      BY <1>1, <1>4, LeastOf
    <2>2. kept \ {m} \subseteq newer(m)
      <3> SUFFICES ASSUME NEW x \in kept, x # m PROVE x > m
        OBVIOUS
      <3>1. x \in Nat /\ m \in Nat /\ m <= x
        BY <1>1, <2>1
      <3> QED BY <3>1
    <2>3. kept \in SUBSET Times /\ newer(m) \in SUBSET Times
      OBVIOUS
    <2>4. Cardinality(kept \ {m}) <= Cardinality(newer(m))
      BY <2>2, <2>3, TimesAreFinite, FS_Subset
    <2>5. Cardinality(kept \ {m}) = Cardinality(kept) - 1
      BY <2>1, <2>3, TimesAreFinite, FS_RemoveElement
    <2>6. Cardinality(kept) \in Nat /\ Cardinality(newer(m)) \in Nat
      BY <2>3, TimesAreFinite
    <2>7. Cardinality(newer(m)) < k
      BY <1>2, <2>1
    <2> HIDE DEF kept, newer
    <2>8. Cardinality(kept) <= k
      BY <2>4, <2>5, <2>6, <2>7
    <2> QED BY <2>8 DEF kept
  <1> QED BY <1>3, <1>4

-----------------------------------------------------------------------------
(***************************************************************************)
(* What a run that reaps still owes: once the list is made, the            *)
(* generations that are neither live nor listed are within the budget, and *)
(* the generation it published stays as it was placed.                     *)
(***************************************************************************)
Spares(p) == dirs \ {gen[p]}

BudgetOK(p) ==
    /\ pc[p] = "sweep"
         => Cardinality(Spares(p) \ doomed[p]) <= Keep(man[p])
    /\ pc[p] = "published" => Cardinality(Spares(p)) <= Keep(man[p])

StaysPlaced(p) ==
    pc[p] \in Reaping
      => \A x \in Entries(man[p]) : Placed(gen[p], man[p], cache[p], x)

Reaps == \A p \in Procs : BudgetOK(p) /\ StaysPlaced(p)

LEMMA InitReaps == Init => Reaps
  BY DEF Init, Reaps, BudgetOK, StaysPlaced, Reaping

\* Every other action leads to where nothing is owed.
LEMMA NothingOwed ==
  ASSUME NEW p \in Procs, pc'[p] \notin Reaping \cup {"published"}
  PROVE  BudgetOK(p)' /\ StaysPlaced(p)'
  BY DEF BudgetOK, StaysPlaced, Reaping

LEMMA PlacingOwesNothing ==
  ASSUME NEW p \in Procs, Safe,
         \/ EnsureSecureStorage(p) \/ StoreUnseen(p) \/ MountSecure(p) \/ MakeGeneration(p)
         \/ \E n \in Names : OpenEntry(p, n) \/ CannotObtain(p, n)
         \/ FillEntry(p) \/ Chown(p) \/ Chmod(p)
         \/ \E l \in LinkPaths : RemoveTmp(p, l)
         \/ Symlink(p) \/ Fault(p)
         \/ \E m \in Manifests, t \in Times : Start(p, m, t)
  PROVE  BudgetOK(p)' /\ StaysPlaced(p)'
  <1>1. pc \in [Procs -> Running \cup Ended]
    BY DEF Safe, TypeInv, TypeOK
  <1>2. CASE \/ EnsureSecureStorage(p) \/ StoreUnseen(p) \/ MountSecure(p)
             \/ \E n \in Names : OpenEntry(p, n) \/ CannotObtain(p, n)
             \/ FillEntry(p) \/ Chown(p)
    BY <1>1, <1>2, NothingOwed
       DEF EnsureSecureStorage, StoreUnseen, MountSecure, OpenEntry, CannotObtain, FillEntry,
           AfterWrite, Chown, End, Goto, Reaping
  <1>3. CASE MakeGeneration(p) \/ Chmod(p)
    BY <1>1, <1>3, NothingOwed DEF MakeGeneration, Chmod, AfterEntry, Goto, Reaping
  <1>4. CASE \/ \E l \in LinkPaths : RemoveTmp(p, l)
             \/ Symlink(p) \/ Fault(p)
             \/ \E m \in Manifests, t \in Times : Start(p, m, t)
    BY <1>1, <1>4, NothingOwed
       DEF RemoveTmp, Symlink, Fault, Start, End, Goto, Reaping
  <1> QED BY <1>2, <1>3, <1>4

LEMMA RenameReaps ==
  ASSUME NEW p \in Procs, Safe, Rename(p)
  PROVE  BudgetOK(p)' /\ StaysPlaced(p)'
  <1>1. pc[p] = "rename" /\ pc'[p] \in {"reap", "link"}
    BY DEF Rename, Goto, Safe, TypeInv, TypeOK
  <1>2. \A x \in Entries(man[p]) : Placed(gen[p], man[p], cache[p], x)
    BY <1>1 DEF Safe, RunOK, Building, Linking
  <1>3. UNCHANGED <<man, gen, cache, file>>
    BY DEF Rename, tree
  <1> QED BY <1>1, <1>2, <1>3 DEF BudgetOK, StaysPlaced, Placed

LEMMA ListGenerationsReaps ==
  ASSUME NEW p \in Procs, Safe, Reaps, ListGenerations(p)
  PROVE  BudgetOK(p)' /\ StaysPlaced(p)'
  <1> DEFINE S == Spares(p)
  <1>1. /\ pc[p] = "reap" /\ pc'[p] = "sweep"
        /\ doomed'[p] = Doomed(S, Keep(man[p]))
        /\ UNCHANGED <<man, gen, cache, dirs, file>>
    BY DEF ListGenerations, Goto, Safe, TypeInv, TypeOK, tree, Spares
  <1>2. S \in SUBSET Times
    BY DEF Safe, TypeInv, TypeOK, Spares
  <1>3. Keep(man[p]) \in Nat
    BY <1>1, RunIsSet, PlanAssumption DEF Safe, Running, Reaping
  <1>4. Cardinality(S \ Doomed(S, Keep(man[p]))) <= Keep(man[p])
    BY <1>2, <1>3, DoomedLeaves
  <1>5. BudgetOK(p)'
    BY <1>1, <1>4 DEF BudgetOK, Spares
  <1>6. StaysPlaced(p)'
    BY <1>1 DEF Reaps, StaysPlaced, Placed, Reaping
  <1> QED BY <1>5, <1>6

LEMMA RemoveReapedReaps ==
  ASSUME NEW p \in Procs, NEW g \in Times, Safe, Reaps, RemoveReaped(p, g)
  PROVE  BudgetOK(p)' /\ StaysPlaced(p)'
  <1>1. /\ pc[p] = "sweep" /\ pc' = pc /\ g \in doomed[p] /\ dirs' = dirs \ {g}
        /\ doomed'[p] = doomed[p] \ {g}
        /\ UNCHANGED <<man, gen, cache>>
    BY DEF RemoveReaped, Safe, TypeInv, TypeOK
  <1>2. (Spares(p) \ doomed[p])' = Spares(p) \ doomed[p]
    BY <1>1 DEF Spares
  <1>3. BudgetOK(p)'
    BY <1>1, <1>2 DEF Reaps, BudgetOK
  <1>4. gen[p] # g
    BY <1>1 DEF Safe, RunOK, Reaped
  <1>5. file'[gen[p]] = file[gen[p]]
    BY <1>1, <1>4, RunIsSet
       DEF RemoveReaped, Safe, TypeInv, TypeOK, Running, Reaping
  <1>6. StaysPlaced(p)'
    BY <1>1, <1>5 DEF Reaps, StaysPlaced, Placed, Reaping
  <1> QED BY <1>3, <1>6

LEMMA ReapEndsReaps ==
  ASSUME NEW p \in Procs, Safe, Reaps, ReapEnds(p)
  PROVE  BudgetOK(p)' /\ StaysPlaced(p)'
  <1>1. /\ pc[p] = "sweep" /\ pc'[p] \in {"published", "unreaped"}
        /\ pc'[p] = "published" => doomed[p] = {}
        /\ UNCHANGED <<man, gen, dirs>>
    BY DEF ReapEnds, End, Goto, Safe, TypeInv, TypeOK, tree
  <1>2. doomed[p] = {} => Spares(p) \ doomed[p] = Spares(p)
    OBVIOUS
  <1>3. BudgetOK(p)'
    BY <1>1, <1>2 DEF Reaps, BudgetOK, Spares
  <1> QED BY <1>1, <1>3 DEF StaysPlaced, Reaping

LEMMA NextReaps == Serial /\ Safe /\ Reaps /\ [Next]_vars => Reaps'
  <1> SUFFICES ASSUME Serial, Safe, Reaps, [Next]_vars PROVE Reaps' OBVIOUS
  <1>1. CASE \/ UNCHANGED vars
             \/ \E f \in Files, v \in Versions \cup {Damaged} : EditSource(f, v)
    BY <1>1 DEF vars, EditSource, tree, memory, Reaps, BudgetOK, Spares,
                StaysPlaced, Placed
  <1>2. CASE Reboot
    BY <1>2, NothingOwed DEF Reboot, Reaps, Reaping
  <1>3. CASE \E p \in Procs : \/ Step(p) \/ Fault(p)
                              \/ \E m \in Manifests, t \in Times : Start(p, m, t)
    <2>1. PICK p \in Procs : \/ Step(p) \/ Fault(p)
                             \/ \E m \in Manifests, t \in Times : Start(p, m, t)
      BY <1>3
    <2>2. BudgetOK(p)' /\ StaysPlaced(p)'
      BY <2>1, PlacingOwesNothing, RenameReaps, ListGenerationsReaps,
         RemoveReapedReaps, ReapEndsReaps, NothingVanishes DEF Step
    <2>3. \A q \in Procs : q = p
      BY DEF Serial, SingleRun
    <2> QED BY <2>2, <2>3 DEF Reaps
  <1> QED BY <1>1, <1>2, <1>3 DEF Next

LEMMA AlwaysReaps == Serial => (Spec => [](Safe /\ Reaps))
  <1> SUFFICES ASSUME Serial PROVE Spec => [](Safe /\ Reaps) OBVIOUS
  <1>1. Safe /\ Reaps /\ [Next]_vars => Safe' /\ Reaps'
    BY NextSafe, NextReaps
  <1> QED BY <1>1, InitSafe, InitReaps, PTL DEF Spec

(***************************************************************************)
(* A run that reports success is what /run/secrets names, and when its     *)
(* reaping was not cut short at most keepGenerations others are left,      *)
(* whatever the failed and killed runs before it left behind.              *)
(***************************************************************************)
THEOREM ReapingMeetsBudget == Serial => (Spec => []PublishedWithinBudget)
  <1> SUFFICES ASSUME Serial PROVE Spec => []PublishedWithinBudget OBVIOUS
  <1>1. Safe /\ Reaps => PublishedWithinBudget
    BY DEF Safe, RunOK, Reaped, Reaps, BudgetOK, Spares, PublishedWithinBudget
  <1> QED BY <1>1, AlwaysReaps, PTL

-----------------------------------------------------------------------------
(***************************************************************************)
(* The entries of a generation.                                            *)
(***************************************************************************)
\* A declared body is content: it is not the empty file a run opens.
LEMMA BodyIsNotEmpty ==
  ASSUME NEW m \in Manifests, NEW n \in Entries(m),
         NEW c \in [Files -> Versions \cup {None}], Cached(m, c, n)
  PROVE  Body(m, c, n) # Empty
  BY BodyIsContent, ContentsApart

(***************************************************************************)
(* Create restrictive, then widen: whatever instant a run fails or is      *)
(* killed at, no entry has its declared mode before its owner and content. *)
(***************************************************************************)
THEOREM EntriesAreWidenedLast == Serial => (Spec => []WidenedLast)
  <1> SUFFICES ASSUME Serial PROVE Spec => []WidenedLast OBVIOUS
  <1>1. Safe /\ Reaps => WidenedLast
    <2> SUFFICES ASSUME Safe, Reaps, NEW p \in Procs, pc[p] \in Running,
                        gen[p] \in dirs, NEW n \in Entries(man[p]),
                        file[gen[p]][n] # None,
                        file[gen[p]][n].mode # CreateMode
                 PROVE  /\ file[gen[p]][n].owner = OwnerOf(man[p], n)
                        /\ file[gen[p]][n].data # Empty
      BY DEF WidenedLast
    <2> DEFINE m == man[p]
               c == cache[p]
               d == file[gen[p]][n]
    <2>1. m \in Manifests /\ c \in [Files -> Versions \cup {None}]
      BY RunIsSet DEF Safe, TypeInv, TypeOK
    <2>2. pc[p] \in Placing \cup Linking \cup Reaping
      BY DEF Safe, RunOK, Starting, Running
    <2>3. Placed(gen[p], m, c, n) \/ \E b, o : d = Narrow(b, o)
      <3>1. CASE pc[p] \in Reaping
        BY <3>1 DEF Reaps, StaysPlaced
      <3>2. CASE pc[p] \in Linking
        BY <3>2 DEF Safe, RunOK, Building
      <3>3. CASE pc[p] \in Placing
        BY <3>3 DEF Safe, RunOK, Building, Placing, Bare
      <3> QED BY <2>2, <3>1, <3>2, <3>3
    <2>4. Placed(gen[p], m, c, n)
      <3>1. \A b, o : Narrow(b, o).mode = CreateMode
        BY DEF Narrow
      <3> QED BY <2>3, <3>1
    <2> QED BY <2>1, <2>4, BodyIsNotEmpty DEF Placed, Declared
  <1> QED BY <1>1, AlwaysReaps, PTL

-----------------------------------------------------------------------------
(***************************************************************************)
(* One decryption per file and run.                                        *)
(***************************************************************************)
\* Every plaintext of entry n of generation g is from cache c.
FromCache(g, c, n) == \A a \in PlaintextsIn(file[g][n]) : a.ver = c[a.file]

LEMMA DeclaredIsFromCache ==
  ASSUME NEW m \in Manifests, NEW n \in Entries(m),
         NEW c \in [Files -> Versions \cup {None}], Cached(m, c, n),
         NEW d, d.data = Body(m, c, n)
  PROVE  \A a \in PlaintextsIn(d) : a.ver = c[a.file]
  <1>1. \A s : Plain(m, c, s).ver = c[Plain(m, c, s).file]
    BY DEF Plain
  <1>2. CASE n \in Secrets
    <2>1. Body(m, c, n) \in Plaintexts
      BY <1>2, BodyIsContent
    <2>2. \A a \in PlaintextsIn(d) : a = Plain(m, c, n)
      BY <1>2, <2>1 DEF PlaintextsIn, Body
    <2> QED BY <1>1, <2>2
  <1>3. CASE n \notin Secrets
    <2>1. Body(m, c, n) \notin Plaintexts
      BY <1>3, BodyIsContent, ContentsApart
    <2>2. Body(m, c, n) = [r \in Decl(m, n).refs |-> Plain(m, c, r)]
      BY <1>3 DEF Body
    <2>3. \A a \in PlaintextsIn(d) : \E r \in Decl(m, n).refs : a = Plain(m, c, r)
      BY <2>1, <2>2 DEF PlaintextsIn
    <2> QED BY <1>1, <2>3
  <1> QED BY <1>2, <1>3

\* All that a run has placed is from its own cache.
LEMMA BuildingIsFromCache ==
  ASSUME NEW p \in Procs, Safe, pc[p] \in Placing \cup Linking, NEW n \in Names
  PROVE  FromCache(gen[p], cache[p], n)
  <1> DEFINE g == gen[p]
             m == man[p]
             c == cache[p]
  <1>1. m \in Manifests /\ c \in [Files -> Versions \cup {None}]
    BY RunIsSet DEF Safe, TypeInv, TypeOK, Running
  <1>2. CASE file[g][n] = None
    BY <1>2 DEF FromCache, PlaintextsIn
  <1>3. CASE file[g][n] = Bare(Empty)
    <2>1. Bare(Empty).data = Empty
      BY DEF Bare, Narrow
    <2> QED BY <1>3, <2>1 DEF FromCache, PlaintextsIn
  <1>4. CASE n \in Entries(m) /\ Cached(m, c, n)
             /\ file[g][n].data = Body(m, c, n)
    BY <1>1, <1>4, DeclaredIsFromCache DEF FromCache
  <1>5. \/ file[g][n] = None \/ file[g][n] = Bare(Empty)
        \/ n \in Entries(m) /\ Cached(m, c, n) /\ file[g][n].data = Body(m, c, n)
    <2>1. CASE n \notin Entries(m)
      BY <2>1 DEF Safe, RunOK, Building
    <2>2. CASE n \in Entries(m) /\ Placed(g, m, c, n)
      BY <2>2 DEF Placed, Declared
    <2>3. CASE n \in Entries(m) /\ ~Placed(g, m, c, n)
      <3>1. pc[p] \in Placing /\ n \in todo[p]
        BY <2>3 DEF Safe, RunOK, Building
      <3>2. CASE pc[p] = "place" \/ n # cur[p]
        BY <3>1, <3>2 DEF Safe, RunOK, Building, Placing
      <3>3. CASE pc[p] = "fill" /\ n = cur[p]
        BY <3>3 DEF Safe, RunOK, Building
      <3>4. CASE pc[p] \in {"chown", "chmod"} /\ n = cur[p]
        <4>1. Cached(m, c, n)
              /\ \E o : file[g][n] = Narrow(Body(m, c, n), o)
          BY <3>4 DEF Safe, RunOK, Building, Bare
        <4>2. \A b, o : Narrow(b, o).data = b
          BY DEF Narrow
        <4> QED BY <2>3, <4>1, <4>2
      <3> QED BY <3>1, <3>2, <3>3, <3>4 DEF Placing
    <2> QED BY <2>1, <2>2, <2>3
  <1> QED BY <1>2, <1>3, <1>4, <1>5

BuiltFromCache ==
    \A p \in Procs : pc[p] \in Placing \cup Linking
      => \A n \in Names : FromCache(gen[p], cache[p], n)

\* A generation after a step: as it was, or the one a run is building.
LEMMA GenerationsAfter ==
  ASSUME Serial, Safe, [Next]_vars, NEW g \in dirs'
  PROVE  \/ g \in dirs /\ file'[g] = file[g]
         \/ \E p \in Procs : g = gen'[p] /\ pc'[p] \in Placing \cup Linking
  <1>1. TypeOK
    BY DEF Safe, TypeInv
  <1>2. CASE UNCHANGED <<dirs, file>>
    BY <1>2
  <1>3. CASE Reboot \/ \E p \in Procs : MountSecure(p)
    BY <1>3 DEF Reboot, MountSecure
  <1>4. ASSUME NEW p \in Procs, MakeGeneration(p)
        PROVE  \/ g \in dirs /\ file'[g] = file[g]
               \/ g = gen'[p] /\ pc'[p] \in Placing \cup Linking
    BY <1>1, <1>4 DEF MakeGeneration, AfterEntry, Goto, TypeOK, Placing, Linking
  <1>5. ASSUME NEW p \in Procs,
               \/ \E n \in Names : OpenEntry(p, n)
               \/ FillEntry(p) \/ Chown(p) \/ Chmod(p)
        PROVE  \/ g \in dirs /\ file'[g] = file[g]
               \/ g = gen'[p] /\ pc'[p] \in Placing \cup Linking
    <2>1. gen' = gen /\ pc'[p] \in Placing \cup Linking
      BY <1>1, <1>5 DEF OpenEntry, FillEntry, AfterWrite, Chown, Chmod, AfterEntry,
         Goto, memory, TypeOK, Placing, Linking
    <2>2. dirs' \subseteq dirs \cup {gen[p]}
      BY <1>5 DEF OpenEntry, FillEntry, Chown, Chmod
    <2>3. g # gen[p] => g \in Times /\ file'[g] = file[g]
      <3>1. g # gen[p] => g \in Times
        BY <1>1, <2>2 DEF TypeOK
      <3>2. CASE \E n \in Names : OpenEntry(p, n)
        BY <1>1, <3>1, <3>2 DEF OpenEntry, TypeOK
      <3>3. CASE FillEntry(p)
        BY <1>1, <3>1, <3>3 DEF FillEntry, TypeOK
      <3>4. CASE Chown(p)
        BY <1>1, <3>1, <3>4 DEF Chown, TypeOK
      <3>5. CASE Chmod(p)
        BY <1>1, <3>1, <3>5 DEF Chmod, TypeOK
      <3> QED BY <1>5, <3>1, <3>2, <3>3, <3>4, <3>5
    <2> QED BY <2>1, <2>2, <2>3
  <1>6. ASSUME NEW p \in Procs, NEW h \in Times, RemoveReaped(p, h)
        PROVE  g \in dirs /\ file'[g] = file[g]
    BY <1>1, <1>6 DEF RemoveReaped, TypeOK
  <1>7. \/ UNCHANGED <<dirs, file>>
        \/ Reboot \/ \E p \in Procs : MountSecure(p)
        \/ \E p \in Procs :
             \/ MakeGeneration(p) \/ \E n \in Names : OpenEntry(p, n)
             \/ FillEntry(p) \/ Chown(p) \/ Chmod(p)
             \/ \E h \in Times : RemoveReaped(p, h)
    <2>1. CASE \E p \in Procs : Step(p)
      BY <2>1 DEF Step, EnsureSecureStorage, StoreUnseen, CannotObtain, EntryVanished,
         RemoveTmp, Symlink, Rename, SwapCollides, ListGenerations, ReapEnds, tree
    <2>2. CASE \/ \E p \in Procs : Fault(p)
               \/ \E p \in Procs, m \in Manifests, t \in Times : Start(p, m, t)
               \/ UNCHANGED vars \/ Reboot
               \/ \E f \in Files, v \in Versions \cup {Damaged} : EditSource(f, v)
      BY <2>2 DEF Fault, Start, EditSource, vars, tree
    <2> QED BY <2>1, <2>2 DEF Next
  <1> QED BY <1>2, <1>3, <1>4, <1>5, <1>6, <1>7

LEMMA NextOneDecryption ==
  ASSUME Serial, Safe, BuiltFromCache', OneDecryptionPerFile, [Next]_vars
  PROVE  OneDecryptionPerFile'
  <1> DEFINE held(g) == UNION {PlaintextsIn(file[g][n]) : n \in Names}
  <1> SUFFICES ASSUME NEW g \in dirs', NEW a \in held(g)', NEW b \in held(g)',
                      a.file = b.file
               PROVE  a.ver = b.ver
    BY DEF OneDecryptionPerFile
  <1>1. CASE g \in dirs /\ file'[g] = file[g]
    <2>1. held(g)' = held(g)
      BY <1>1
    <2> QED BY <1>1, <2>1 DEF OneDecryptionPerFile
  <1>2. CASE \E p \in Procs : g = gen'[p] /\ pc'[p] \in Placing \cup Linking
    <2>1. PICK p \in Procs : g = gen'[p] /\ pc'[p] \in Placing \cup Linking
      BY <1>2
    <2>2. \A n \in Names : FromCache(gen[p], cache[p], n)'
      BY <2>1 DEF BuiltFromCache
    <2>3. a.ver = cache'[p][a.file] /\ b.ver = cache'[p][b.file]
      BY <2>1, <2>2 DEF FromCache
    <2> QED BY <2>3
  <1> QED BY <1>1, <1>2, GenerationsAfter

(***************************************************************************)
(* In every generation, live, spare or half-placed: all that comes from    *)
(* one sops file comes from one decryption of it, whatever is done to the  *)
(* file while the run is under way (SuminuriDecryptor's cache).            *)
(***************************************************************************)
THEOREM FilesAreDecryptedOnce == Serial => (Spec => []OneDecryptionPerFile)
  <1> SUFFICES ASSUME Serial PROVE Spec => []OneDecryptionPerFile OBVIOUS
  <1>1. Init => OneDecryptionPerFile
    BY DEF Init, OneDecryptionPerFile
  <1>2. Safe => BuiltFromCache
    BY BuildingIsFromCache DEF BuiltFromCache
  <1>3. Safe /\ BuiltFromCache' /\ OneDecryptionPerFile /\ [Next]_vars
          => OneDecryptionPerFile'
    BY NextOneDecryption
  <1> QED BY <1>1, <1>2, <1>3, AlwaysSafe, PTL DEF Spec

=============================================================================
