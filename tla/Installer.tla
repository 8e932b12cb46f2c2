------------------------------ MODULE Installer ------------------------------
(***************************************************************************)
(* suminuri-install-secrets at run time: runs of the installer (apply.rs)  *)
(* executing their plan one system call at a time (real.rs) on the mount   *)
(* point, the generation directories and the symlinks they share with      *)
(* every other run and with the readers of /run/secrets.                   *)
(***************************************************************************)
EXTENDS InstallPlan

CONSTANTS
    Procs,          \* installers that may run at the same time
    MaxTime,        \* bound: the seconds the wall clock may show
    SameSecond,     \* may two runs see the same second?
    Versions,       \* plaintext versions of a sops file
    Damaged,        \* a sops file that is unreadable or fails its MAC
    MaxEdits,       \* bound: changes of the sops files
    MaxFaults,      \* bound: failing system calls and killed runs
    MaxBoots,       \* bound: reboots
    MaxBlind,       \* bound: stores not seen, the mount table being unreadable
    Empty           \* the content of a file opened and not yet written

Times == 1..MaxTime

ASSUME InstallerAssumption ==
    /\ MaxTime \in Nat \ {0}
    /\ SameSecond \in BOOLEAN
    /\ MaxEdits \in Nat /\ MaxFaults \in Nat /\ MaxBoots \in Nat
    /\ MaxBlind \in Nat
    /\ None \notin Versions \cup {Damaged} \cup Times
    /\ Damaged \notin Versions
    /\ Versions # {}

VARIABLES
    boots, faults, edits,   \* the environment
    blind,      \* since the last boot: stores a run did not see
    source,     \* source[f]: the version of sops file f, or Damaged
    mounts,     \* stores mounted, one over the other, on the mount point
    dirs,       \* generation directories visible on the mount point
    file,       \* file[g][n]: entry n of generation g, or None
    link,       \* link[l]: what symlink l names, or None
    tmp,        \* tmp[l]: what "l.new" names, or None
    pc, man, gen, todo, cur, cache, values, doomed,   \* one run's memory
    finished    \* history: generations some run placed to the last entry

environment == <<boots, faults, edits, blind, source>>
tree        == <<mounts, dirs, file>>
links       == <<link, tmp>>
memory      == <<man, gen, todo, cur, cache, values, doomed>>
vars        == <<environment, tree, links, pc, memory, finished>>

(***************************************************************************)
(* Contents.  A plaintext is identified by where it was read and at which  *)
(* version; a template's body by the plaintext under each reference.       *)
(***************************************************************************)
Plain(m, vers, s) == [file |-> Decl(m, s).file, key |-> Decl(m, s).key,
                      ver  |-> vers[Decl(m, s).file]]

Body(m, vers, n) == IF n \in Secrets
                    THEN Plain(m, vers, n)
                    ELSE [r \in Decl(m, n).refs |-> Plain(m, vers, r)]

OwnerOf(m, n) == IF UserMode THEN Creator ELSE Decl(m, n).owner

\* The file an entry is declared to be, and a whole generation of them.
Declared(m, vers, n) == [data  |-> Body(m, vers, n), owner |-> OwnerOf(m, n),
                         mode  |-> Decl(m, n).mode]

View(m, vers) == [n \in Names |-> IF n \in Entries(m)
                                  THEN Declared(m, vers, n) ELSE None]

NoFiles   == [n \in Names |-> None]
Live      == link[Root]
Target(p, l) == IF l = Root THEN gen[p] ELSE Stable

Placing == {"place", "fill", "chown", "chmod"}
Linking == {"link", "symlink", "rename"}
Reaping == {"reap", "sweep"}
Running == {"ensure", "mount", "mkgen"} \cup Placing \cup Linking \cup Reaping
Ended   == {"idle", "published", "unreaped", "failed", "blocked"}

Goto(p, where) == pc' = [pc EXCEPT ![p] = where]

\* The run's process exits; its memory goes with it.
End(p, how) ==
    /\ Goto(p, how)
    /\ todo'   = [todo   EXCEPT ![p] = {}]
    /\ cur'    = [cur    EXCEPT ![p] = None]
    /\ cache'  = [cache  EXCEPT ![p] = [f \in Files |-> None]]
    /\ values' = [values EXCEPT ![p] = [k \in Keys |-> None]]
    /\ doomed' = [doomed EXCEPT ![p] = {}]
    /\ UNCHANGED <<man, gen>>

(***************************************************************************)
(* entry::run: the generation number is the second the wall clock shows,   *)
(* any one, for the clock may have been set back since the last run.       *)
(* Unless SameSecond, no run meets a second of which there is a generation *)
(* (or which /run/secrets names, its store hidden) or another run.         *)
(***************************************************************************)
Fresh(t) == /\ t \notin dirs \cup {Live}
            /\ \A q \in Procs : pc[q] \in Running => gen[q] # t

Start(p, m, t) ==
    /\ pc[p] \in Ended
    /\ SameSecond \/ Fresh(t)
    /\ man' = [man EXCEPT ![p] = m]
    /\ gen' = [gen EXCEPT ![p] = t]
    /\ Goto(p, IF Plannable(m) THEN "ensure" ELSE "failed")
    /\ UNCHANGED <<environment, tree, links, todo, cur, cache, values, doomed,
                   finished>>

(***************************************************************************)
(* RealFs::ensure_secure_storage: look at the mount table, then mount.  A  *)
(* mount hides what the mount point held.  A table that cannot be read is  *)
(* taken for one without the store: already_secure returns false, and the  *)
(* run goes on to mount a second store over the first.                     *)
(***************************************************************************)
\* Mutant: the mount table is not looked at.
AlreadySecureUnchecked == FALSE

\* What a mount table that could be read says.
AlreadySecure == mounts > 0

EnsureSecureStorage(p) ==
    /\ pc[p] = "ensure"
    /\ Goto(p, IF AlreadySecure \/ UserMode THEN "mkgen" ELSE "mount")
    /\ UNCHANGED <<environment, tree, links, memory, finished>>

\* There is a store and the mount table cannot be read.
StoreUnseen(p) ==
    /\ pc[p] = "ensure"
    /\ ~UserMode /\ mounts > 0
    /\ blind < MaxBlind
    /\ blind' = blind + 1
    /\ Goto(p, "mount")
    /\ UNCHANGED <<boots, faults, edits, source, tree, links, memory, finished>>

MountSecure(p) ==
    /\ pc[p] = "mount"
    /\ mounts' = mounts + 1
    /\ dirs' = {}
    /\ file' = [g \in Times |-> NoFiles]
    /\ Goto(p, "mkgen")
    /\ UNCHANGED <<environment, links, memory, finished>>

\* Mutants: publish before the templates; publish after the users' pass.
AfterEntryUntemplated(p, left) ==
    IF left \ Templates # {}
    THEN /\ Goto(p, "place")
         /\ todo' = [todo EXCEPT ![p] = left]
         /\ UNCHANGED finished
    ELSE /\ Goto(p, "link")
         /\ todo' = [todo EXCEPT ![p] = LinksOf(man[p])]
         /\ finished' = finished \cup {gen[p]}

AfterEntryUsersOnly(p, left) ==
    IF left \cap UserPass(man[p]) # {}
    THEN /\ Goto(p, "place")
         /\ todo' = [todo EXCEPT ![p] = left]
         /\ UNCHANGED finished
    ELSE /\ Goto(p, "link")
         /\ todo' = [todo EXCEPT ![p] = LinksOf(man[p])]
         /\ finished' = finished \cup {gen[p]}

\* Where a run goes when "left" entries are still to be placed.
AfterEntry(p, left) ==
    IF left # {}
    THEN /\ Goto(p, "place")
         /\ todo' = [todo EXCEPT ![p] = left]
         /\ UNCHANGED finished
    ELSE /\ Goto(p, "link")
         /\ todo' = [todo EXCEPT ![p] = LinksOf(man[p])]
         /\ finished' = finished \cup {gen[p]}

\* Mutant: the links come before the entries.
MakeGenerationLinked(p) ==
    /\ pc[p] = "mkgen"
    /\ dirs' = dirs \cup {gen[p]}
    /\ Goto(p, "link")
    /\ todo' = [todo EXCEPT ![p] = LinksOf(man[p])]
    /\ UNCHANGED <<environment, mounts, file, links, man, gen, cur, cache,
                   values, doomed, finished>>

MakeGeneration(p) ==
    /\ pc[p] = "mkgen"
    /\ dirs' = dirs \cup {gen[p]}
    /\ AfterEntry(p, Entries(man[p]))
    /\ UNCHANGED <<environment, mounts, file, links, man, gen, cur, cache,
                   values, doomed>>

(***************************************************************************)
(* SuminuriDecryptor::extract: one decrypted, MAC-verified tree per file   *)
(* and run.                                                                *)
(***************************************************************************)
\* Mutant: every entry is decrypted from the file as it is now.
VersionReadUncached(p, f) == source[f]

VersionRead(p, f) == IF cache[p][f] # None THEN cache[p][f] ELSE source[f]

\* Mutant: a failed MAC check is not an error.
DecryptsUnverified(p, s) == Decl(man[p], s).key \in KeysIn[Decl(man[p], s).file]

Decrypts(p, s) == LET d == Decl(man[p], s) IN
    /\ VersionRead(p, d.file) # Damaged
    /\ d.key \in KeysIn[d.file]

\* apply's check of the references, then template::render's final sweep.
Renders(p, t) == LET d == Decl(man[p], t) IN
    /\ \A r \in d.refs : values[p][r] # None
    /\ ~d.stray

Obtains(p, n) == IF n \in Secrets THEN Decrypts(p, n) ELSE Renders(p, n)

\* What the run holds in memory for entry n once it has obtained it.
Obtained(p, n) == IF n \in Secrets
                  THEN Plain(man[p], cache[p], n)
                  ELSE [r \in Decl(man[p], n).refs |-> values[p][r]]

(***************************************************************************)
(* Step::Write and Step::RenderTemplate.  The content is obtained first;   *)
(* write_restrictive then recreates missing parents, opens with truncation *)
(* (owner and mode only apply to a file that did not exist) and writes.    *)
(***************************************************************************)
OpenEntry(p, n) ==
    /\ pc[p] = "place"
    /\ n \in NextEntries(man[p], todo[p])
    /\ Obtains(p, n)
    /\ cache' = IF n \in Secrets
                THEN LET f == Decl(man[p], n).file
                     IN [cache EXCEPT ![p][f] = VersionRead(p, f)]
                ELSE cache
    /\ dirs' = dirs \cup {gen[p]}
    /\ file' = [file EXCEPT ![gen[p]][n] =
                    IF @ = None
                    THEN [data |-> Empty, owner |-> Creator, mode |-> CreateMode]
                    ELSE [@ EXCEPT !.data = Empty]]
    /\ cur' = [cur EXCEPT ![p] = n]
    /\ Goto(p, "fill")
    /\ UNCHANGED <<environment, mounts, links, man, gen, todo, values, doomed,
                   finished>>

CannotObtain(p, n) ==
    /\ pc[p] = "place"
    /\ n \in NextEntries(man[p], todo[p])
    /\ ~Obtains(p, n)
    /\ End(p, "failed")
    /\ UNCHANGED <<environment, tree, links, finished>>

\* Mutant: the mode is widened without the ownership.
AfterWriteUnowned == "chmod"

\* In user mode the plan has no chown (place::steps_for).
AfterWrite == IF UserMode THEN "chmod" ELSE "chown"

\* write_all reaches the open file even if its name has been removed since.
FillEntry(p) == LET n == cur[p] IN
    /\ pc[p] = "fill"
    /\ file' = IF file[gen[p]][n] = None
               THEN file
               ELSE [file EXCEPT ![gen[p]][n].data = Obtained(p, n)]
    /\ values' = IF n \in Secrets
                 THEN [values EXCEPT ![p][Decl(man[p], n).key] = Obtained(p, n)]
                 ELSE values
    /\ Goto(p, AfterWrite)
    /\ UNCHANGED <<environment, mounts, dirs, links, man, gen, todo, cur, cache,
                   doomed, finished>>

Chown(p) == LET n == cur[p] IN
    /\ pc[p] = "chown"
    /\ file[gen[p]][n] # None
    /\ file' = [file EXCEPT ![gen[p]][n].owner = Decl(man[p], n).owner]
    /\ Goto(p, "chmod")
    /\ UNCHANGED <<environment, mounts, dirs, links, memory, finished>>

Chmod(p) == LET n == cur[p] IN
    /\ pc[p] = "chmod"
    /\ file[gen[p]][n] # None
    /\ file' = [file EXCEPT ![gen[p]][n].mode = Decl(man[p], n).mode]
    /\ AfterEntry(p, todo[p] \ {n})
    /\ cur' = [cur EXCEPT ![p] = None]
    /\ UNCHANGED <<environment, mounts, dirs, links, man, gen, cache, values,
                   doomed>>

\* chown or chmod of a name that another run removed.
EntryVanished(p) ==
    /\ pc[p] \in {"chown", "chmod"}
    /\ file[gen[p]][cur[p]] = None
    /\ End(p, "blocked")
    /\ UNCHANGED <<environment, tree, links, finished>>

(***************************************************************************)
(* RealFs::swap_symlink, for every out-of-tree link and last for           *)
(* symlinkPath: remove "l.new", create it, rename it over l.               *)
(***************************************************************************)
\* Mutants: a stale "l.new" is left alone; the link itself is unlinked.
RemoveTmpSkipped(p, l) ==
    /\ pc[p] = "link"
    /\ l \in NextLinks(todo[p])
    /\ cur' = [cur EXCEPT ![p] = l]
    /\ Goto(p, "symlink")
    /\ UNCHANGED <<environment, tree, links, man, gen, todo, cache, values,
                   doomed, finished>>

RemoveTmpUnlinks(p, l) ==
    /\ pc[p] = "link"
    /\ l \in NextLinks(todo[p])
    /\ tmp' = [tmp EXCEPT ![l] = None]
    /\ link' = [link EXCEPT ![l] = None]
    /\ cur' = [cur EXCEPT ![p] = l]
    /\ Goto(p, "symlink")
    /\ UNCHANGED <<environment, tree, man, gen, todo, cache, values, doomed,
                   finished>>

RemoveTmp(p, l) ==
    /\ pc[p] = "link"
    /\ l \in NextLinks(todo[p])
    /\ tmp' = [tmp EXCEPT ![l] = None]
    /\ cur' = [cur EXCEPT ![p] = l]
    /\ Goto(p, "symlink")
    /\ UNCHANGED <<environment, tree, link, man, gen, todo, cache, values,
                   doomed, finished>>

Symlink(p) == LET l == cur[p] IN
    /\ pc[p] = "symlink"
    /\ tmp[l] = None
    /\ tmp' = [tmp EXCEPT ![l] = Target(p, l)]
    /\ Goto(p, "rename")
    /\ UNCHANGED <<environment, tree, link, memory, finished>>

Rename(p) == LET l == cur[p] IN
    /\ pc[p] = "rename"
    /\ tmp[l] # None
    /\ link' = [link EXCEPT ![l] = tmp[l]]
    /\ tmp' = [tmp EXCEPT ![l] = None]
    /\ todo' = [todo EXCEPT ![p] = @ \ {l}]
    /\ cur' = [cur EXCEPT ![p] = None]
    /\ Goto(p, IF l = Root THEN "reap" ELSE "link")
    /\ UNCHANGED <<environment, tree, man, gen, cache, values, doomed,
                   finished>>

\* "l.new" already there, or gone: another run is swapping the same link.
SwapCollides(p) ==
    /\ \/ pc[p] = "symlink" /\ tmp[cur[p]] # None
       \/ pc[p] = "rename" /\ tmp[cur[p]] = None
    /\ End(p, "blocked")
    /\ UNCHANGED <<environment, tree, links, finished>>

(***************************************************************************)
(* RealFs::reap_generations: list the other generations, keep the newest,  *)
(* remove the rest one by one.  A failure is reported and ignored.         *)
(***************************************************************************)
\* Mutant: the current generation is not set aside.
ListGenerationsAll(p) ==
    /\ pc[p] = "reap"
    /\ doomed' = [doomed EXCEPT ![p] = Doomed(dirs, Keep(man[p]))]
    /\ Goto(p, "sweep")
    /\ UNCHANGED <<environment, tree, links, man, gen, todo, cur, cache, values,
                   finished>>

ListGenerations(p) ==
    /\ pc[p] = "reap"
    /\ doomed' = [doomed EXCEPT ![p] = Doomed(dirs \ {gen[p]}, Keep(man[p]))]
    /\ Goto(p, "sweep")
    /\ UNCHANGED <<environment, tree, links, man, gen, todo, cur, cache, values,
                   finished>>

RemoveReaped(p, g) ==
    /\ pc[p] = "sweep"
    /\ g \in doomed[p] /\ \A h \in doomed[p] : h <= g
    /\ g \in dirs
    /\ dirs' = dirs \ {g}
    /\ file' = [file EXCEPT ![g] = NoFiles]
    /\ doomed' = [doomed EXCEPT ![p] = @ \ {g}]
    /\ UNCHANGED <<environment, mounts, links, pc, man, gen, todo, cur, cache,
                   values, finished>>

ReapEnds(p) ==
    /\ pc[p] = "sweep"
    /\ \/ doomed[p] = {} /\ End(p, "published")
       \/ \E g \in doomed[p] : /\ \A h \in doomed[p] : h <= g
                               /\ g \notin dirs
                               /\ End(p, "unreaped")
    /\ UNCHANGED <<environment, tree, links, finished>>

Step(p) ==
    \/ EnsureSecureStorage(p) \/ StoreUnseen(p) \/ MountSecure(p)
    \/ MakeGeneration(p)
    \/ \E n \in Names : OpenEntry(p, n) \/ CannotObtain(p, n)
    \/ FillEntry(p) \/ Chown(p) \/ Chmod(p) \/ EntryVanished(p)
    \/ \E l \in LinkPaths : RemoveTmp(p, l)
    \/ Symlink(p) \/ Rename(p) \/ SwapCollides(p)
    \/ ListGenerations(p) \/ (\E g \in Times : RemoveReaped(p, g))
    \/ ReapEnds(p)

(***************************************************************************)
(* A system call fails, or the run is killed: nothing is cleaned up.  An   *)
(* error while reaping does not fail the run.                              *)
(***************************************************************************)
Fault(p) ==
    /\ pc[p] \in Running
    /\ faults < MaxFaults
    /\ faults' = faults + 1
    /\ \/ End(p, "failed")
       \/ pc[p] \in Reaping /\ End(p, "unreaped")
    /\ UNCHANGED <<boots, edits, blind, source, tree, links, finished>>

\* A sops file is rotated, reverted, damaged or repaired.
EditSource(f, v) ==
    /\ edits < MaxEdits
    /\ v # source[f]
    /\ edits' = edits + 1
    /\ source' = [source EXCEPT ![f] = v]
    /\ UNCHANGED <<boots, faults, blind, tree, links, pc, memory, finished>>

\* /run is volatile, the out-of-tree links are not.
Reboot ==
    /\ boots < MaxBoots
    /\ boots' = boots + 1
    /\ blind' = 0 /\ mounts' = 0
    /\ dirs' = {}
    /\ file' = [g \in Times |-> NoFiles]
    /\ link' = [link EXCEPT ![Root] = None]
    /\ tmp' = [tmp EXCEPT ![Root] = None]
    /\ pc' = [p \in Procs |-> "idle"]
    /\ todo' = [p \in Procs |-> {}]
    /\ cur' = [p \in Procs |-> None]
    /\ cache' = [p \in Procs |-> [f \in Files |-> None]]
    /\ values' = [p \in Procs |-> [k \in Keys |-> None]]
    /\ doomed' = [p \in Procs |-> {}]
    /\ UNCHANGED <<faults, edits, source, man, gen, finished>>

\* The names of versions are arbitrary: any may be the first of every file.
Init ==
    /\ boots = 0 /\ faults = 0 /\ edits = 0 /\ blind = 0
    /\ source = [f \in Files |-> CHOOSE v \in Versions : TRUE]
    /\ mounts = 0 /\ dirs = {} /\ file = [g \in Times |-> NoFiles]
    /\ link = [l \in LinkPaths |-> None] /\ tmp = [l \in LinkPaths |-> None]
    /\ pc = [p \in Procs |-> "idle"]
    /\ man = [p \in Procs |-> None] /\ gen = [p \in Procs |-> None]
    /\ todo = [p \in Procs |-> {}] /\ cur = [p \in Procs |-> None]
    /\ cache = [p \in Procs |-> [f \in Files |-> None]]
    /\ values = [p \in Procs |-> [k \in Keys |-> None]]
    /\ doomed = [p \in Procs |-> {}]
    /\ finished = {}

Next ==
    \/ \E p \in Procs :
         Step(p) \/ Fault(p) \/ \E m \in Manifests, t \in Times : Start(p, m, t)
    \/ \E f \in Files, v \in Versions \cup {Damaged} : EditSource(f, v)
    \/ Reboot

Spec == Init /\ [][Next]_vars

-----------------------------------------------------------------------------
Plaintexts == [file : Files, key : Keys, ver : Versions]
Bodies     == UNION {[R -> Plaintexts] : R \in SUBSET Secrets}
Contents   == Plaintexts \cup {Empty} \cup Bodies
Owners     == {Creator} \cup
              UNION {{Decl(m, n).owner : n \in Entries(m)} : m \in Manifests}
Modes      == {CreateMode} \cup
              UNION {{Decl(m, n).mode : n \in Entries(m)} : m \in Manifests}
FileRec    == [data : Contents, owner : Owners, mode : Modes]

ASSUME NoneIsNoFile == None \notin FileRec

\* A secret's content is told from a template's, and both from no content.
ASSUME ContentsApart == /\ Plaintexts \cap Bodies = {}
                        /\ Empty \notin Plaintexts \cup Bodies

\* Type invariant: what the file system and the memory of each run hold.
TypeOK ==
    /\ boots \in Nat /\ faults \in Nat /\ edits \in Nat
    /\ blind \in 0..MaxBlind
    /\ source \in [Files -> Versions \cup {Damaged}]
    /\ mounts \in Nat
    /\ dirs \subseteq Times
    /\ file \in [Times -> [Names -> FileRec \cup {None}]]
    /\ link \in [LinkPaths -> Times \cup {Stable, None}]
    /\ tmp \in [LinkPaths -> Times \cup {Stable, None}]
    /\ pc \in [Procs -> Running \cup Ended]
    /\ man \in [Procs -> Manifests \cup {None}]
    /\ gen \in [Procs -> Times \cup {None}]
    /\ \A p \in Procs : pc[p] # "idle" => man[p] # None /\ gen[p] # None
    /\ todo \in [Procs -> SUBSET LinkPaths]
    /\ cur \in [Procs -> LinkPaths \cup {None}]
    /\ cache \in [Procs -> [Files -> Versions \cup {None}]]
    /\ values \in [Procs -> [Keys -> Plaintexts \cup {None}]]
    /\ doomed \in [Procs -> SUBSET Times]
    /\ finished \subseteq Times

Complete(g) == \E m \in Manifests, vers \in [Files -> Versions] :
                 file[g] = View(m, vers)

(***************************************************************************)
(* What /run/secrets names is a whole generation: every entry of one       *)
(* manifest with its declared content, owner and mode, every plaintext of  *)
(* one sops file at one version, and nothing else (place.rs rule 2).       *)
(***************************************************************************)
LiveWhole    == Live \in dirs /\ Complete(Live)
LiveComplete == Live # None => LiveWhole

(***************************************************************************)
(* Mount tables that cannot be read included: what /run/secrets names is   *)
(* whole or it is hidden under a store mounted over it; never a part of a  *)
(* generation, never hidden unless a mount table was not read, and a run   *)
(* that gets to its swap ends the outage of those before it.               *)
(***************************************************************************)
LiveWholeOrHidden ==
    Live # None =>
      \/ LiveWhole
      \/ /\ Live \notin dirs
         /\ blind > 0
         /\ \A p \in Procs : pc[p] \notin Reaping \cup {"published", "unreaped"}

(***************************************************************************)
(* In every generation, live or not: what comes from one sops file, placed *)
(* or rendered into a template, comes from one decryption of it            *)
(* (SuminuriDecryptor's cache), whatever happens to the file meanwhile.    *)
(***************************************************************************)
PlaintextsIn(d) == IF d = None \/ d.data = Empty THEN {}
                   ELSE IF d.data \in Plaintexts THEN {d.data}
                   ELSE {d.data[r] : r \in DOMAIN d.data}

OneDecryptionPerFile ==
    \A g \in dirs : \A a, b \in UNION {PlaintextsIn(file[g][n]) : n \in Names} :
      a.file = b.file => a.ver = b.ver

(***************************************************************************)
(* Create restrictive, then widen (place.rs rule 1): an entry that has a   *)
(* mode other than 0600 already has its declared owner and its content.    *)
(***************************************************************************)
WidenedLast ==
    \A p \in Procs : pc[p] \in Running /\ gen[p] \in dirs =>
      \A n \in Entries(man[p]) : LET d == file[gen[p]][n] IN
        d # None /\ d.mode # CreateMode
          => d.owner = OwnerOf(man[p], n) /\ d.data # Empty

(***************************************************************************)
(* Installing again and again leaves one secure store on the mount point,  *)
(* and one more for every time a run could not read the mount table; and   *)
(* no generation is ever made while there is none (ensure_secure_storage   *)
(* comes first, and does nothing again if it can see that it was done).    *)
(***************************************************************************)
OneSecureStore ==
    /\ mounts <= 1 + blind
    /\ ~UserMode /\ dirs # {} => mounts > 0

(***************************************************************************)
(* What a failed or killed run left behind ("l.new", a half-written        *)
(* generation, a half-done reaping) never makes a later run fail.          *)
(***************************************************************************)
NeverBlocked == \A p \in Procs : pc[p] # "blocked"

(***************************************************************************)
(* A run that reports success is live, and when its reaping did not fail   *)
(* at most keepGenerations other generations are left, whatever earlier    *)
(* runs left half-done.                                                    *)
(***************************************************************************)
PublishedWithinBudget ==
    \A p \in Procs :
      /\ pc[p] \in {"published", "unreaped"} => Live = gen[p]
      /\ pc[p] = "published"
           => Cardinality(dirs \ {Live}) <= Keep(man[p])

(***************************************************************************)
(* Once there is a /run/secrets there always is one, until a reboot: the   *)
(* swap is a rename (place.rs rule 3).                                     *)
(***************************************************************************)
LinkNeverWithdrawn ==
    [][Live # None /\ boots' = boots => Live' # None]_vars

(***************************************************************************)
(* Until /run/secrets names another generation, nothing changes in the one *)
(* it names: a run that fails before its swap leaves the previous          *)
(* generation "still live and untouched" (apply.rs).                       *)
(***************************************************************************)
LiveUntouched ==
    [][Live # None /\ boots' = boots /\ Live' = Live
         => Live \in dirs' /\ file'[Live] = file[Live]]_vars

\* Also when runs overlap, only a generation that was placed to its last
\* entry is ever named by /run/secrets.
OnlyFinishedPublished == Live # None => Live \in finished

(***************************************************************************)
(* The promise to the readers of /run/secrets: a register that whole       *)
(* generations are written to in one step (module Publication).            *)
(***************************************************************************)
Published == INSTANCE Publication WITH
    Whole   <- {View(m, vers) : m \in Manifests, vers \in [Files -> Versions]},
    Absent  <- None,
    current <- Live,
    content <- IF Live = None THEN None ELSE file[Live]

PublishesAtomically == Published!Spec
=============================================================================
