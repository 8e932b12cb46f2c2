------------------------------- MODULE SopsFile ------------------------------
(***************************************************************************)
(* suminuri's file commands (app.rs) on one sops file, several at a time,  *)
(* with nothing but write_file_atomic (env.rs) between them: decrypt,      *)
(* encrypt, edit, rotate, updatekeys, set and unset read the file, compute *)
(* a new body in memory and rename a temporary file over it.  The name of  *)
(* the temporary file depends on the target alone, so two writers share    *)
(* it; a command may be killed between any two steps.                      *)
(*                                                                         *)
(* A document is its leaves, its readers and its seal.  A ciphertext is    *)
(* the value with its nonce; the document's data key and the place (Aad)   *)
(* authenticate it.  What a walk does leaf by leaf is SopsWalk's subject.  *)
(***************************************************************************)
EXTENDS Integers, Sequences, SequencesExt

CONSTANTS
    Cmds,           \* invocations of suminuri
    Slots,          \* leaves of the document, numbered in document order
    Vals,           \* what a leaf may hold
    Aad,            \* Slots -> place; elements of one list share theirs
    Absent,         \* no such leaf
    None,           \* no file, no directory, nothing yet
    Initial,        \* who wrote what is there at first
    AgeLists,       \* lists of age recipients
    Held,           \* recipients whose identity the operator holds
    Others,         \* recipients of providers this build does not implement
    Times,          \* readings of the clock, in seconds
    Invocations,    \* command lines
    Starts,         \* documents the file may hold at first
    WritersOverlap  \* whether two commands may be inside a write at a time

VARIABLES
    data,       \* inode -> what it holds; an inode is named by who made it
    private,    \* inode -> whether its mode is 0600
    names,      \* file name -> inode
    proc        \* command -> its state

vars == <<data, private, names, proc>>

Inodes == Cmds \cup {Initial}

(***************************************************************************)
(* What a file may hold: a document in the clear, a sealed one, or what is *)
(* left of one.                                                            *)
(***************************************************************************)
LeafMaps  == [Slots -> Vals \cup {Absent}]
Nonces    == Inodes \X Nat         \* who drew it, and for which leaf
Cells     == [val : Vals, nonce : Nonces]
Macs      == [of : LeafMaps, at : Times, nonce : Nonces]
PlainDocs == [kind : {"plain"}, val : LeafMaps]
SopsDocs  == [kind : {"sops"}, key : Inodes, cell : [Slots -> Cells \cup {Absent}],
              age : AgeLists, other : SUBSET Others, time : Times, mac : Macs]
Docs      == PlainDocs \cup SopsDocs

Torn == [kind |-> "torn"]       \* empty, cut short, or a mix of two bodies

Lines == [verb : {"decrypt", "encrypt", "edit", "rotate", "updatekeys", "set", "unset"},
          to : {"file", "out", "stdout"}, ignore_mac : BOOLEAN,
          age : AgeLists, slot : Slots, val : Vals]

Stashes == [cell : [Slots -> Cells \cup {Absent}], mac : Macs, verified : BOOLEAN]

Exits == {"ok", "failed", "unchanged"}

-----------------------------------------------------------------------------
\* Documents.

ValOf(d) == IF d.kind = "plain" THEN d.val
            ELSE [s \in Slots |-> IF d.cell[s] = Absent THEN Absent
                                  ELSE d.cell[s].val]

Leaves(val) == {s \in Slots : val[s] # Absent}

\* data_key(): an age key of the file answers to an identity of the operator.
HasKey(d) == \E j \in DOMAIN d.age : d.age[j] \in Held

Verifies(d) == d.mac.of = ValOf(d) /\ d.mac.at = d.time

\* Mutant: the MAC is not looked at.
OpensUnchecked(d, i) == d.kind = "sops" /\ HasKey(d)

(***************************************************************************)
(* open() refuses a file without a MAC-able leaf as nothing to verify;     *)
(* open_stream(), for decrypt, does not.  --ignore-mac skips both checks.  *)
(***************************************************************************)
Opens(d, i) == /\ d.kind = "sops" /\ HasKey(d)
               /\ i.ignore_mac \/ (Leaves(ValOf(d)) # {} /\ Verifies(d))

OpensStream(d, i) == /\ d.kind = "sops" /\ HasKey(d)
                     /\ i.ignore_mac \/ Verifies(d)

\* Mutant: whatever is at that place.
PlaceTwins(d, a, v) == {t \in Slots : Aad[t] = a /\ d.cell[t] # Absent}

(***************************************************************************)
(* The stash of nonces: decryption remembers the nonce of every value at   *)
(* its place, the last one where a list holds a value twice, and the       *)
(* verified MAC's; encryption reuses what it recalls and draws the rest.   *)
(***************************************************************************)
Twins(d, a, v) == {t \in Slots : /\ Aad[t] = a
                                 /\ d.cell[t] # Absent
                                 /\ d.cell[t].val = v}

Recall(stash, s, v) ==
    LET seen == IF stash = None THEN {} ELSE Twins(stash, Aad[s], v)
    IN  IF seen = {} THEN None ELSE stash.cell[Max(seen)].nonce

Nonce(remembered, c, s) == IF remembered = None THEN <<c, s>> ELSE remembered

RecallMac(stash, of, at) ==
    IF stash # None /\ stash.verified /\ stash.mac.of = of /\ stash.mac.at = at
    THEN stash.mac.nonce ELSE None

\* encrypt(): every leaf, then the time, then the MAC sealed to it.
Seal(c, d, val, key, stash, now) ==
    [kind |-> "sops", key |-> key, age |-> d.age, other |-> d.other, time |-> now,
     cell |-> [s \in Slots |->
                 IF val[s] = Absent THEN Absent
                 ELSE [val   |-> val[s],
                       nonce |-> Nonce(Recall(stash, s, val[s]), c, s)]],
     mac  |-> [of |-> val, at |-> now,
               nonce |-> Nonce(RecallMac(stash, val, now), c, 0)]]

StashOf(d, i) == [cell |-> d.cell, mac |-> d.mac, verified |-> ~i.ignore_mac]

Rewrap(d, age) == [d EXCEPT !.age = age, !.other = {}]

\* What encrypt() is given when there is no document yet.
NewFile(age) == [age |-> age, other |-> {}]

\* Every value a document was sealed with: under what, where, by which nonce.
Uses(d) == {[key |-> d.key, aad |-> Aad[s], val |-> d.cell[s].val,
             nonce |-> d.cell[s].nonce] : s \in Leaves(ValOf(d))}
           \cup {[key |-> d.key, aad |-> d.mac.at, val |-> d.mac.of,
                  nonce |-> d.mac.nonce]}

\* Every command line is one of these, and edit writes the file it read; what
\* is there at first was sealed under one key, each value with its own nonce.
ASSUME SopsFileAssumption ==
    /\ IsFiniteSet(Slots) /\ Slots = 1..Cardinality(Slots)
    /\ Invocations \subseteq Lines
    /\ \A i \in Invocations : i.verb = "edit" => i.to = "file"
    /\ Absent \notin Vals \cup Cells
    /\ Initial \notin Cmds \cup Docs \cup {Torn}
    /\ None \notin Inodes \cup Docs \cup {Torn} \cup Lines \cup Nonces
    /\ None \notin Stashes \cup Exits
    /\ Starts \subseteq Docs
    /\ \A d \in Starts : d.kind = "sops" =>
         /\ d.key = Initial
         /\ \A u \in Uses(d) : u.nonce[1] = Initial
         /\ \A u, w \in Uses(d) : u.nonce = w.nonce => u = w
-----------------------------------------------------------------------------
Idle == [pc |-> "start", inv |-> None, src |-> None, body |-> None,
         fd |-> None, guard |-> FALSE, scratch |-> None, exit |-> None]

Temp(name) == IF name = "file" THEN "file.tmp" ELSE "out.tmp"

Init ==
    /\ \E d \in Starts : data = [n \in Inodes |-> IF n = Initial THEN d ELSE Torn]
    /\ private = [n \in Inodes |-> FALSE]
    /\ names = [n \in {"file", "file.tmp", "out", "out.tmp"} |->
                  IF n = "file" THEN Initial ELSE None]
    /\ proc = [c \in Cmds |-> Idle]

At(c, pc) == proc[c].pc = pc

File == data[names["file"]]

\* A command is over, or only its scratch guard is left to run.
Returned(p, code) == [p EXCEPT !.exit = code,
                               !.pc = IF p.guard THEN "shred" ELSE "ended"]

Return(c, code) == proc' = [proc EXCEPT ![c] = Returned(@, code)]

\* The command has read the file, and goes on with a body for its target.
Goes(c, i, body) ==
    proc' = [proc EXCEPT ![c] =
        [@ EXCEPT !.inv = i, !.src = File, !.body = body,
                  !.pc = IF i.to = "stdout" THEN "print" ELSE "create"]]

Read(c, i, code) ==
    proc' = [proc EXCEPT ![c] =
        Returned([@ EXCEPT !.inv = i, !.src = File], code)]
-----------------------------------------------------------------------------
(***************************************************************************)
(* One action per verb: what it reads, refuses and computes before it      *)
(* touches a disk.                                                         *)
(***************************************************************************)
Accepts(i) ==
    CASE i.verb = "decrypt"        -> OpensStream(File, i)
      [] i.verb = "encrypt"        -> File.kind = "plain" /\ i.age # <<>>
      [] i.verb = "rotate"         -> Opens(File, i) /\ File.age # <<>>
      [] i.verb = "updatekeys"     -> /\ File.kind = "sops" /\ HasKey(File)
                                      /\ i.age # <<>>
      [] i.verb \in {"edit", "set"} -> Opens(File, i)
      [] i.verb = "unset"          -> /\ Opens(File, i)
                                      /\ ValOf(File)[i.slot] # Absent

Refuse(c, i) == ~Accepts(i) /\ Read(c, i, "failed")

Decrypt(c, i) ==
    /\ i.verb = "decrypt" /\ Accepts(i)
    /\ Goes(c, i, [kind |-> "plain", val |-> ValOf(File)])

Encrypt(c, i) ==
    /\ i.verb = "encrypt" /\ Accepts(i)
    /\ \E now \in Times :
         Goes(c, i, Seal(c, NewFile(i.age), File.val, c, None, now))

\* Same age recipients, a new data key, and none of the old nonces.
Rotate(c, i) ==
    /\ i.verb = "rotate" /\ Accepts(i)
    /\ \E now \in Times :
         Goes(c, i, Seal(c, Rewrap(File, File.age), ValOf(File), c, None, now))

\* Neither decrypts the tree nor looks at the MAC.
UpdateKeys(c, i) ==
    /\ i.verb = "updatekeys" /\ Accepts(i)
    /\ IF i.age = File.age THEN Read(c, i, "unchanged")
       ELSE Goes(c, i, Rewrap(File, i.age))

Mutated(val, i) ==
    [val EXCEPT ![i.slot] = IF i.verb = "unset" THEN Absent ELSE i.val]

SetOrUnset(c, i) ==
    /\ i.verb \in {"set", "unset"} /\ Accepts(i)
    /\ LET after == Mutated(ValOf(File), i) IN
         IF after = ValOf(File) THEN Read(c, i, "unchanged")
         ELSE \E now \in Times :
                Goes(c, i, Seal(c, File, after, File.key, StashOf(File, i), now))

Edit(c, i) ==
    /\ i.verb = "edit" /\ Accepts(i)
    /\ proc' = [proc EXCEPT ![c] = [@ EXCEPT !.inv = i, !.src = File,
                                             !.pc = "mkdir"]]

Run(c) ==
    /\ At(c, "start")
    /\ \E i \in Invocations :
         \/ Decrypt(c, i) \/ Encrypt(c, i) \/ Rotate(c, i) \/ Edit(c, i)
         \/ UpdateKeys(c, i) \/ SetOrUnset(c, i)
         \/ Refuse(c, i)
    /\ UNCHANGED <<data, private, names>>
-----------------------------------------------------------------------------
(***************************************************************************)
(* edit, between opening and writing: a private directory, whose guard     *)
(* shreds it however the command returns, the plaintext, the editor, and   *)
(* what came of it.                                                        *)
(***************************************************************************)
MakeScratchDir(c) ==
    /\ At(c, "mkdir")
    /\ proc' = [proc EXCEPT ![c].guard = TRUE, ![c].pc = "scratch"]
    /\ UNCHANGED <<data, private, names>>

MakeScratchDirFails(c) ==
    /\ At(c, "mkdir")
    /\ Return(c, "failed")
    /\ UNCHANGED <<data, private, names>>

WriteScratch(c) ==
    /\ At(c, "scratch")
    /\ proc' = [proc EXCEPT ![c].scratch = ValOf(proc[c].src), ![c].pc = "editor"]
    /\ UNCHANGED <<data, private, names>>

WriteScratchFails(c) ==
    /\ At(c, "scratch")
    /\ Return(c, "failed")
    /\ UNCHANGED <<data, private, names>>

Edits == {val \in [Slots -> Vals \cup {Absent}] : Leaves(val) # {}}

EditorSaves(c) ==
    /\ At(c, "editor")
    /\ \E val \in Edits :
         proc' = [proc EXCEPT ![c].scratch = val, ![c].pc = "reseal"]
    /\ UNCHANGED <<data, private, names>>

\* It exits with an error, or leaves what load_plain refuses.
EditorFails(c) ==
    /\ At(c, "editor")
    /\ Return(c, "failed")
    /\ UNCHANGED <<data, private, names>>

Reseal(c) ==
    /\ At(c, "reseal")
    /\ LET p == proc[c] IN
         IF p.scratch = ValOf(p.src) THEN Return(c, "unchanged")
         ELSE \E now \in Times :
                proc' = [proc EXCEPT ![c].pc = "create", ![c].body =
                    Seal(c, p.src, p.scratch, p.src.key, StashOf(p.src, p.inv), now)]
    /\ UNCHANGED <<data, private, names>>

\* Mutant: nothing to shred, nothing to do.
ShredSome(c) ==
    /\ At(c, "shred") /\ proc[c].scratch # None
    /\ proc' = [proc EXCEPT ![c].scratch = None, ![c].pc = "ended"]
    /\ UNCHANGED <<data, private, names>>

\* The guard's shred_dir.  scratch is what the editor's file holds for edit;
\* what becomes of the file, when a call is refused, is ScratchDir's subject.
Shred(c) ==
    /\ At(c, "shred")
    /\ proc' = [proc EXCEPT ![c].scratch = None, ![c].pc = "ended"]
    /\ UNCHANGED <<data, private, names>>
-----------------------------------------------------------------------------
ToStdout(c) ==
    /\ At(c, "print")
    /\ Return(c, "ok") \/ Return(c, "failed")
    /\ UNCHANGED <<data, private, names>>

(***************************************************************************)
(* write_file_atomic: fs::write opens the temporary file, truncating what  *)
(* is there, and writes; then set_mode and rename go by its name.          *)
(***************************************************************************)
Writing(c) == proc[c].pc \in {"write", "chmod", "rename"}

Tmp(c) == Temp(proc[c].inv.to)

\* Mutant: the target itself is opened and truncated.
CreateInPlace(c) ==
    /\ At(c, "create")
    /\ WritersOverlap \/ ~ \E d \in Cmds : Writing(d)
    /\ data' = [data EXCEPT ![names["file"]] = Torn]
    /\ proc' = [proc EXCEPT ![c].fd = names["file"], ![c].pc = "write"]
    /\ UNCHANGED <<private, names>>

Create(c) ==
    /\ At(c, "create")
    /\ WritersOverlap \/ ~ \E d \in Cmds : Writing(d)
    /\ LET n == IF names[Tmp(c)] = None THEN c ELSE names[Tmp(c)] IN
         /\ names' = [names EXCEPT ![Tmp(c)] = n]
         /\ data' = [data EXCEPT ![n] = Torn]
         /\ proc' = [proc EXCEPT ![c].fd = n, ![c].pc = "write"]
    /\ UNCHANGED private

CreateFails(c) ==
    /\ At(c, "create")
    /\ Return(c, "failed")
    /\ UNCHANGED <<data, private, names>>

\* Mutant: the mode is left to the umask.
WritePlainly(c) ==
    /\ At(c, "write")
    /\ data' = [data EXCEPT ![proc[c].fd] = proc[c].body]
    /\ proc' = [proc EXCEPT ![c].pc = "rename"]
    /\ UNCHANGED <<private, names>>

\* Over what another writer left in the inode, a shorter body leaves a mix.
Write(c) ==
    /\ At(c, "write")
    /\ \E r \in {proc[c].body} \cup
                (IF data[proc[c].fd] = Torn THEN {} ELSE {Torn}) :
         data' = [data EXCEPT ![proc[c].fd] = r]
    /\ proc' = [proc EXCEPT ![c].pc = "chmod"]
    /\ UNCHANGED <<private, names>>

\* A full disk: the temporary file stays, with what fitted.
WriteFails(c) ==
    /\ At(c, "write")
    /\ data' = [data EXCEPT ![proc[c].fd] = Torn]
    /\ Return(c, "failed")
    /\ UNCHANGED <<private, names>>

Chmod(c) ==
    /\ At(c, "chmod") /\ names[Tmp(c)] # None
    /\ private' = [private EXCEPT ![names[Tmp(c)]] = TRUE]
    /\ proc' = [proc EXCEPT ![c].pc = "rename"]
    /\ UNCHANGED <<data, names>>

\* Refused, or the name is gone: no attempt to remove the temporary file.
ChmodFails(c) ==
    /\ At(c, "chmod")
    /\ Return(c, "failed")
    /\ UNCHANGED <<data, private, names>>

Rename(c) ==
    /\ At(c, "rename") /\ names[Tmp(c)] # None
    /\ names' = [names EXCEPT ![proc[c].inv.to] = names[Tmp(c)],
                              ![Tmp(c)] = None]
    /\ Return(c, "ok")
    /\ UNCHANGED <<data, private>>

\* Mutant: what could not be replaced is removed.
RenameFailsRemoving(c) ==
    /\ At(c, "rename")
    /\ names' = [names EXCEPT ![proc[c].inv.to] = None]
    /\ Return(c, "failed")
    /\ UNCHANGED <<data, private>>

RenameFails(c) ==
    /\ At(c, "rename")
    /\ names' = [names EXCEPT ![Tmp(c)] = None]
    /\ Return(c, "failed")
    /\ UNCHANGED <<data, private>>

Kill(c) ==
    /\ ~At(c, "ended") /\ ~At(c, "killed")
    /\ proc' = [proc EXCEPT ![c].pc = "killed"]
    /\ UNCHANGED <<data, private, names>>
-----------------------------------------------------------------------------
Fails(c) == \/ MakeScratchDirFails(c) \/ WriteScratchFails(c) \/ EditorFails(c)
            \/ CreateFails(c) \/ WriteFails(c) \/ ChmodFails(c) \/ RenameFails(c)

Proceeds(c) == \/ Run(c)
               \/ MakeScratchDir(c) \/ WriteScratch(c) \/ EditorSaves(c)
               \/ Reseal(c) \/ Shred(c) \/ ToStdout(c)
               \/ Create(c) \/ Write(c) \/ Chmod(c) \/ Rename(c)

Next == \E c \in Cmds : Proceeds(c) \/ Fails(c) \/ Kill(c)

\* An operating system runs a command that can run, and an editor returns.
Spec == Init /\ [][Next]_vars /\ \A c \in Cmds : WF_vars(Proceeds(c) \/ Fails(c))
-----------------------------------------------------------------------------
Phases == {"start", "mkdir", "scratch", "editor", "reseal", "create", "write",
           "chmod", "rename", "print", "shred", "ended", "killed"}

Commands == [pc : Phases, inv : Invocations \cup {None},
             src : Docs \cup {Torn, None}, body : Docs \cup {None},
             fd : Inodes \cup {None}, guard : BOOLEAN,
             scratch : LeafMaps \cup {None}, exit : Exits \cup {None}]

TypeOK ==
    /\ names \in [{"file", "file.tmp", "out", "out.tmp"} -> Inodes \cup {None}]
    /\ names["file"] # None
    /\ private \in [Inodes -> BOOLEAN]
    /\ data \in [Inodes -> Docs \cup {Torn}]
    /\ proc \in [Cmds -> Commands]
    /\ \A c \in Cmds : /\ Writing(c) => proc[c].fd # None /\ proc[c].body # None
                       /\ At(c, "ended") => proc[c].exit # None

(***************************************************************************)
(* Within one data key a nonce stands for one value at one place, and no   *)
(* nonce is used under two data keys, over everything the commands ever    *)
(* sealed, whatever they read and however they overlapped (cipher.rs:219,  *)
(* app.rs:497).                                                            *)
(***************************************************************************)
Sealed == {d \in {data[Initial]} \cup {proc[c].body : c \in Cmds} \cup
                {proc[c].src : c \in Cmds} : d # None /\ d.kind = "sops"}

NoncesOnce ==
    \A u, w \in UNION {Uses(d) : d \in Sealed} : u.nonce = w.nonce => u = w

(***************************************************************************)
(* A file whose MAC does not match stays so: no command that checks the    *)
(* MAC, and not updatekeys, which does not, seals damage anew.             *)
(***************************************************************************)
Damaged(d) == d.kind = "sops" /\ ~Verifies(d)

DamageStays ==
    /\ Damaged(data[Initial])
    /\ \A c \in Cmds : proc[c].inv # None => ~proc[c].inv.ignore_mac
    => Damaged(File)

(***************************************************************************)
(* "The mode applied before the contents are visible" (env.rs:33): what    *)
(* replaced the file, or was written beside it, was private when it        *)
(* appeared under the name.                                                *)
(***************************************************************************)
PrivateWhenVisible ==
    \A n \in {"file", "out"} : names[n] \in Cmds => private[names[n]]

\* A reader of the file finds a whole document, at any moment (env.rs:102).
WholeFile == File # Torn

\* set and unset leave every other leaf's ciphertext as it was (app.rs:798).
OtherLinesKept ==
    \A c \in Cmds : LET p == proc[c] IN
      p.inv # None /\ p.inv.verb \in {"set", "unset"} /\ p.body # None =>
        \A s \in Slots \ {p.inv.slot} : p.body.cell[s] = p.src.cell[s]

(***************************************************************************)
(* "Same recipients, new data key" (app.rs:503): who can read the file     *)
(* after a rotate could before, and the other way round.                   *)
(***************************************************************************)
RotateKeepsReaders ==
    \A c \in Cmds : LET p == proc[c] IN
      p.inv # None /\ p.inv.verb = "rotate" /\ p.body # None =>
        p.body.age = p.src.age /\ p.body.other = p.src.other

\* Every command ends, unless it is killed.
EveryCommandEnds == \A c \in Cmds : <>(At(c, "ended") \/ At(c, "killed"))

(***************************************************************************)
(* The file as SealedFile promises it: a command has looked once it has    *)
(* read, and is spent once its rename succeeded.                           *)
(***************************************************************************)
SF == INSTANCE SealedFile WITH
        Unseen <- None, Spent <- Initial,
        file <- File,
        seen <- [c \in Cmds |-> IF proc[c].exit = "ok" /\ proc[c].inv.to = "file"
                                THEN Initial ELSE proc[c].src]

Implements == SF!Spec
=============================================================================
