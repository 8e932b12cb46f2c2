------------------------------ MODULE ScratchDir ------------------------------
(***************************************************************************)
(* The directory `suminuri edit` keeps its plaintext in (app.rs, env.rs),  *)
(* call by call: made and made private, the plaintext written into it, the *)
(* editor, and the guard's shred_dir, any of whose calls may be refused    *)
(* without anyone hearing of it.  It is named for the process, so an edit  *)
(* may find what an earlier one, killed or refused, left under its number. *)
(***************************************************************************)
EXTENDS Naturals, FiniteSets

CONSTANTS
    Scratch,    \* names the scratch file may have: those of the files edited
    Sidecars,   \* files the editor leaves beside it
    Nested,     \* files the editor leaves in directories of its own
    Refusals,   \* calls of shred_dir that may be refused
    MaxEdits    \* how many edits get the same process number

ASSUME ScratchDirAssumption ==
    /\ (Scratch \X {"file", "tmp"}) \cap (Sidecars \cup Nested) = {}
    /\ Sidecars \cap Nested = {}
    /\ Refusals \subseteq {"list", "overwrite", "unlink", "rmdir"}
    /\ MaxEdits \in Nat

VARIABLES
    dir,        \* the directory: "none", "open" or "private"
    disk,       \* file of it -> what it holds
    edit,       \* the running edit
    edits       \* how many have begun

vars == <<dir, disk, edit, edits>>

Listed  == (Scratch \X {"file", "tmp"}) \cup Sidecars
Files   == Listed \cup Nested

Present == {f \in Files : disk[f] # "none"}

\* kept and unwiped: files that shred_dir could not remove, could not zero.
Idle == [pc |-> "mkdir", name |-> "none", guard |-> FALSE, todo |-> {},
         cur |-> {}, kept |-> {}, unwiped |-> {}, stuck |-> FALSE]

Init ==
    /\ dir = "none" /\ disk = [f \in Files |-> "none"]
    /\ edit = Idle /\ edits = 1

At(pc) == edit.pc = pc

Goto(pc) == edit' = [edit EXCEPT !.pc = pc]
-----------------------------------------------------------------------------
(***************************************************************************)
(* secure_temp_dir.  The guard exists only once it has returned.           *)
(***************************************************************************)
MakeDir ==
    /\ At("mkdir")
    /\ dir' = IF dir = "none" THEN "open" ELSE dir
    /\ Goto("mode") /\ UNCHANGED <<disk, edits>>

\* Mutant: left to the umask.
LeaveOpen ==
    /\ At("mode")
    /\ \E s \in Scratch : edit' = [edit EXCEPT !.pc = "write", !.name = s,
                                               !.guard = TRUE]
    /\ UNCHANGED <<dir, disk, edits>>

MakePrivate ==
    /\ At("mode")
    /\ dir' = "private"
    /\ \E s \in Scratch : edit' = [edit EXCEPT !.pc = "write", !.name = s,
                                               !.guard = TRUE]
    /\ UNCHANGED <<disk, edits>>

NoDir == /\ At("mkdir") \/ At("mode")
         /\ Goto("ended") /\ UNCHANGED <<dir, disk, edits>>

(***************************************************************************)
(* write_file_atomic, of the plaintext: beside its name, then renamed.     *)
(***************************************************************************)
Tmp == <<edit.name, "tmp">>
File == <<edit.name, "file">>

WriteTmp ==
    /\ At("write")
    /\ disk' = [disk EXCEPT ![Tmp] = "text"]
    /\ Goto("rename") /\ UNCHANGED <<dir, edits>>

\* Not opened, emptied, or cut short; or written, and its mode not set.
WriteTmpFails ==
    /\ At("write")
    /\ \E left \in {disk[Tmp], "blank", "text"} :
         disk' = [disk EXCEPT ![Tmp] = left]
    /\ Goto("shred") /\ UNCHANGED <<dir, edits>>

RenameTmp ==
    /\ At("rename")
    /\ disk' = [disk EXCEPT ![File] = disk[Tmp], ![Tmp] = "none"]
    /\ Goto("editor") /\ UNCHANGED <<dir, edits>>

\* The temporary file is removed, or that fails too.
RenameTmpFails ==
    /\ At("rename")
    /\ \E left \in {"none", "text"} : disk' = [disk EXCEPT ![Tmp] = left]
    /\ Goto("shred") /\ UNCHANGED <<dir, edits>>

\* It may save, rename or remove the file, and leave others.
EditorWrites ==
    /\ At("editor")
    /\ \E f \in {File} \cup Sidecars \cup Nested, left \in {"none", "text"} :
         disk' = [disk EXCEPT ![f] = left]
    /\ UNCHANGED <<dir, edit, edits>>

\* Whatever comes of it, nothing below here touches the directory until the
\* command returns.
EditorReturns ==
    /\ At("editor")
    /\ Goto("shred") /\ UNCHANGED <<dir, disk, edits>>
-----------------------------------------------------------------------------
(***************************************************************************)
(* shred_dir: each file listed is written over and removed, then the       *)
(* directory goes with all that is left in it.  What is refused is passed  *)
(* over, and a directory in the directory is not looked into.              *)
(***************************************************************************)
\* All of it, or what could be read of the listing and is a file.
List ==
    /\ At("shred")
    /\ \E seen \in {Present \cap Listed} \cup
                   (IF "list" \in Refusals THEN SUBSET (Present \cap Listed) ELSE {}) :
         LET unseen == (Present \cap Listed) \ seen IN
         edit' = [edit EXCEPT !.pc = IF seen = {} THEN "rmdir" ELSE "overwrite",
                              !.todo = seen, !.kept = unseen, !.unwiped = unseen]
    /\ UNCHANGED <<dir, disk, edits>>

Overwrite ==
    /\ At("overwrite")
    /\ \E f \in edit.todo :
         /\ disk' = [disk EXCEPT ![f] = "blank"]
         /\ edit' = [edit EXCEPT !.pc = "unlink", !.cur = {f}]
    /\ UNCHANGED <<dir, edits>>

\* Before the file is truncated, or after.
OverwriteFails ==
    /\ At("overwrite") /\ "overwrite" \in Refusals
    /\ \E f \in edit.todo :
         /\ \E left \in {disk[f], "blank"} : disk' = [disk EXCEPT ![f] = left]
         /\ edit' = [edit EXCEPT !.pc = "unlink", !.cur = {f}, !.unwiped = @ \cup {f}]
    /\ UNCHANGED <<dir, edits>>

\* On to the next file.
Onward(kept) ==
    LET todo == edit.todo \ edit.cur IN
    edit' = [edit EXCEPT !.pc = IF todo = {} THEN "rmdir" ELSE "overwrite",
                         !.todo = todo, !.cur = {}, !.kept = @ \cup kept]

Unlink ==
    /\ At("unlink")
    /\ disk' = [f \in Files |-> IF f \in edit.cur THEN "none" ELSE disk[f]]
    /\ Onward({}) /\ UNCHANGED <<dir, edits>>

UnlinkFails ==
    /\ At("unlink") /\ "unlink" \in Refusals
    /\ Onward(edit.cur) /\ UNCHANGED <<dir, disk, edits>>

\* Mutant: remove_dir, which takes an empty directory only.
RemoveEmptyDir ==
    /\ At("rmdir")
    /\ dir' = IF Present = {} THEN "none" ELSE dir
    /\ Goto("ended") /\ UNCHANGED <<disk, edits>>

RemoveDir ==
    /\ At("rmdir")
    /\ dir' = "none" /\ disk' = [f \in Files |-> "none"]
    /\ Goto("ended") /\ UNCHANGED edits

\* remove_dir_all stops at the first thing it cannot remove.
RemoveDirFails ==
    /\ At("rmdir") /\ "rmdir" \in Refusals
    /\ \E gone \in SUBSET Present :
         disk' = [f \in Files |-> IF f \in gone THEN "none" ELSE disk[f]]
    /\ edit' = [edit EXCEPT !.pc = "ended", !.stuck = TRUE]
    /\ UNCHANGED <<dir, edits>>

Kill ==
    /\ ~At("ended") /\ ~At("killed")
    /\ Goto("killed") /\ UNCHANGED <<dir, disk, edits>>

\* Another edit, to which the system gives the number of the last.
EditAgain ==
    /\ At("ended") \/ At("killed")
    /\ edits < MaxEdits
    /\ edit' = Idle /\ edits' = edits + 1
    /\ UNCHANGED <<dir, disk>>

Next == \/ MakeDir \/ MakePrivate \/ NoDir
        \/ WriteTmp \/ WriteTmpFails \/ RenameTmp \/ RenameTmpFails
        \/ EditorWrites \/ EditorReturns
        \/ List \/ Overwrite \/ OverwriteFails \/ Unlink \/ UnlinkFails
        \/ RemoveDir \/ RemoveDirFails
        \/ Kill \/ EditAgain

Spec == Init /\ [][Next]_vars
-----------------------------------------------------------------------------
(***************************************************************************)
(* Whenever an edit that wrote plaintext returns (app.rs:408, env.rs:175), *)
(* nothing of it, or of an edit before it, is in the directory but what    *)
(* the system refused to remove twice, by its name and with the directory, *)
(* and no text in it but what could not be overwritten either.  What an    *)
(* editor hid in a directory of its own is removed only with the whole.    *)
(***************************************************************************)
ScratchShredded ==
    At("ended") /\ edit.guard =>
      \A f \in Present : /\ edit.stuck
                         /\ f \in Listed => f \in edit.kept
                         /\ f \in Listed /\ disk[f] = "text" => f \in edit.unwiped

\* Text is only ever in a directory that is private (env.rs:58).
TextIsPrivate == (\E f \in Files : disk[f] = "text") => dir = "private"
=============================================================================
