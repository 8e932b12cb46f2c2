----------------------------- MODULE SealedFile ------------------------------
(***************************************************************************)
(* What suminuri's commands promise of the one file they work on, whatever *)
(* overlaps and whatever is killed: a command looks at the file once, and  *)
(* replaces it at most once, in one step, by a whole document that is one  *)
(* command's outcome on what it saw.  Nothing is promised to a command     *)
(* that looked before another one replaced: its outcome is still that of   *)
(* what it saw, and the other's change is gone.                            *)
(***************************************************************************)
EXTENDS FiniteSets

CONSTANTS
    Cmds,       \* commands
    Slots,      \* the leaves a document may have
    Aad,        \* what authenticates a leaf's place
    Absent,     \* no such leaf
    Unseen,     \* a command has not looked yet
    Spent       \* a command has replaced the file

VARIABLES
    file,       \* the document
    seen        \* what a command looked at

ValOf(d) == IF d.kind = "plain" THEN d.val
            ELSE [s \in Slots |-> IF d.cell[s] = Absent THEN Absent
                                  ELSE d.cell[s].val]

Leaves(d) == {s \in Slots : ValOf(d)[s] # Absent}

\* The MAC of an encrypted document is that of its leaves.
Verifies(d) == d.kind = "sops" /\ d.mac.of = ValOf(d) /\ d.mac.at = d.time

Readers(d) == <<d.age, d.other>>

(***************************************************************************)
(* A leaf whose value is new at its place may get any ciphertext; one that *)
(* was there keeps the ciphertext it had, or, in a list that holds the     *)
(* value twice, that of its twin.                                          *)
(***************************************************************************)
KeepsUnchanged(old, new) ==
    \A s \in Leaves(old) \cap Leaves(new) :
        ValOf(old)[s] = ValOf(new)[s] =>
          \E t \in Leaves(old) : /\ Aad[t] = Aad[s]
                                 /\ old.cell[t] = new.cell[s]

Rewritten(old, new) ==      \* edit, set, unset
    /\ Verifies(new)
    /\ new.key = old.key
    /\ Readers(new) = Readers(old)
    /\ KeepsUnchanged(old, new)

Rekeyed(old, new) ==        \* rotate
    /\ Verifies(new)
    /\ new.key # old.key
    /\ ValOf(new) = ValOf(old)
    /\ new.age = old.age

Readdressed(old, new) ==    \* updatekeys
    /\ new.age # old.age
    /\ new = [old EXCEPT !.age = new.age, !.other = new.other]

Outcome(old, new) ==
    \/ /\ old.kind = "sops" /\ new.kind = "sops"
       /\ Rewritten(old, new) \/ Rekeyed(old, new) \/ Readdressed(old, new)
    \/ /\ <<old.kind, new.kind>> \in     \* decrypt, encrypt
                {<<"sops", "plain">>, <<"plain", "sops">>}
       /\ ValOf(new) = ValOf(old)
       /\ new.kind = "sops" => Verifies(new)

Init == /\ file.kind \in {"plain", "sops"}
        /\ seen = [c \in Cmds |-> Unseen]

Look(c) == /\ seen[c] = Unseen
           /\ seen' = [seen EXCEPT ![c] = file]
           /\ UNCHANGED file

Replace(c) == /\ seen[c] \notin {Unseen, Spent}
              /\ Outcome(seen[c], file')
              /\ seen' = [seen EXCEPT ![c] = Spent]

Next == \E c \in Cmds : Look(c) \/ Replace(c)

Spec == Init /\ [][Next]_<<file, seen>>
=============================================================================
