----------------------------- MODULE Publication -----------------------------
(***************************************************************************)
(* What suminuri-install-secrets promises whoever reads /run/secrets: it   *)
(* is a register of whole generations.  It shows nothing at first, goes    *)
(* from one generation to another in one step, never changes in between,   *)
(* and is lost only when the machine restarts.                             *)
(***************************************************************************)
EXTENDS Naturals

CONSTANTS
    Whole,      \* the contents of generations that are complete
    Absent      \* there is no /run/secrets

VARIABLES
    current,    \* the generation a reader finds, or Absent
    content,    \* what it holds, or Absent
    boots       \* how often the machine has restarted

vars == <<current, content, boots>>

Init == current = Absent /\ content = Absent /\ boots = 0

Publish ==
    /\ current' \notin {current, Absent}
    /\ content' \in Whole
    /\ UNCHANGED boots

Restart ==
    /\ current' = Absent
    /\ content' = Absent
    /\ boots' = boots + 1

Next == Publish \/ Restart

Spec == Init /\ [][Next]_vars
=============================================================================
