------------------------------ MODULE MCSopsFile -----------------------------
(***************************************************************************)
(* Two commands on one file with a list of two leaves, read by the         *)
(* operator, by a colleague and by a holder of a PGP key.                  *)
(***************************************************************************)
EXTENDS SopsFile

CONSTANTS c1, c2, a, b, me, them, pgp, NoLeaf

MCCmds == {c1, c2}
MCSlots == {1, 2}
OneList == [s \in MCSlots |-> "list"]
MCAgeLists == {<<me>>, <<me, them>>, <<them>>}
MCTimes == {0, 1}

Line(verb, to) == [verb |-> verb, to |-> to, ignore_mac |-> FALSE,
                   age |-> <<me>>, slot |-> 1, val |-> a]

MCInvocations ==
    {Line("decrypt", "file"), Line("decrypt", "stdout"), Line("encrypt", "file"),
     Line("rotate", "file"), Line("rotate", "out"), Line("edit", "file")}
    \cup {[Line("updatekeys", "file") EXCEPT !.age = l] : l \in MCAgeLists}
    \cup {[Line("set", "file") EXCEPT !.val = b, !.ignore_mac = m] : m \in BOOLEAN}
    \cup {[Line("set", "file") EXCEPT !.slot = 2], Line("unset", "file")}

Old(x, y, others, of) ==
    LET val == [s \in MCSlots |-> IF s = 1 THEN x ELSE y] IN
    [kind |-> "sops", key |-> Initial,
     cell |-> [s \in MCSlots |-> IF val[s] = NoLeaf THEN NoLeaf
                                 ELSE [val |-> val[s], nonce |-> <<Initial, s>>]],
     age |-> <<me>>, other |-> others, time |-> 0,
     mac |-> [of |-> IF of = "its leaves" THEN val ELSE [s \in MCSlots |-> b],
              at |-> 0, nonce |-> <<Initial, 0>>]]

MCStarts ==
    {[kind |-> "plain", val |-> [s \in MCSlots |-> a]],
     Old(a, a, {}, "its leaves"), Old(a, b, {pgp}, "its leaves"),
     Old(a, NoLeaf, {}, "its leaves"), Old(a, a, {}, "other leaves")}
=============================================================================
