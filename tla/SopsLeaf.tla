------------------------------- MODULE SopsLeaf -------------------------------
(***************************************************************************)
(* What the walk over a sops tree (suminuri/walk.rs) does at one leaf,     *)
(* comment or item, encrypting or decrypting: the selector, the place the  *)
(* leaf is bound to, the stash of nonces, the MAC and its check            *)
(* (suminuri-wire).                                                        *)
(*                                                                         *)
(* AES-GCM is external: a ciphertext is the record of its key, nonce,      *)
(* place, type and plaintext, and opens under that key at that place only. *)
(* A hash is the bytes it was fed, one text run on into the next.          *)
(***************************************************************************)
EXTENDS YamlValue

CONSTANTS
    Colons,     \* key -> the components its text has, "a:b" being two
    Matches,    \* suffix or regex -> the keys and comments it matches
    Letters,    \* text -> its parts, where another text has one of them;
                \* any other text that is not empty is one part
    EncWord     \* what a regex or the MAC sees of a ciphertext

WalkErrors == {"self-defeating comment regex", "not an encrypted leaf of this file"}

ASSUME LeafAssumption == None \notin WalkErrors

ASSUME LettersAssumption ==
    \A v, w \in DOMAIN Letters : /\ Len(Letters[w]) > 1
                                 /\ Letters[v] = Letters[w] => v = w

-----------------------------------------------------------------------------
\* Types: a scalar as the plaintext that is sealed, and back.

Plaintext(type, text) == [type |-> type, text |-> text]

PlaintextOf(s) ==
    IF s.enc # None THEN Plaintext("str", EncWord)
    ELSE IF s.style # "plain" THEN Plaintext("str", s.text)
    ELSE IF s.text \in Trues THEN Plaintext("bool", "True")
    ELSE IF s.text \in Falses THEN Plaintext("bool", "False")
    ELSE IF s.text \in DOMAIN Ints THEN Plaintext("int", Ints[s.text])
    ELSE IF s.text \in DOMAIN Floats THEN Plaintext("float", Floats[s.text])
    ELSE Plaintext("str", s.text)

ScalarOf(pt) ==
    IF pt.type = "bool" THEN Scalar(IF pt.text = "True" THEN "true" ELSE "false", "plain")
    ELSE IF pt.type = "float" THEN Scalar(Shown[pt.text], "plain")
    ELSE IF pt.type \in {"int", "time"} THEN Scalar(pt.text, "plain")
    ELSE New(pt.text)

-----------------------------------------------------------------------------
(***************************************************************************)
(* The selector's six stages, each a pattern or None: the first of a pair  *)
(* exempts what it matches, the second starts again from nothing.  An      *)
(* empty pattern is none; with none set, a suffix exempts.  A comment does *)
(* not select itself.                                                      *)
(***************************************************************************)
Stages == {"unencrypted_suffix", "encrypted_suffix", "unencrypted_regex",
           "encrypted_regex", "unencrypted_comment_regex",
           "encrypted_comment_regex"}

Configured(m, f) == m[f] \notin {None, ""}

Selector(m) ==
    [f \in Stages |->
        IF Configured(m, f) THEN m[f]
        ELSE IF f = "unencrypted_suffix" /\ \A g \in Stages : ~Configured(m, g)
        THEN "_unencrypted" ELSE None]

SeenAs(i) == IF i.enc = None THEN i.text ELSE EncWord

Seen(sets) == {SeenAs(i) : i \in UNION {ToSet(sets[k]) : k \in DOMAIN sets}}

\* All but the last line of the innermost set: a comment's own text.
Above(sets) == [sets EXCEPT ![Len(sets)] = IF @ = <<>> THEN @ ELSE Front(@)]

Select(p, path, sets, is_comment) ==
    LET Hit(f, words) == p[f] # None /\ words \cap Matches[p[f]] # {}
        keys == ToSet(path)
        s1 == ~Hit("unencrypted_suffix", keys)
        s2 == IF p.encrypted_suffix = None THEN s1 ELSE Hit("encrypted_suffix", keys)
        s3 == s2 /\ ~Hit("unencrypted_regex", keys)
        s4 == IF p.encrypted_regex = None THEN s3 ELSE Hit("encrypted_regex", keys)
        s5 == s4 /\ ~Hit("unencrypted_comment_regex", Seen(sets))
    IN  IF p.encrypted_comment_regex = None THEN s5
        ELSE Hit("encrypted_comment_regex",
                 Seen(IF is_comment THEN Above(sets) ELSE sets))

\* The place: the path's components, joined by colons.  Lists add none.
Aad(path) == FlattenSeq([k \in DOMAIN path |-> Colons[path[k]]])
-----------------------------------------------------------------------------
(***************************************************************************)
(* A walk's context: its direction, the data key, the policy, the MAC and  *)
(* how many leaves it was fed, the stash, the nonces drawn, and the error  *)
(* that ends it.  Nothing stands between two texts the MAC is fed, nor for *)
(* an empty one: "ab" and "c" are to it what "a" and "bc" are.             *)
(***************************************************************************)
Context(dir, key, meta, stash, by) ==
    [dir |-> dir, key |-> key, policy |-> Selector(meta),
     mac_only |-> meta.mac_only_encrypted, mac |-> <<>>, fed |-> 0,
     stash |-> stash, by |-> by, drawn |-> 0, err |-> None]

Recall(x, pt, aad) == {e \in x.stash : e.aad = aad /\ e.pt = pt}

\* Mutant: one nonce per place.
RememberPlace(stash, pt, aad, iv) ==
    {e \in stash : e.aad # aad} \cup {[pt |-> pt, aad |-> aad, iv |-> iv]}

Remember(stash, pt, aad, iv) ==
    {e \in stash : e.aad # aad \/ e.pt # pt} \cup {[pt |-> pt, aad |-> aad, iv |-> iv]}

Fresh(x) == <<x.by, x.drawn + 1>>

Sealed(x, pt, aad) ==
    [key |-> x.key, aad |-> aad, pt |-> pt,
     iv |-> IF Recall(x, pt, aad) = {} THEN Fresh(x)
            ELSE (CHOOSE e \in Recall(x, pt, aad) : TRUE).iv]

Drew(x, pt, aad) == IF Recall(x, pt, aad) = {} THEN [x EXCEPT !.drawn = @ + 1] ELSE x

CanOpen(x, enc, aad) == enc # None /\ enc.key = x.key /\ enc.aad = aad

Bytes(text) == IF text = "" THEN <<>>
               ELSE IF text \in DOMAIN Letters THEN Letters[text] ELSE <<text>>

Feed(x, pt, encrypted) ==
    IF x.mac_only /\ ~encrypted THEN x
    ELSE [x EXCEPT !.fed = @ + 1, !.mac = @ \o Bytes(pt.text)]

Refuse(x, why) == [x EXCEPT !.err = why]

(***************************************************************************)
(* A comment is no part of the MAC.  Encrypting, the selector decides;     *)
(* decrypting, the file does, and what does not open stays as it is.       *)
(***************************************************************************)
VisitComment(x, i, path, sets) ==
    LET aad == Aad(path)
        pt  == Plaintext("comment", i.text)
    IN  IF x.dir = "encrypt" THEN
          IF ~Select(x.policy, path, sets, TRUE) \/ i.text = "" THEN [i |-> i, x |-> x]
          ELSE IF /\ x.policy.unencrypted_comment_regex # None
                  /\ EncWord \in Matches[x.policy.unencrypted_comment_regex]
          THEN [i |-> i, x |-> Refuse(x, "self-defeating comment regex")]
          ELSE [i |-> [i EXCEPT !.enc = Sealed(x, pt, aad)], x |-> Drew(x, pt, aad)]
        ELSE IF CanOpen(x, i.enc, aad)
        THEN [i |-> Comment(i.enc.pt.text),
              x |-> [x EXCEPT !.stash = Remember(@, i.enc.pt, aad, i.enc.iv)]]
        ELSE [i |-> i, x |-> x]

(***************************************************************************)
(* A null is no leaf.  An empty value is its own ciphertext.  The MAC is   *)
(* fed plaintext in both directions.                                       *)
(***************************************************************************)
VisitScalar(x, s, path, sets) ==
    LET aad == Aad(path)
        enc == Select(x.policy, path, sets, FALSE)
        pt  == PlaintextOf(s)
        fed == Feed(x, pt, enc)
    IN  IF IsNull(s) THEN [v |-> s, x |-> x]
        ELSE IF ~enc THEN [v |-> s, x |-> fed]
        ELSE IF x.dir = "encrypt" THEN
          IF pt.text = "" THEN [v |-> Missing, x |-> fed]
          ELSE [v |-> [Missing EXCEPT !.enc = Sealed(x, pt, aad)], x |-> Drew(fed, pt, aad)]
        ELSE IF s.enc = None /\ s.text = "" THEN
          [v |-> s, x |-> Feed(x, Plaintext("str", ""), TRUE)]
        ELSE IF CanOpen(x, s.enc, aad) THEN
          [v |-> ScalarOf(s.enc.pt),
           x |-> [Feed(x, s.enc.pt, TRUE) EXCEPT
                    !.stash = Remember(@, s.enc.pt, aad, s.enc.iv)]]
        ELSE [v |-> s, x |-> Refuse(x, "not an encrypted leaf of this file")]
-----------------------------------------------------------------------------
(***************************************************************************)
(* The walk in a collection: the items so far, the comments of its own     *)
(* that are in force, the context.  A comment joins them before it is      *)
(* visited; a value clears them, r being what the walk below it made.      *)
(***************************************************************************)
Begun(x) == [items |-> <<>>, own |-> <<>>, x |-> x]

Inside(path, i) == IF i.t = "pair" THEN Append(path, i.key) ELSE path

WalkItem(a, i, path, sets, r) ==
    IF a.x.err # None THEN [a EXCEPT !.items = Append(@, i)]
    ELSE IF i.t = "comment" THEN
        LET c == VisitComment(a.x, i, path, Append(sets, Append(a.own, i)))
        IN  [items |-> Append(a.items, c.i), own |-> Append(a.own, i), x |-> c.x]
    ELSE [items |-> Append(a.items, [i EXCEPT !.value = r.v]), own |-> <<>>, x |-> r.x]
-----------------------------------------------------------------------------
(***************************************************************************)
(* The file MAC: sealed under the time it was computed at, with the nonce  *)
(* of the one it replaces where nothing changed, not even the second.      *)
(***************************************************************************)
MacOf(x) == [seed |-> x.mac_only, fed |-> x.mac]

SealMac(x, now, old) ==
    [key |-> x.key, at |-> now, of |-> MacOf(x),
     iv |-> IF old # None /\ old.of = MacOf(x) /\ old.at = now
            THEN old.iv ELSE Fresh(x)]

\* Mutant: that the field opens is enough.
MacOpens(x, field, lastmodified) ==
    field # None /\ field.key = x.key /\ field.at = lastmodified

MacMatches(x, field, lastmodified) ==
    field # None /\ field.key = x.key /\ field.at = lastmodified /\ field.of = MacOf(x)
=============================================================================
