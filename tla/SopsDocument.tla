----------------------------- MODULE SopsDocument ----------------------------
(***************************************************************************)
(* A sops file through a sequence of suminuri's commands (app.rs), down to *)
(* its text: each command parses what the one before wrote, decrypts it    *)
(* leaf by leaf, changes the tree, encrypts and emits it again.  A person  *)
(* may damage the text in between, as a merge of two versions does.        *)
(*                                                                         *)
(* meant is not in the code: the plaintext the last command stood for.     *)
(***************************************************************************)
EXTENDS SopsMeta

CONSTANTS
    Drafts,         \* plain texts: what a file holds before encrypt
    Policies,       \* what the command line and the creation rule ask of
                    \* encrypt; a comment regex reaches a file from sops only
    AgeLists,       \* recipient lists of --age or a creation rule
    Held,           \* recipients whose identities the operator holds
    Sets,           \* <<path, text>> of the set command lines
    Unsets,         \* paths of the unset command lines
    Rewrites(_),    \* what an editor may make of a plain text
    Times,          \* clock readings, to the second
    MaxCommands     \* bound: commands on one file

ASSUME DocumentAssumption == MaxCommands \in Nat

VARIABLES
    text,       \* what the file holds
    form,       \* "plain", "sealed" or "damaged"
    meant,      \* the tree it stands for
    readers,    \* the recipients the last encrypt or updatekeys named
    policy,     \* the policy encrypt was given
    past,       \* the text before the last command
    last,       \* the last command and its path
    n           \* commands so far

vars == <<text, form, meant, readers, policy, past, last, n>>

Step(verb, steps) == [verb |-> verb, steps |-> steps]

Init ==
    /\ text \in Drafts
    /\ form = "plain"
    /\ meant = LoadPlain(text)
    /\ readers = <<>>
    /\ policy = None
    /\ past = text
    /\ last = Step("none", <<>>)
    /\ n = 0

\* What open() makes of the file for a command that writes.
File == LoadEncrypted(text)
Open == Opened(File, Held, TRUE)

\* write_file_atomic: the file is one text or the other (SopsFile has the steps).
Writes(new, verb, steps) ==
    /\ n' = n + 1
    /\ past' = text
    /\ text' = new
    /\ last' = Step(verb, steps)

\* Encrypt and write, at some time.
Seals(f, key, stash, mac, verb, steps) ==
    \E now \in Times : \E e \in {Encrypted(f, key, stash, mac, now, n + 1)} :
        ~IsError(e) /\ Writes(Render(e), verb, steps)

Reseals(o, tree, verb, steps) ==
    Seals([o EXCEPT !.tree = tree], o.key, o.stash, o.mac, verb, steps)
-----------------------------------------------------------------------------
(***************************************************************************)
(* apply_selector_options: option by option, the command line before the   *)
(* rule; sops's own suffix is spelled out when none is asked.              *)
(***************************************************************************)
Picked(cli, rule) ==
    [f \in Stages |-> IF cli[f] # None THEN cli[f] ELSE rule[f]]
    @@ [mac_only_encrypted |-> cli.mac_only_encrypted \/ rule.mac_only_encrypted]

Asked(p) ==
    LET m == Picked(p.cli, p.rule) IN
    IF \A f \in Stages : m[f] = None
    THEN [m EXCEPT !.unencrypted_suffix = "_unencrypted"] ELSE m

(***************************************************************************)
(* encrypt: a new data key, the policy as asked, no nonce to reuse.        *)
(***************************************************************************)
Encrypt ==
    /\ form = "plain"
    /\ \E p \in Policies, age \in AgeLists, tree \in {LoadPlain(text)} :
         /\ ~IsError(tree)
         /\ Seals([t |-> "file", tree |-> tree, width |-> DetectIndent(text),
                   meta |-> Asked(p) @@ NewMeta(WrapAll(age, n + 1))],
                  n + 1, {}, None, "encrypt", <<>>)
         /\ meant' = tree
         /\ form' = "sealed" /\ readers' = age /\ policy' = Asked(p)

\* decrypt -i: the plaintext takes the file's place.
Decrypt ==
    /\ form = "sealed"
    /\ \E o \in {Opened(File, Held, FALSE)} :
         /\ ~IsError(o)
         /\ Writes(RenderPlain(o), "decrypt", <<>>)
    /\ form' = "plain" /\ readers' = <<>> /\ policy' = None
    /\ UNCHANGED meant

(***************************************************************************)
(* set and unset.  Nothing is written when the plaintext stays as it was.  *)
(***************************************************************************)
SetOrUnset(verb, steps, new) ==
    /\ form = "sealed"
    /\ \E o \in {Open} :
         /\ ~IsError(o)
         /\ \E after \in {Mutate(o.tree, steps, new)} :
              /\ ~IsError(after)
              /\ Emit(after, o.width) # RenderPlain(o)
              /\ Reseals(o, after, verb, steps)
    /\ meant' = Mutate(meant, steps, new)
    /\ UNCHANGED <<form, readers, policy>>

Set   == \E s \in Sets : SetOrUnset("set", s[1], New(s[2]))
Unset == \E steps \in Unsets : SetOrUnset("unset", steps, None)

(***************************************************************************)
(* edit: the editor is given the plaintext and leaves another text.        *)
(***************************************************************************)
Edit ==
    /\ form = "sealed"
    /\ \E o \in {Open} :
         /\ ~IsError(o)
         /\ \E before \in {RenderPlain(o)} : \E after \in Rewrites(before) \ {before} :
            \E tree \in {LoadPlain(after)} :
              /\ ~IsError(tree)
              /\ Reseals(o, tree, "edit", <<>>)
              /\ meant' = tree
    /\ UNCHANGED <<form, readers, policy>>

(***************************************************************************)
(* rotate: the same age recipients, a new data key, an empty stash.        *)
(***************************************************************************)
Rotate ==
    /\ form = "sealed"
    /\ \E o \in {Open} :
         /\ ~IsError(o)
         /\ AgeRecipients(o.meta) # <<>>
         /\ Seals([o EXCEPT !.meta = Rewrap(@, WrapAll(AgeRecipients(@), n + 1))],
                  n + 1, {}, None, "rotate", <<>>)
    /\ UNCHANGED <<form, meant, readers, policy>>

(***************************************************************************)
(* updatekeys: other recipients for the same key; the tree stays sealed.   *)
(***************************************************************************)
UpdateKeys ==
    /\ form = "sealed"
    /\ \E f \in {File}, age \in AgeLists :
         /\ ~IsError(f)
         /\ DataKey(f.meta, Held) # None
         /\ age # AgeRecipients(f.meta)
         /\ Writes(Render([f EXCEPT !.meta = Rewrap(@, WrapAll(age, DataKey(@, Held)))]),
                   "updatekeys", <<>>)
         /\ readers' = age
    /\ UNCHANGED <<form, meant, policy>>

(***************************************************************************)
(* A merge by hand of the file and what it was before the last command,    *)
(* where the two have the same lines: a run of lines taken from the old.   *)
(***************************************************************************)
Mergeable == /\ Len(past) = Len(text)
             /\ \A k \in DOMAIN text : /\ past[k].kind = text[k].kind
                                      /\ past[k].col = text[k].col

Merge ==
    /\ form = "sealed" /\ Mergeable
    /\ \E i, j \in {k \in DOMAIN text : past[k] # text[k]} :
         /\ i <= j
         /\ Writes([k \in DOMAIN text |-> IF k \in i..j THEN past[k] ELSE text[k]],
                   "merge", <<>>)
    /\ form' = "damaged"
    /\ UNCHANGED <<meant, readers, policy>>

Next ==
    /\ n < MaxCommands
    /\ \/ Encrypt \/ Decrypt \/ Set \/ Unset \/ Edit \/ Rotate \/ UpdateKeys
       \/ Merge

Spec == Init /\ [][Next]_vars
-----------------------------------------------------------------------------
TypeOK ==
    /\ form \in {"plain", "sealed", "damaged"}
    /\ n \in 0..MaxCommands
    /\ \A k \in DOMAIN text :
         /\ text[k].kind \in {"key", "dash", "scalar", "empty", "comment", "body"}
         /\ k > 1 => \/ text[k - 1].line < text[k].line
                     \/ text[k - 1].line = text[k].line /\ text[k - 1].col < text[k].col
    /\ ToSet(readers) \subseteq UNION {ToSet(a) : a \in AgeLists}

-----------------------------------------------------------------------------
\* A tree up to what YAML itself does not tell apart: its plaintexts.
RECURSIVE Norm(_)
Norm(v) ==
    IF v.t = "scalar"
    THEN IF IsNull(v) THEN Plaintext("null", "") ELSE PlaintextOf(v)
    ELSE [t |-> v.t,
          items |-> [k \in DOMAIN v.items |->
             CASE v.items[k].t = "comment" -> <<"comment", v.items[k].text>>
               [] v.items[k].t = "pair" ->
                    <<"pair", v.items[k].key, Norm(v.items[k].value)>>
               [] OTHER -> <<"elem", Norm(v.items[k].value)>>]]

(***************************************************************************)
(* What a command wrote, each of the readers it was written for opens, and *)
(* finds what was meant: the emitter and the parser, the two directions of *)
(* the walk, the selector, the block and the MAC agree (emit.rs:28).       *)
(***************************************************************************)
OpensAsMeant ==
    form = "sealed" =>
        \A f \in {File}, norm \in {Norm(meant)} : \A r \in ToSet(readers) :
            \A o \in {Opened(f, {r}, FALSE)} : ~IsError(o) /\ Norm(o.tree) = norm

(***************************************************************************)
(* Nothing but encrypt changes what of the file is encrypted: a policy is  *)
(* carried through every command that rewrites the block.                  *)
(***************************************************************************)
PolicyKept ==
    form = "sealed" =>
        \A f \in {File} :
          ~IsError(f) /\ \A s \in DOMAIN policy : f.meta[s] = policy[s]

(***************************************************************************)
(* The values the MAC is about: of a policy with mac_only_encrypted the    *)
(* encrypted ones, else all; a comment is in neither (walk.rs:181).        *)
(***************************************************************************)
RECURSIVE Covered(_, _, _)
Covered(m, v, path) ==
    IF v.t = "scalar"
    THEN IF IsNull(v) \/ (m.mac_only_encrypted /\ ~Select(Selector(m), path, <<>>, FALSE))
         THEN <<>> ELSE <<<<path, PlaintextOf(v)>>>>
    ELSE FlattenSeq([k \in DOMAIN v.items |->
            CASE v.items[k].t = "comment" -> <<>>
              [] v.items[k].t = "pair" ->
                    Covered(m, v.items[k].value, Append(path, v.items[k].key))
              [] OTHER -> Covered(m, v.items[k].value, path)])

CoveredIn(o) == IF IsError(o) THEN <<>> ELSE Covered(o.meta, o.tree, <<>>)

Read(t) == CoveredIn(Opened(LoadEncrypted(t), Held, TRUE))

(***************************************************************************)
(* A merge of two versions is refused, or its values run together as those *)
(* of one of the two do (mac.rs:144), in whatever lines it was made: not   *)
(* counting empty ones, it is that version or differs from it in two       *)
(* values at least, never in a single one (verified.rs).                   *)
(***************************************************************************)
TextsOf(read) == LET at == SelectSeq(read, LAMBDA l : l[2].text # "") IN
                 [k \in DOMAIN at |-> at[k][2].text]

RunTogether(texts) == FlattenSeq([k \in DOMAIN texts |-> Bytes(texts[k])])

Redivided(new, old) ==
    LET common == DOMAIN new \cap DOMAIN old
        changed == (DOMAIN new \cup DOMAIN old) \ {k \in common : new[k] = old[k]}
    IN  RunTogether(new) = RunTogether(old) /\ Cardinality(changed) # 1

MixesRunTogether ==
    [][form' = "damaged" /\ form = "sealed" =>
         \A new \in {Read(text')} :
            \/ new = <<>>
            \/ \E old \in {Read(text), Read(past)} : Redivided(TextsOf(new), TextsOf(old))]_vars

(***************************************************************************)
(* "writing one key leaves every other line byte-identical" (app.rs:798):  *)
(* set seals one leaf anew and unset none, whatever else the file holds.   *)
(***************************************************************************)
Ciphers(t) == {x.x.enc : x \in {y \in ToSet(t) : y.kind \in {"scalar", "comment"}}} \ {None}

Leaf(enc) == "pt" \in DOMAIN enc

OneLeafSealed ==
    [][last'.verb \in {"set", "unset"} /\ n' # n =>
         LET new == {e \in Ciphers(text') \ Ciphers(text) : Leaf(e)}
         IN  IF last'.verb = "set" THEN Cardinality(new) <= 1 ELSE new = {}]_vars

(***************************************************************************)
(* What set and unset do not name, they do not change: --extract shows the *)
(* same value of any key apart from the path, before and after.            *)
(***************************************************************************)
Apart(p, q) == \E k \in DOMAIN p \cap DOMAIN q : IsKey(p[k]) /\ IsKey(q[k]) /\ p[k] # q[k]

Shows(o, q) == IF IsError(o) THEN o
               ELSE LET v == Extract(o.tree, q) IN IF IsError(v) THEN v ELSE Norm(v)

Decrypts(t) == Opened(LoadEncrypted(t), Held, FALSE)

OthersShownAlike ==
    [][last'.verb \in {"set", "unset"} /\ n' # n =>
         \A before \in {Decrypts(text)}, after \in {Decrypts(text')} :
             \A q \in Unsets \cup {s[1] : s \in Sets} :
                Apart(q, last'.steps) => Shows(after, q) = Shows(before, q)]_vars
=============================================================================
