------------------------------- MODULE SopsBlock ------------------------------
(***************************************************************************)
(* The sops: block (suminuri-wire/metadata.rs): who can unwrap the data    *)
(* key, the policy, the time and the MAC; its YAML form, both ways         *)
(* (suminuri/metabridge.rs); and its place in a file's tree                *)
(* (suminuri/file.rs).                                                     *)
(***************************************************************************)
EXTENDS SopsLeaf

CONSTANT Version    \* the sops release new files are stamped with

-----------------------------------------------------------------------------
\* The order in the file; the age keys come last.
Providers == <<"pgp", "kms", "gcp_kms", "hckms", "azure_kv", "hc_vault", "age">>

IdField == [pgp |-> "fp", kms |-> "arn", gcp_kms |-> "resource_id",
            hckms |-> "key_id", azure_kv |-> "vault_url",
            hc_vault |-> "key_name", age |-> "recipient"]

Wrap(recipient, key) == [provider |-> "age", recipient |-> recipient,
                         created_at |-> None, enc |-> [wraps |-> key]]

WrapAll(recipients, key) == [k \in DOMAIN recipients |-> Wrap(recipients[k], key)]

NewMeta(keys) ==
    [f \in Stages |-> None] @@
    [keys |-> keys, shamir_threshold |-> None, lastmodified |-> "", mac |-> None,
     mac_only_encrypted |-> FALSE, version |-> Version]

KeysFor(m, provider) ==
    FlattenSeq([k \in DOMAIN m.keys |->
                  IF m.keys[k].provider = provider THEN <<m.keys[k]>> ELSE <<>>])

AgeRecipients(m) == [k \in DOMAIN KeysFor(m, "age") |-> KeysFor(m, "age")[k].recipient]

Rewrap(m, keys) == [m EXCEPT !.keys = keys]
-----------------------------------------------------------------------------
\* to_tree: providers, time and MAC, what is set of the policy, version.

Text(word)   == Scalar(word, "plain")
Cipher(enc)  == [Missing EXCEPT !.enc = enc]
Armored(enc) == [Cipher(enc) EXCEPT !.style = "literal"]     \* age's, of several lines
Opt(field, word) == IF word \in {None, ""} THEN <<>> ELSE <<Pair(field, Text(word))>>

KeyTree(k) ==
    Mapping(<<Pair(IdField[k.provider], Text(k.recipient))>>
            \o (IF k.created_at = None THEN <<>>
                ELSE <<Pair("created_at", Text(k.created_at))>>)
            \o <<Pair("enc", IF k.provider = "age" THEN Armored(k.enc) ELSE Cipher(k.enc))>>)

PushProvider(m, provider) ==
    LET ks == KeysFor(m, provider) IN
    IF ks = <<>> THEN <<>>
    ELSE <<Pair(provider, List([j \in DOMAIN ks |-> Elem(KeyTree(ks[j]))]))>>

\* Mutant: the comment regexes are left out.
StageOrderOlder == <<"unencrypted_suffix", "encrypted_suffix",
                     "unencrypted_regex", "encrypted_regex">>

StageOrder == <<"unencrypted_suffix", "encrypted_suffix", "unencrypted_regex",
                "encrypted_regex", "unencrypted_comment_regex",
                "encrypted_comment_regex">>

MetaTree(m) ==
    Mapping(Opt("shamir_threshold", m.shamir_threshold)
        \o FlattenSeq([k \in DOMAIN Providers |-> PushProvider(m, Providers[k])])
        \o <<Pair("lastmodified", New(m.lastmodified)), Pair("mac", Cipher(m.mac))>>
        \o FlattenSeq([k \in DOMAIN StageOrder |->
                         Opt(StageOrder[k], m[StageOrder[k]])])
        \o (IF m.mac_only_encrypted THEN <<Pair("mac_only_encrypted", Text("true"))>>
            ELSE <<>>)
        \o <<Pair("version", Text(m.version))>>)
-----------------------------------------------------------------------------
\* from_tree: a field that is no scalar counts as absent.

AsStr(v, field) ==
    IF Get(v, field) = None THEN None
    ELSE IF Get(v, field).t # "scalar" THEN None ELSE Get(v, field)

Word(v, field) == IF AsStr(v, field) = None THEN None ELSE AsStr(v, field).text

Entries(sops, provider) ==
    LET v == Get(sops, provider) IN
    IF v = None THEN <<>>
    ELSE IF v.t # "seq" THEN <<>>
    ELSE FlattenSeq([k \in DOMAIN v.items |->
           IF v.items[k].t = "elem" THEN <<v.items[k].value>> ELSE <<>>])

WellFormed(provider, e) == AsStr(e, IdField[provider]) # None /\ AsStr(e, "enc") # None

KeyOf(provider, e) ==
    [provider |-> provider, recipient |-> Word(e, IdField[provider]),
     created_at |-> IF provider = "age" THEN None ELSE Word(e, "created_at"),
     enc |-> AsStr(e, "enc").enc]

MetaOf(sops) ==
    IF sops.t # "map" THEN Error("metadata is not a mapping")
    ELSE IF AsStr(sops, "lastmodified") = None \/ AsStr(sops, "mac") = None THEN
        Error("missing field")
    ELSE IF \E p \in ToSet(Providers) : \E e \in ToSet(Entries(sops, p)) :
                ~WellFormed(p, e) THEN Error("malformed key")
    ELSE [t |-> "meta",
          keys |-> FlattenSeq([k \in DOMAIN Providers |->
                     [j \in DOMAIN Entries(sops, Providers[k]) |->
                        KeyOf(Providers[k], Entries(sops, Providers[k])[j])]]),
          shamir_threshold |-> Word(sops, "shamir_threshold"),
          lastmodified |-> Word(sops, "lastmodified"),
          mac |-> AsStr(sops, "mac").enc,
          unencrypted_suffix |-> Word(sops, "unencrypted_suffix"),
          encrypted_suffix |-> Word(sops, "encrypted_suffix"),
          unencrypted_regex |-> Word(sops, "unencrypted_regex"),
          encrypted_regex |-> Word(sops, "encrypted_regex"),
          unencrypted_comment_regex |-> Word(sops, "unencrypted_comment_regex"),
          encrypted_comment_regex |-> Word(sops, "encrypted_comment_regex"),
          mac_only_encrypted |-> Word(sops, "mac_only_encrypted") = "true",
          version |-> IF Word(sops, "version") = None THEN Version
                      ELSE Word(sops, "version")]
-----------------------------------------------------------------------------
(***************************************************************************)
(* A file: its tree without the block, the block, and the indent found.    *)
(***************************************************************************)
WithMeta(root, meta, width) ==
    IF IsError(meta) THEN meta
    ELSE [t |-> "file", tree |-> Without(root, "sops"),
          meta |-> meta, width |-> width]

FromRoot(root, sops, width) ==
    IF sops = None THEN Error("not encrypted")
    ELSE IF Get(sops, "key_groups") # None THEN Error("key groups")
    ELSE WithMeta(root, MetaOf(sops), width)

EncryptedRoot(root, width) ==
    IF IsError(root) THEN root ELSE FromRoot(root, Get(root, "sops"), width)

PlainRoot(root) == IF IsError(root) \/ Get(root, "sops") = None THEN root
                   ELSE Error("already encrypted")

\* What is written of a file: its tree, and the block behind it.
RootOf(f) == Mapping(Append(f.tree.items, Pair("sops", MetaTree(f.meta))))
-----------------------------------------------------------------------------
(***************************************************************************)
(* Decrypted: the tree, the stash of its nonces and what the MAC says of   *)
(* the walk r.  A command that writes wants a leaf to verify; decrypt does *)
(* not.                                                                    *)
(***************************************************************************)
Verified(f, key, r, strict) ==
    IF r.x.err # None THEN Error(r.x.err)
    ELSE IF strict /\ r.x.fed = 0 THEN Error("nothing to verify")
    ELSE IF ~MacMatches(r.x, f.meta.mac, f.meta.lastmodified) THEN
        Error("MAC mismatch")
    ELSE [t |-> "open", tree |-> r.v, meta |-> f.meta, width |-> f.width,
          key |-> key, stash |-> r.x.stash, mac |-> f.meta.mac]

\* Encrypted: the leaves, then the time, then the MAC sealed to that time.
Stamped(f, r, old, now) ==
    IF r.x.err # None THEN Error(r.x.err)
    ELSE [f EXCEPT !.t = "file", !.tree = r.v, !.meta.lastmodified = now,
                   !.meta.mac = SealMac(r.x, now, old)]
=============================================================================
