------------------------------- MODULE SopsMeta -------------------------------
(***************************************************************************)
(* A sops file (suminuri/file.rs), loaded from a text, decrypted,          *)
(* encrypted and rendered; its block is SopsBlock.                         *)
(*                                                                         *)
(* Unwrapping is external: the wrapped key of a recipient answers to that  *)
(* recipient's identity and to no other.                                   *)
(***************************************************************************)
EXTENDS SopsWalk, SopsBlock, YamlText

-----------------------------------------------------------------------------
LoadEncrypted(text) == EncryptedRoot(Parse(text), DetectIndent(text))

LoadPlain(text) == PlainRoot(Parse(text))

\* The first age key of the file that one of the identities opens.
DataKey(m, identities) ==
    LET ks == SelectSeq(KeysFor(m, "age"), LAMBDA k : k.recipient \in identities) IN
    IF ks = <<>> THEN None ELSE ks[1].enc.wraps

Decrypted(f, key) ==
    Walk(Context("decrypt", key, f.meta, {}, 0), f.tree, <<>>, <<>>)

OpenedWith(f, key, strict) ==
    IF key = None THEN Error("no identity matched")
    ELSE Verified(f, key, Decrypted(f, key), strict)

Opened(f, identities, strict) ==
    IF IsError(f) THEN f ELSE OpenedWith(f, DataKey(f.meta, identities), strict)

Encrypted(f, key, stash, old, now, by) ==
    IF f.tree.t # "map" THEN Error("the root is no mapping")
    ELSE Stamped(f, Walk(Context("encrypt", key, f.meta, stash, by), f.tree, <<>>, <<>>),
                 old, now)

Render(f) == Emit(RootOf(f), f.width)

RenderPlain(f) == Emit(f.tree, f.width)
=============================================================================
