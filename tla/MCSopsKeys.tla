----------------------------- MODULE MCSopsKeys ------------------------------
(***************************************************************************)
(* A repository with a config at its root and one below, two files, two    *)
(* operators and a node; the operator stands at the root.                  *)
(***************************************************************************)
EXTENDS SopsKeys, TLC

CONSTANTS me, them, node, host, pgp, vault, typo

A(word) == [word |-> word, eq |-> None]
Eq(word, v) == [word |-> word, eq |-> v]

MCUp == [d \in {"repo", "repo/sub"} |->
           IF d = "repo" THEN <<"repo">> ELSE <<"repo/sub", "repo">>]

Path(abs, dir, file) == [abs |-> abs, dir |-> dir, file |-> file]
MCPathOf == ("a.yaml" :> Path(FALSE, "repo", "a")) @@ ("/repo/a.yaml" :> Path(TRUE, "repo", "a"))
         @@ ("sub/b.yaml" :> Path(FALSE, "repo/sub", "b"))
         @@ ("/repo/sub/b.yaml" :> Path(TRUE, "repo/sub", "b"))

MCHits == ("^a.yaml$" :> {"a.yaml"})
       @@ ("b.yaml" :> {"sub/b.yaml", "/repo/sub/b.yaml"})

MCSplit == ("me" :> <<me>>) @@ ("me,them" :> <<me, them>>) @@ ("them" :> <<them>>)

Rule(regex, age) == [path_regex |-> regex, age |-> age, fields |-> <<>>]
Ours   == Rules(<<Rule("^a.yaml$", <<me>>), Rule(None, <<me, them>>)>>)
Theirs == Rules(<<Rule("b.yaml", <<them, node>>)>>)
Shared == Rules(<<Rule("^a.yaml$", <<me>>),
                  [Rule("b.yaml", <<me>>) EXCEPT !.fields = "pgp" :> {pgp}]>>)
Groups == Rules(<<[Rule(None, <<me>>) EXCEPT !.fields = "key_groups" :> {me, them}]>>)
Typed  == Rules(<<Rule(None, <<me, typo>>)>>)
\* Fields of sops's that the parser does not know.
More   == Rules(<<[Rule("b.yaml", <<me, them>>) EXCEPT !.fields =
             ("hc_vault_transit_uri" :> {vault}) @@ ("encrypted_comment_regex" :> {})]>>)
MCConfigs == {NoConfig, Ours, Theirs, Shared, Groups, Typed, More,
              [t |-> "garbage", rules |-> <<>>]}

MCKeyTexts == {Gone, Unreadable, Text({me}, FALSE), Text({}, TRUE)}

NoEnv == [SOPS_AGE_KEY |-> Gone, SOPS_AGE_KEY_FILE |-> None, SOPS_CONFIG |-> None]
MCEnvs == {NoEnv, [NoEnv EXCEPT !.SOPS_AGE_KEY = Text({them}, FALSE)],
           [NoEnv EXCEPT !.SOPS_AGE_KEY_FILE = "var", !.SOPS_CONFIG = "repo"]}
MCDefaultPlaces == [e \in MCEnvs |-> {"xdg", "home"}]

Disk(sub, b) ==
    [config |-> ("repo" :> Ours) @@ ("repo/sub" :> sub),
     keys   |-> ("xdg" :> Gone) @@ ("home" :> Text({me}, FALSE)) @@ ("var" :> Unreadable)
                @@ ("host" :> Text({host}, FALSE)),
     files  |-> ("a" :> Plain) @@ ("b" :> b)]
MCDisks == {Disk(NoConfig, Plain), Disk(Theirs, Sealed(<<me, host>>, {})),
            Disk(Theirs, Sealed(<<me>>, {pgp})), Disk(NoConfig, Sealed(<<>>, {pgp}))}

MCLines ==
    {<<A("encrypt"), A("-i"), A("a.yaml")>>,
     <<A("-e"), A("-i"), A("/repo/sub/b.yaml")>>,
     <<A("encrypt"), A("-i"), A("sub/b.yaml"), A("--age"), A("me,them")>>,
     <<A("-e"), A("-a"), A("me"), Eq("--age", "them"), A("--output"), A("a.yaml"),
       A("sub/b.yaml")>>,
     <<A("-e"), A("-i"), A("--pgp"), A("me"), A("--age"), A("me"), A("a.yaml")>>,
     <<A("-e"), A("-i"), A("--encrypted-suffix"), A("-s"), A("a.yaml")>>,
     <<A("updatekeys"), A("sub/b.yaml")>>,
     <<A("updatekeys"), A("/repo/sub/b.yaml")>>,
     <<A("updatekeys"), A("--config"), A("repo/sub"), A("sub/b.yaml")>>,
     <<A("updatekeys"), A("--age"), A("them"), A("a.yaml")>>,
     <<A("-r"), A("-i"), A("sub/b.yaml")>>,
     <<A("rotate"), A("-s"), A("sub/b.yaml")>>,
     <<A("-d"), A("-i"), A("a.yaml")>>,
     <<A("set"), A("a.yaml"), A("path"), A("value")>>,
     <<A("exec-env"), A("a.yaml"), A("sub/b.yaml")>>,
     <<A("a.yaml"), A("sub/b.yaml")>>, <<A("--age")>>, <<>>}

MCManifests == {[age_key_file |-> {"var"}, ssh_key_paths |-> {"host"}],
                [age_key_file |-> {"var"}, ssh_key_paths |-> {}]}
=============================================================================
