----------------------------- MODULE MCInstaller -----------------------------
(***************************************************************************)
(* Small instances of Installer.  Two sops files; a secret the users' pass *)
(* needs, two of the main pass, one template over two of them.  Manifest   *)
(* "new" drops one secret and keeps another number of generations.         *)
(***************************************************************************)
EXTENDS InstallerClaims

MCKeysIn == [f \in Files |-> Keys]

Sec(f, k, u, o, md, l) ==
    [key |-> k, file |-> f, users |-> u, owner |-> o, mode |-> md, link |-> l]

MCManifest == [m \in Manifests |->
    [secrets |-> IF m = "old"
        THEN [s \in {"root-pw", "db"} |->
                IF s = "root-pw"
                THEN Sec("host.yaml", s, TRUE, "root", "0400", FALSE)
                ELSE Sec("app.yaml", s, FALSE, "postgres", "0440", TRUE)]
        ELSE [s \in {"db", "api"} |->
                IF s = "db"
                THEN Sec("app.yaml", s, FALSE, "postgres", "0440", TRUE)
                ELSE Sec("app.yaml", s, FALSE, "web", "0600", FALSE)],
     templates |-> IF m = "old" THEN << >>
        ELSE [t \in {"app.env"} |->
                [refs |-> {"db", "api"}, stray |-> FALSE,
                 owner |-> "web", mode |-> "0400", link |-> FALSE]],
     keep |-> IF m = "old" THEN 0 ELSE 1,
     resolved |-> TRUE]]

\* One manifest: two secrets of one file, one of them linked out of tree.
MCPair == [m \in Manifests |->
    [secrets |-> [s \in {"db", "api"} |->
        IF s = "db" THEN Sec("app.yaml", s, FALSE, "postgres", "0440", TRUE)
                    ELSE Sec("app.yaml", s, FALSE, "web", "0400", FALSE)],
     templates |-> << >>, keep |-> 1, resolved |-> TRUE]]

\* The same with the default keepGenerations.
MCKeepZero == [m \in Manifests |-> [MCPair[m] EXCEPT !.keep = 0]]

\* A secret whose name is another secret's key, and a template that uses it.
MCRenamed == [m \in Manifests |->
    [secrets |-> [s \in {"db", "api"} |->
        IF s = "db" THEN Sec("app.yaml", "api", FALSE, "postgres", "0440", FALSE)
                    ELSE Sec("host.yaml", "db", FALSE, "web", "0400", FALSE)],
     templates |-> [t \in {"app.env"} |->
        [refs |-> {"api"}, stray |-> FALSE,
         owner |-> "web", mode |-> "0400", link |-> FALSE]],
     keep |-> 1, resolved |-> TRUE]]
=============================================================================
