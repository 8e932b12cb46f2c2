----------------------------- MODULE InstallPlan -----------------------------
(***************************************************************************)
(* The pure half of suminuri-install: what a manifest asks for and in      *)
(* which order it is placed (place.rs, manifest.rs).                       *)
(*                                                                         *)
(* A manifest is a value of Manifest[m]:                                   *)
(*   secrets   : a function from the names it declares to                  *)
(*               [key, file, users, owner, mode, link]                     *)
(*   templates : a function from the names it declares to                  *)
(*               [refs, stray, owner, mode, link]                          *)
(*   keep      : keepGenerations                                           *)
(*   resolved  : the mount point holds no %r, or XDG_RUNTIME_DIR is set    *)
(* "users" is neededForUsers; "link" says that the declared path lies      *)
(* outside symlinkPath; "refs" are the secrets whose markers the body      *)
(* holds; "stray" says that it also holds a marker of no known secret.     *)
(* Names, owners and modes are opaque; two of them are special.            *)
(***************************************************************************)
EXTENDS Integers, FiniteSets

CONSTANTS
    Secrets,        \* names a secret may have
    Templates,      \* names a template may have
    Keys,           \* key paths inside a sops file
    Files,          \* sops files
    KeysIn,         \* KeysIn[f]: the keys that resolve to a scalar in f
    Manifests,      \* identifiers of the manifests activations use
    Manifest,       \* [Manifests -> manifest record]
    UserMode,       \* the manifests' userMode
    Root,           \* symlinkPath itself, as a link to swap
    Stable,         \* the path under symlinkPath an out-of-tree link names
    None            \* no value

NoOwner    == "undeclared"
Creator    == "installer"
BadMode    == "not octal"
CreateMode == "0600"

Names     == Secrets \cup Templates
LinkPaths == Names \cup {Root}

SecretsOf(m)   == DOMAIN Manifest[m].secrets
TemplatesOf(m) == DOMAIN Manifest[m].templates
Entries(m)     == SecretsOf(m) \cup TemplatesOf(m)

Decl(m, n) == IF n \in Secrets THEN Manifest[m].secrets[n]
                               ELSE Manifest[m].templates[n]

Keep(m) == Manifest[m].keep

ASSUME PlanAssumption ==
    /\ Secrets \cap Templates = {}
    /\ Root \notin Names
    /\ None \notin LinkPaths \cup {Stable}
    /\ None \notin Manifests
    /\ Secrets \subseteq Keys
    /\ UserMode \in BOOLEAN
    /\ \A m \in Manifests :
         /\ SecretsOf(m) \subseteq Secrets
         /\ TemplatesOf(m) \subseteq Templates
         /\ Keep(m) \in Nat
         /\ \A s \in SecretsOf(m) : /\ Decl(m, s).key \in Keys
                                    /\ Decl(m, s).file \in Files
         /\ \A t \in TemplatesOf(m) : Decl(m, t).refs \subseteq Secrets

(***************************************************************************)
(* place::plan fails, before any step is executed, on a mode that is not   *)
(* octal, on an entry without ownership (not in user mode), and on a %r    *)
(* mount point without a runtime directory.                                *)
(***************************************************************************)
Plannable(m) ==
    /\ Manifest[m].resolved
    /\ \A n \in Entries(m) : /\ Decl(m, n).mode # BadMode
                             /\ UserMode \/ Decl(m, n).owner # NoOwner

(***************************************************************************)
(* Placement happens in three passes.  Inside a pass the plan follows the  *)
(* manifest's own order; no property depends on it, so any entry of the    *)
(* earliest unfinished pass may be next.                                   *)
(***************************************************************************)
UserPass(m) == {s \in SecretsOf(m) : Decl(m, s).users}
MainPass(m) == SecretsOf(m) \ UserPass(m)

NextEntries(m, todo) ==
    IF todo \cap UserPass(m) # {} THEN todo \cap UserPass(m)
    ELSE IF todo \cap MainPass(m) # {} THEN todo \cap MainPass(m)
    ELSE todo

\* After every entry: the out-of-tree links, then the link that publishes.
LinksOf(m) == {n \in Entries(m) : Decl(m, n).link} \cup {Root}

\* Mutant: the publishing link is never reached.
NextLinksOutOfTree(todo) == todo \ {Root}

NextLinks(todo) == IF todo = {Root} THEN todo ELSE todo \ {Root}

\* Mutant: one generation too many is kept.
DoomedOneLess(spares, keep) ==
    {g \in spares : Cardinality({h \in spares : h > g}) > keep}

\* What reap_generations removes from the generations that are not the
\* current one: all but the "keep" newest.
Doomed(spares, keep) ==
    {g \in spares : Cardinality({h \in spares : h > g}) >= keep}
=============================================================================
