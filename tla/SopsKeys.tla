------------------------------- MODULE SopsKeys -------------------------------
(***************************************************************************)
(* Who a sops file is sealed for and who opens it: suminuri's recipients,  *)
(* from the command line or the creation rules of a .sops.yaml (config.rs, *)
(* resolve_recipients of app.rs), and its identities, from the environment *)
(* and key files (keys.rs), over a tree of directories whose configs and   *)
(* key files come, change and go between commands.                         *)
(*                                                                         *)
(* A sealed file is its age recipients, in order, and those of providers   *)
(* this build does not serve.  age is external: what is wrapped for a      *)
(* recipient answers to that recipient's identity, here of the same name.  *)
(* An SSH key is another recipient than any X25519 key: this build opens   *)
(* what was sealed for one elsewhere, and seals for none itself.           *)
(***************************************************************************)
EXTENDS SopsCommand, Integers, FiniteSets

CONSTANTS
    Up,             \* directory -> it and those above it, nearest first
    Cwd,            \* where the operator stands
    PathOf,         \* path as written -> [abs, dir, file]
    Hits,           \* regex -> the paths as written it matches
    Valid,          \* age's X25519 recipients that are well formed
    Ssh,            \* SSH keys: age's recipients too, but not this build's
    Places,         \* key files
    DefaultPlaces,  \* environment -> the key files it makes the default
    Configs,        \* what a .sops.yaml may hold
    KeyTexts,       \* what a key file may hold
    Envs,           \* environments of the operator
    Disks,          \* the disk at first: configs, key files and files
    Lines,          \* command lines
    Manifests,      \* [age_key_file, ssh_key_paths] of installers
    MaxSteps        \* bound: commands and changes of the disk

VARIABLES
    config,     \* directory -> what its .sops.yaml holds
    keys,       \* key file -> what it holds
    files,      \* file -> what it holds
    env,        \* the operator's environment
    ran,        \* the last command and how it ended
    n           \* steps so far

vars == <<config, keys, files, env, ran, n>>

Plain == [form |-> "plain", age |-> <<>>, other |-> {}]
Sealed(age, other) == [form |-> "sealed", age |-> age, other |-> other]

\* A key file or an inline key: absent, unreadable, or identities and whether
\* a line only looks like one; an SSH key file is one identity or a bad one.
Text(ids, bad) == [t |-> "text", ids |-> ids, bad |-> bad]
Gone           == [t |-> "absent", ids |-> {}, bad |-> FALSE]
Unreadable     == [t |-> "unreadable", ids |-> {}, bad |-> FALSE]

NoConfig       == [t |-> "absent", rules |-> <<>>]
Rules(rules)   == [t |-> "rules", rules |-> rules]

\* A rule is its regex, its recipients, and what its other fields ask for.
Refused == {"pgp", "kms", "gcp_kms", "hckms", "azure_keyvault",
            "hc_vault_transit", "key_groups"}

\* A file has a recipient once a command sealed it, and age's are well formed.
FileOK(f) ==
    /\ f.form \in {"plain", "sealed"}
    /\ f.form = "sealed" => f.age # <<>> \/ f.other # {}
    /\ ToSet(f.age) \subseteq Valid \cup Ssh

ConfigOK(c) == /\ c.t \in {"absent", "garbage", "rules"}
               /\ Len(c.rules) \in Nat /\ DOMAIN c.rules = 1..Len(c.rules)
KeysOK(t)   == t.t \in {"absent", "unreadable", "text"}

\* Every path as written, and every file and directory that a command line or
\* the environment names, is of the disk; an argument is not taken for a manifest.
ASSUME KeysAssumption ==
    /\ \A d \in DOMAIN Up : Up[d] \in Seq(DOMAIN Up) \ {<<>>} /\ Up[d][1] = d
    /\ Cwd \in DOMAIN Up
    /\ \A q \in DOMAIN PathOf : PathOf[q].dir \in DOMAIN Up
    /\ \A e \in Envs : e.SOPS_CONFIG \in DOMAIN Up \cup {None}
    /\ \A e \in Envs : DefaultPlaces[e] \subseteq Places
    /\ MaxSteps \in Nat /\ Valid \cap Ssh = {}
    /\ \A d \in Disks :
         /\ \A q \in DOMAIN PathOf : PathOf[q].file \in DOMAIN d.files \ {None}
         /\ \A f \in DOMAIN d.files : FileOK(d.files[f])
         /\ DOMAIN d.config = DOMAIN Up
         /\ \A x \in DOMAIN Up : ConfigOK(d.config[x])
         /\ Places \subseteq DOMAIN d.keys
         /\ \A p \in Places : KeysOK(d.keys[p])
    /\ \A c \in Configs : ConfigOK(c)
    /\ \A t \in KeyTexts : KeysOK(t)
    /\ \A args \in Lines :
         /\ Len(args) \in Nat /\ DOMAIN args = 1..Len(args)
         /\ \A k \in DOMAIN args : DOMAIN args[k] = {"word", "eq"}
         /\ {Parse(args).file, Parse(args).output} \subseteq DOMAIN PathOf \cup {None}
         /\ Parse(args).config \in DOMAIN Up \cup {None}
    /\ \A m \in Manifests : DOMAIN m = {"age_key_file", "ssh_key_paths"}
-----------------------------------------------------------------------------
(***************************************************************************)
(* discover: the inline key, and the file the environment names or else    *)
(* the default ones.  A missing file is passed over; one that cannot be    *)
(* read, or a line that is no identity after all, ends the command.        *)
(***************************************************************************)
Candidates(e) ==
    IF e.SOPS_AGE_KEY_FILE # None THEN {e.SOPS_AGE_KEY_FILE} ELSE DefaultPlaces[e]

Consulted(e) == {e.SOPS_AGE_KEY} \cup {keys[p] : p \in Candidates(e)}

\* The identities discovered; none is the command's error.
Identities(e) ==
    IF \E t \in Consulted(e) : t.t = "unreadable" \/ t.bad THEN {}
    ELSE UNION {t.ids \cap Valid : t \in Consulted(e)}

\* A host key, where age can use it, is an identity of its own kind: an SSH
\* one, which answers to what was wrapped for that SSH key and nothing else.
HostKeys(m) ==
    UNION {keys[p].ids \cap Ssh : p \in {q \in m.ssh_key_paths : ~keys[q].bad}}

\* Mutant: a file that cannot be read is an error here as well.
FromPathsStrictly(m) ==
    LET all == m.age_key_file \cup m.ssh_key_paths IN
    IF \E p \in all : keys[p].bad \/ keys[p].t = "unreadable" THEN {}
    ELSE (UNION {keys[p].ids \cap Valid : p \in m.age_key_file}) \cup HostKeys(m)

(***************************************************************************)
(* from_paths, for an installer's manifest: what cannot be read is passed  *)
(* over, and so is an SSH key age cannot use.                              *)
(***************************************************************************)
FromPaths(m) ==
    IF \E p \in m.age_key_file : keys[p].bad THEN {}
    ELSE (UNION {keys[p].ids \cap Valid : p \in m.age_key_file}) \cup HostKeys(m)

\* unwrap_data_key: the first age key that one of the identities opens.
Unwraps(f, ids) == f.form = "sealed" /\ ToSet(f.age) \cap ids # {}
-----------------------------------------------------------------------------
\* parse: any rule with one of seven fields, the one that matches or not.  Of
\* other fields it does not know, nothing is read.
Refuses(c) == \/ c.t = "garbage"
              \/ \E r \in ToSet(c.rules) : DOMAIN r.fields \cap Refused # {}

(***************************************************************************)
(* The config: --config's, $SOPS_CONFIG's, or the first on the way up from *)
(* an absolute path; for a relative one only the working directory's.      *)
(***************************************************************************)
Walked(path) == IF PathOf[path].abs THEN Up[PathOf[path].dir] ELSE <<Cwd>>

Nearest(configs, path) ==
    LET walk  == Walked(path)
        found == {k \in DOMAIN walk : configs[walk[k]].t # "absent"}
    IN  IF found = {} THEN None ELSE walk[Min(found)]

Governing(inv) ==
    IF inv.config # None THEN inv.config
    ELSE IF env.SOPS_CONFIG # None THEN env.SOPS_CONFIG
    ELSE Nearest(config, inv.file)

Matches(r, path) == r.path_regex = None \/ path \in Hits[r.path_regex]

\* rule_for: the first that matches the path as it was written.
RuleFor(c, path) ==
    LET hits == {k \in DOMAIN c.rules : Matches(c.rules[k], path)} IN
    IF hits = {} THEN None ELSE c.rules[Min(hits)]

\* resolve_recipients: <<>> stands for every way there are none.
Recipients(inv) ==
    LET d == Governing(inv) IN
    IF inv.age # <<>> THEN inv.age
    ELSE IF d = None THEN <<>>
    ELSE IF config[d].t = "absent" \/ Refuses(config[d]) THEN <<>>
    ELSE IF RuleFor(config[d], inv.file) = None THEN <<>>
    ELSE RuleFor(config[d], inv.file).age

\* Mutant: a recipient that is no key is found out by whoever decrypts.
WrapsAnyone(age) == age # <<>>

Wraps(age) == age # <<>> /\ ToSet(age) \subseteq Valid
-----------------------------------------------------------------------------
File(inv) == PathOf[inv.file].file

\* Where a command writes: --output, else the file itself, else nowhere.
Target(inv) == IF inv.output # None THEN PathOf[inv.output].file
               ELSE IF inv.in_place THEN File(inv) ELSE None

Wrote(target, new) ==
    IF target = None THEN files ELSE [files EXCEPT ![target] = new]

Outcome(code, held) == [code |-> code, files |-> held]

Failed    == Outcome("failed", files)
Unchanged == Outcome("unchanged", files)

\* Mutant: the command line's recipients are added to those there were.
UpdatedAdding(inv) ==
    LET f == files[File(inv)]
        age == f.age \o Recipients(inv)
    IN  IF ~Unwraps(f, Identities(env)) \/ ~Wraps(Recipients(inv)) THEN Failed
        ELSE Outcome("ok", [files EXCEPT ![File(inv)] = Sealed(age, {})])

\* Mutant: what no identity unwraps is encrypted anew all the same.
RotatedBlindly(inv) ==
    LET f == files[File(inv)] IN
    IF f.form = "plain" \/ ~Wraps(f.age) THEN Failed
    ELSE Outcome("ok", Wrote(Target(inv), Sealed(f.age, {})))

Decrypted(inv) ==
    IF ~Unwraps(files[File(inv)], Identities(env)) THEN Failed
    ELSE Outcome("ok", Wrote(Target(inv), Plain))

Encrypted(inv) ==
    IF files[File(inv)].form = "sealed" \/ ~Wraps(Recipients(inv)) THEN Failed
    ELSE Outcome("ok", Wrote(Target(inv), Sealed(Recipients(inv), {})))

Rotated(inv) ==
    LET f == files[File(inv)] IN
    IF ~Unwraps(f, Identities(env)) \/ ~Wraps(f.age) THEN Failed
    ELSE Outcome("ok", Wrote(Target(inv), Sealed(f.age, {})))

\* updatekeys writes the file itself, whatever the flags say.
Updated(inv) ==
    LET f == files[File(inv)] IN
    IF ~Unwraps(f, Identities(env)) \/ Recipients(inv) = <<>> THEN Failed
    ELSE IF f.age = Recipients(inv) THEN Unchanged
    ELSE IF ~Wraps(Recipients(inv)) THEN Failed
    ELSE Outcome("ok", [files EXCEPT ![File(inv)] = Sealed(Recipients(inv), {})])

\* edit, set and unset keep the readers; what else they do is SopsDocument's.
Rewritten(inv) ==
    IF Unwraps(files[File(inv)], Identities(env)) THEN Outcome("ok", files) ELSE Failed

\* run(): refuse first, then dispatch.
Result(inv) ==
    IF \/ inv.error # None \/ inv.unsupported # {} \/ inv.verb \in Unserved
       \/ inv.file = None /\ inv.verb \notin {"help", "version"}
    THEN Failed
    ELSE CASE inv.verb \in {"help", "version", "filestatus"} -> Outcome("ok", files)
           [] inv.verb = "decrypt"    -> Decrypted(inv)
           [] inv.verb = "encrypt"    -> Encrypted(inv)
           [] inv.verb = "rotate"     -> Rotated(inv)
           [] inv.verb = "updatekeys" -> Updated(inv)
           [] OTHER                   -> Rewritten(inv)
-----------------------------------------------------------------------------
Init ==
    /\ \E d \in Disks : config = d.config /\ keys = d.keys /\ files = d.files
    /\ env \in Envs
    /\ ran = [args |-> <<>>, code |-> "none"]
    /\ n = 0

Run ==
    /\ \E args \in Lines :
         LET r == Result(Parse(args)) IN
           /\ files' = r.files
           /\ ran' = [args |-> args, code |-> r.code]
    /\ UNCHANGED <<config, keys, env>>

\* An installer's start: it goes on with the identities its manifest names.
Install ==
    /\ \E m \in Manifests, f \in DOMAIN files :
         ran' = [args |-> <<m, f>>,
                 code |-> IF FromPaths(m) = {} THEN "no identity"
                          ELSE IF Unwraps(files[f], FromPaths(m)) THEN "opens"
                          ELSE "failed"]
    /\ UNCHANGED <<config, keys, files, env>>

WriteConfig ==
    /\ \E d \in DOMAIN config, c \in Configs :
         c # config[d] /\ config' = [config EXCEPT ![d] = c]
    /\ ran' = [args |-> <<>>, code |-> "none"]
    /\ UNCHANGED <<keys, files, env>>

WriteKeys ==
    /\ \E p \in Places, t \in KeyTexts : t # keys[p] /\ keys' = [keys EXCEPT ![p] = t]
    /\ ran' = [args |-> <<>>, code |-> "none"]
    /\ UNCHANGED <<config, files, env>>

Next ==
    /\ n < MaxSteps
    /\ n' = n + 1
    /\ Run \/ Install \/ WriteConfig \/ WriteKeys

Spec == Init /\ [][Next]_vars
-----------------------------------------------------------------------------
\* The types of what is on the disk, whatever commands made of it.
TypeOK ==
    /\ \A f \in DOMAIN files : FileOK(files[f])
    /\ \A d \in DOMAIN config : ConfigOK(config[d])
    /\ \A p \in Places : KeysOK(keys[p])
    /\ env \in Envs
    /\ n \in 0..MaxSteps

Line == Parse(ran'.args)

Sealing == ran'.code = "ok" /\ ran'.args \in Lines
           /\ Line.verb \in {"encrypt", "updatekeys"}

\* The arguments that are the value of the option before them.
Values(args) ==
    LET value[k \in DOMAIN args] ==
            k > 1 /\ args[k - 1].word \in Valued /\ args[k - 1].eq = None /\ ~value[k - 1]
    IN  {k \in DOMAIN args : value[k]}

(***************************************************************************)
(* "refusing rather than silently dropping those recipients" (config.rs:   *)
(* 37, cli.rs:22): when a file is sealed for new readers, whoever the      *)
(* command line asks for, or else the first matching rule of the config    *)
(* that governs, in age or a field it refuses, is a reader, and nobody     *)
(* else is; no option of sops's that is not served was on the line.        *)
(***************************************************************************)
Asks(c, path, fields) ==
    LET k == CHOOSE k \in DOMAIN c.rules :
                /\ Matches(c.rules[k], path)
                /\ \A j \in 1..(k - 1) : ~Matches(c.rules[j], path)
        r == c.rules[k]
    IN  ToSet(r.age) \cup UNION {r.fields[f] : f \in DOMAIN r.fields \cap fields}

Named(inv) == IF inv.age # <<>> THEN ToSet(inv.age)
              ELSE Asks(config[Governing(inv)], inv.file, Refused)

NobodyDropped ==
    [][Sealing =>
         /\ \A k \in DOMAIN ran'.args \ Values(ran'.args) :
              ran'.args[k].word \notin UnsupportedWithValue \cup UnsupportedFlags
         /\ LET f == IF Line.verb = "updatekeys" THEN File(Line) ELSE Target(Line) IN
              f # None => ToSet(files'[f].age) \cup files'[f].other = Named(Line)]_vars

(***************************************************************************)
(* Sealing settles: updatekeys with the same options finds nothing to do   *)
(* right after, unless it took its own caller's access away.               *)
(***************************************************************************)
SecondUpdateQuiet ==
    LET inv == Parse(ran.args) IN
    ran.code = "ok" /\ ran.args \in Lines /\ inv.verb \in {"encrypt", "updatekeys"}
      /\ (inv.verb = "encrypt" => Target(inv) = File(inv))
      /\ Unwraps(files[File(inv)], Identities(env))
    => Updated(inv) = Unchanged

(***************************************************************************)
(* Only who could open a sealed file changes it, but for a command whose   *)
(* --output names it.                                                      *)
(***************************************************************************)
OnlyReadersReplace ==
    [][\A f \in DOMAIN files :
         files[f].form = "sealed" /\ files'[f] # files[f] =>
           \/ Unwraps(files[f], Identities(env))
           \/ Line.output # None /\ Target(Line) = f]_vars

(***************************************************************************)
(* "a node can boot before /var/lib is mounted while its ssh host key is   *)
(* already present" (keys.rs:179): of a file that sops sealed for the SSH  *)
(* host key, that key is enough, unless the age key file can be read and   *)
(* is damaged.                                                             *)
(***************************************************************************)
HostKeyEnough ==
    \A m \in Manifests, f \in DOMAIN files :
      ran.args = <<m, f>> /\ Unwraps(files[f], HostKeys(m))
        /\ (\A p \in m.age_key_file : ~keys[p].bad)
      => ran.code = "opens"

(***************************************************************************)
(* "A rule carrying `key_groups`, or a provider this build cannot wrap, is *)
(* a named refusal" (config.rs:16), sops's name for Vault's among them:    *)
(* whoever such a field asks for is a reader of what is sealed by the rule.*)
(***************************************************************************)
Providers == Refused \cup {"hc_vault_transit_uri"}

ProvidersRefused ==
    [][Sealing /\ Line.verb = "updatekeys" /\ Line.age = <<>> =>
         Asks(config[Governing(Line)], Line.file, Providers)
           \subseteq ToSet(files'[File(Line)].age) \cup files'[File(Line)].other]_vars

(***************************************************************************)
(* "Find and parse the nearest .sops.yaml, walking up from start"          *)
(* (config.rs:78): whatever the path looks like.                           *)
(***************************************************************************)
NearestGoverns ==
    [][Sealing /\ Line.age = <<>> /\ Line.config = None /\ env.SOPS_CONFIG = None =>
         \A d \in ToSet(Up[PathOf[Line.file].dir]) :
           config[d].t # "absent" =>
             Governing(Line) \in ToSet(Up[PathOf[Line.file].dir])
             /\ Len(Up[d]) <= Len(Up[Governing(Line)])]_vars
=============================================================================
