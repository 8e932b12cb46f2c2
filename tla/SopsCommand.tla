------------------------------ MODULE SopsCommand -----------------------------
(***************************************************************************)
(* suminuri's command line (cli.rs): a sequence of arguments read as one   *)
(* of sops's verbs, a file and options, or refused.                        *)
(*                                                                         *)
(* An argument is its word up to an "=", and what follows it, or None.     *)
(* --verbose and the version check say nothing here and are left out.      *)
(***************************************************************************)
EXTENDS Sequences, SequencesExt

CONSTANTS
    None,       \* not given
    Split,      \* list of recipients as written -> the recipients in it
    Unknown,    \* other words that begin with a dash
    Numbers     \* words that are numbers

Served   == {"decrypt", "encrypt", "edit", "rotate", "updatekeys",
             "filestatus", "set", "unset", "help"}
Unserved == {"groups", "exec-env", "exec-file", "publish", "keyservice",
             "completion"}

VerbFlags ==
    [w \in {"-d", "--decrypt", "-e", "--encrypt", "-r", "--rotate",
            "-v", "--version", "-h", "--help"} |->
        CASE w \in {"-d", "--decrypt"} -> "decrypt"
          [] w \in {"-e", "--encrypt"} -> "encrypt"
          [] w \in {"-r", "--rotate"}  -> "rotate"
          [] w \in {"-v", "--version"} -> "version"
          [] w \in {"-h", "--help"}    -> "help"]

Switches ==
    [w \in {"-i", "--in-place", "--ignore-mac", "--mac-only-encrypted"} |->
        CASE w \in {"-i", "--in-place"}   -> "in_place"
          [] w = "--ignore-mac"           -> "ignore_mac"
          [] w = "--mac-only-encrypted"   -> "mac_only_encrypted"]

Options ==
    [w \in {"--output", "--extract", "--input-type", "--output-type", "--config",
            "--unencrypted-suffix", "--encrypted-suffix", "--unencrypted-regex",
            "--encrypted-regex", "--indent"} |->
        CASE w = "--output"              -> "output"
          [] w = "--extract"             -> "extract"
          [] w = "--input-type"          -> "input_type"
          [] w = "--output-type"         -> "output_type"
          [] w = "--config"              -> "config"
          [] w = "--unencrypted-suffix"  -> "unencrypted_suffix"
          [] w = "--encrypted-suffix"    -> "encrypted_suffix"
          [] w = "--unencrypted-regex"   -> "unencrypted_regex"
          [] w = "--encrypted-regex"     -> "encrypted_regex"
          [] w = "--indent"              -> "indent"]

Ages == {"-a", "--age"}

\* What sops has and this build refuses: with a value, and without.
UnsupportedWithValue ==
    {"--kms", "-k", "--aws-profile", "--gcp-kms", "--hckms", "--azure-kv",
     "--hc-vault-transit", "--pgp", "-p", "--add-gcp-kms", "--rm-gcp-kms",
     "--add-hckms", "--rm-hckms", "--add-azure-kv", "--rm-azure-kv", "--add-kms",
     "--rm-kms", "--add-hc-vault-transit", "--rm-hc-vault-transit", "--add-pgp",
     "--rm-pgp", "--encryption-context", "--set",
     "--shamir-secret-sharing-threshold", "--unencrypted-comment-regex",
     "--encrypted-comment-regex", "--decryption-order", "--keyservice",
     "--filename-override", "--add-age", "--rm-age"}
UnsupportedFlags == {"--show-master-keys", "-s", "--enable-local-keyservice"}

\* What is followed by a value, in the same argument or the next.
Valued == DOMAIN Options \cup Ages \cup UnsupportedWithValue

Dashed(a) == a.word \in DOMAIN VerbFlags \cup DOMAIN Switches \cup Valued
                        \cup UnsupportedFlags \cup Unknown \cup {"-"}

ParseErrors == {"not a number", "too many files", "unknown flag", "missing value"}

ASSUME NoneAssumption == None \notin Valued \cup UnsupportedFlags \cup ParseErrors

Blank ==
    [verb |-> "help", file |-> None, path_expr |-> None, value_expr |-> None,
     in_place |-> FALSE, ignore_mac |-> FALSE, mac_only_encrypted |-> FALSE,
     output |-> None, extract |-> None, input_type |-> None, output_type |-> None,
     config |-> None, unencrypted_suffix |-> None, encrypted_suffix |-> None,
     unencrypted_regex |-> None, encrypted_regex |-> None, indent |-> None,
     age |-> <<>>, unsupported |-> {}, error |-> None]
-----------------------------------------------------------------------------
(***************************************************************************)
(* A reader: the invocation so far, the verb its subcommand and its last   *)
(* verb flag named, and the flag that waits for the next argument.         *)
(***************************************************************************)
Fails(s, why) == [s EXCEPT !.inv.error = why]

\* Mutant: what must be refused is read over.
GiveSupported(s, flag, value) ==
    CASE flag \in Ages -> [s EXCEPT !.inv.age = @ \o Split[value]]
      [] flag \in UnsupportedWithValue -> s
      [] OTHER -> [s EXCEPT !.inv[Options[flag]] = value]

Give(s, flag, value) ==
    IF flag \in Ages THEN [s EXCEPT !.inv.age = @ \o Split[value]]
    ELSE IF flag \in UnsupportedWithValue
    THEN [s EXCEPT !.inv.unsupported = @ \cup {flag}]
    ELSE IF flag = "--indent" /\ value \notin Numbers THEN Fails(s, "not a number")
    ELSE [s EXCEPT !.inv[Options[flag]] = value]

\* The file; of set and unset, then the path and the value.
Positional(s, word) ==
    LET free == {f \in IF s.sub \in {"set", "unset"}
                       THEN {"file", "path_expr", "value_expr"} ELSE {"file"} :
                    s.inv[f] = None}
    IN  IF "file" \in free THEN [s EXCEPT !.inv.file = word]
        ELSE IF "path_expr" \in free THEN [s EXCEPT !.inv.path_expr = word]
        ELSE IF "value_expr" \in free THEN [s EXCEPT !.inv.value_expr = word]
        ELSE Fails(s, "too many files")

\* An argument that is nobody's value.
Word(s, a) ==
    IF a.word \in DOMAIN VerbFlags THEN [s EXCEPT !.flag = VerbFlags[a.word]]
    ELSE IF a.word \in DOMAIN Switches THEN [s EXCEPT !.inv[Switches[a.word]] = TRUE]
    ELSE IF a.word \in Valued
    THEN IF a.eq = None THEN [s EXCEPT !.wants = a.word] ELSE Give(s, a.word, a.eq)
    ELSE IF a.word \in UnsupportedFlags
    THEN [s EXCEPT !.inv.unsupported = @ \cup {a.word}]
    ELSE IF a.word \in Unknown THEN Fails(s, "unknown flag")
    ELSE Positional(s, a.word)

Take(s, a) ==
    IF s.inv.error # None THEN s
    ELSE IF s.wants # None THEN Give([s EXCEPT !.wants = None], s.wants, a.word)
    ELSE Word(s, a)

(***************************************************************************)
(* The first argument is a subcommand if it names one; a subcommand beats  *)
(* a flag, a bare file is edited.  What follows a verb this build does not *)
(* serve is not read.                                                      *)
(***************************************************************************)
Subcommand(args) ==
    IF args = <<>> \/ Dashed(args[1]) THEN None
    ELSE IF args[1].word = "h" THEN "help"
    ELSE IF args[1].word \in Served \cup Unserved THEN args[1].word ELSE None

\* The reader after each of the arguments.
Reader(args) ==
    LET sub == Subcommand(args)
        read[k \in 0..Len(args)] ==
            IF k = 0 THEN [inv |-> Blank, sub |-> sub, flag |-> None, wants |-> None]
            ELSE IF k = 1 /\ sub # None THEN read[0]
            ELSE Take(read[k - 1], args[k])
    IN  read

Parse(args) ==
    LET s == Reader(args)[Len(args)]
    IN  CASE s.sub \in Unserved -> [Blank EXCEPT !.verb = s.sub]
          [] s.sub \notin Unserved /\ s.wants # None /\ s.inv.error = None ->
                [s.inv EXCEPT !.error = "missing value"]
          [] OTHER -> [s.inv EXCEPT !.verb =
                IF s.sub # None THEN s.sub
                ELSE IF s.flag # None THEN s.flag
                ELSE IF s.inv.file # None THEN "edit" ELSE "help"]
=============================================================================
