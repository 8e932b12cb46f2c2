# Verification of cofre

This directory holds TLA+ models of the programs of this repository, the TLC
configurations that check them on small instances, and TLAPS proofs of what
matters most for every instance.

- [The system](#the-system): inventory of the components
- [The modules](#the-modules): how state and actions correspond to the code
- [The runs](#the-runs): what is checked, with which bounds, under which fairness
- [The proofs](#the-proofs): what holds for every value of the constants
- [Disagreements](#disagreements): where the code and its documentation part
- [Limits](#limits): what the models leave out
- [Not modelled](#not-modelled): the parts no module is about, and why
- [The plan](#the-plan): what comes next, in order

## The system

Three programs share the repository. **cofre** generates secrets that a typed
plan declares and puts them into Akeyless or into sops files. **suminuri**
reads, edits and re-keys sops files. **suminuri-install-secrets** decrypts the
sops files of a machine at activation and publishes them under `/run/secrets`.

| component | state it keeps | operations | what makes it correct | modules |
|---|---|---|---|---|
| suminuri-install: plan (`place.rs`, `manifest.rs`) | none, pure | `plan`, `user_pass`, `main_pass`, `out_of_tree_link` | a manifest that cannot be placed is refused before the first step; users' secrets come first, links after every file, the swap before the reaping | InstallPlan, Installer |
| suminuri-install: execution (`apply.rs`, `real.rs`, `entry.rs`, `template.rs`) | mount table, generation directories, links, `*.new` links; per run: decrypted trees and plaintexts | `run`, `apply`, `ensure_secure_storage`, `make_dir`, `write_restrictive`, `chown`, `chmod`, `swap_symlink`, `reap_generations`, `extract`, `render` | readers of `/run/secrets` see one whole generation at every instant; what a failed run leaves behind never blocks or falsifies a later one | Installer, Publication, InstallerClaims |
| suminuri-install: identities (`identity.rs`, the binary) | none | `from_paths` on the manifest's key files | an SSH host key alone is enough to decrypt what was sealed for it | SopsKeys |
| cofre: apply (`main.rs`) | counters and batches of one run | `cmd_apply`, `apply_one_via_backend`, `cmd_verify` | what exists is never replaced unless told to; exit 0 means every secret is there; every secret is counted | CofreApply |
| cofre: backends (`backends.rs`) | Akeyless items, sops files (external) | `exists`, `write`, `apply_batch`, `run_editor_hook`, `yaml_get`, `yaml_set` | a value lands at the path it was declared for and nothing around it moves | YamlPaths, CofreApply |
| cofre: generation (`generation.rs`) | none | `generate`, `random_string` | every string of the alphabet is equally likely | CofreApply |
| cofre: inventory (`inventory.rs`) | none | `build` | no values in the output | |
| cofre-types | none | `validate`, `stable_id` | no two secrets of a plan live in one place | CofreApply |
| cofre-fs | the target file | `write_secret`, `create_secret_dir` | a secret is never readable by others, not even between two calls | |
| cofre-secret | a wrapped value | `Secret`, `SecureCommand` | guaranteed by types | |
| suminuri: file commands (`app.rs`, `file.rs`, `env.rs`) | the encrypted file, its scratch copy, its temporary sibling | `decrypt`, `encrypt`, `edit`, `set`, `unset`, `rotate`, `updatekeys`, `write_file_atomic`, `shred_dir` | the file is always one command's whole outcome; edit's plaintext is left only where the system refuses to remove it; set changes one leaf | SopsFile, SealedFile, ScratchDir, SopsDocument |
| suminuri: walk (`walk.rs`, `metabridge.rs`) | none | tree walk in document order, block to metadata and back | decryption sees the leaves in the order encryption saw them; the policy survives every rewrite | SopsLeaf, SopsWalk, SopsBlock |
| suminuri: keys, rules (`keys.rs`, `config.rs`) | none | `discover`, `rule_for`, `unwrap_data_key`, `wrap_for_age_recipients` | a file is sealed for exactly those who were named | SopsKeys |
| suminuri: command line (`cli.rs`, `main.rs`) | none | `parse` | what is not served is refused, never read over | SopsCommand |
| suminuri-wire: cipher, MAC, verification | nonce stash, MAC accumulator, verification state | `encrypt_leaf`, `decrypt_leaf`, `seal`, `verify` | a nonce is reused only for the same value at the same path; plaintext leaves only verified documents | SopsLeaf, SopsFile |
| suminuri-wire: metadata, selector | none | `select`, `rewrap` | encryption and decryption select the same leaves | SopsLeaf, SopsBlock |
| suminuri-yaml | none | `parse`, `emit` | what is written is read back as it was meant | YamlValue, YamlTree, YamlText |

How they interact: cofre runs `sops` (or suminuri under that name) with itself
as the editor, so one apply of cofre is an `edit` of suminuri with cofre's hook
inside. The installer links suminuri's library to decrypt. Inside suminuri a
command is parse, unwrap, walk, change, walk, emit, rename: each command reads
what the one before emitted. Installer runs share the mount point,
`/run/secrets` and `/run/secrets.new` with each other and with every reader, and
no program takes a lock on a file.

What is hard: runs of the installer that die between any two system calls, that
follow on what a dead run left, that overlap, that start within one second;
files that are rotated while they are read; readers that look at any instant;
applies that fail in the middle of a plan, whose calls succeed although their
answer is lost, that follow one another with different plans; edits that hold a
file's old content while an editor is open; nonces that must be kept for what
did not change and only for that; a text that must read back as the tree it was
written from, under a policy that is itself part of the text; files merged by
hand; configurations and key files that come and go between commands.
PROJECT.json lists each place under "hazards".

## The modules

```
InstallPlan --> Installer --> InstallerClaims --> MCInstaller
                 |   \------> InstallerProofs
                 \-- Publication (abstract)
YamlPaths  --> CofreApply --> MCApply
         |          \-------> CofreApplyProofs
         |----> MCYamlPaths -> YamlDocumentProofs
         \----> YamlPathsProofs --> CofreApplyProofs, YamlDocumentProofs
YamlValue --> YamlTree --> YamlText -\
     \--> SopsLeaf --> SopsWalk ------> SopsMeta --> SopsDocument --> MCSopsDocument
              \--> SopsBlock ----------/
                       \--> SopsFormatProofs
SopsFile --> MCSopsFile
   |   \---> SopsFileProofs
   \-- SealedFile (abstract)
ScratchDir
SopsCommand --> SopsKeys --> MCSopsKeys
                    \-----> SopsKeysProofs
NaturalSets: used by all the proof modules but CofreApplyProofs
```

**InstallPlan** is the pure half of the installer: what a manifest declares,
when `place::plan` refuses it (`Plannable`), which entry and which link may be
next (`NextEntries`, `NextLinks`: the three passes and the links), and what the
reaping removes (`Doomed`). The order inside one pass is the manifest's own; the
model leaves it open, so what holds here holds for every order.

**Installer** is any number of runs (`Procs`) that execute their plan one system
call at a time.

| code | action |
|---|---|
| `entry::run`, `generation()` | `Start(p, m, t)`, for any second `t`: the clock may be set back |
| `ensure_secure_storage`, `already_secure` | `EnsureSecureStorage` |
| `already_secure` when the mount table cannot be read: "no store" | `StoreUnseen` |
| `mount_secure` (a new store hides what the mount point held) | `MountSecure` |
| `make_dir`, `create_dir_secure` | `MakeGeneration` |
| `Step::Write`, `Step::RenderTemplate`: obtain the content, open with truncation | `OpenEntry`, `CannotObtain` |
| `write_all` in `write_restrictive` | `FillEntry` |
| `chown`, `chmod` | `Chown`, `Chmod`, `EntryVanished` |
| `swap_symlink`: remove `l.new`, symlink, rename | `RemoveTmp`, `Symlink`, `Rename`, `SwapCollides` |
| `reap_generations`: list, then remove one after the other | `ListGenerations`, `RemoveReaped`, `ReapEnds` |
| an error or a kill at any point | `Fault` |
| rotation of a sops file, reboot | `EditSource`, `Reboot` |

State: `mounts`, `blind` (how often since the last boot a run missed the store),
`dirs`, `file[g][n]` (content, owner, mode), `link`, `tmp` (the `.new` links),
`source` (the sops files) and one run's memory per process. A plaintext is the
sops file, key and version it came from; so is what a template was rendered with.
`finished` is a history variable: the generations some run placed to their last
entry.

**Publication** is the promise to a reader of `/run/secrets`: a register of whole
generations that is replaced in one step. `Installer` implements it with
`current <- link[Root]` and `content <- file[link[Root]]`.

**InstallerClaims** states what comments and tests of the code say and the model
refutes (see [Disagreements](#disagreements)).

**YamlPaths** is `yaml_get` and `yaml_set` over documents that are functions from
paths to nodes. `YamlSet` says in closed form what the loop does, including the
segment it loses when a leaf is in its way; MCYamlPaths holds the loop itself,
segment by segment, and checks that both agree.

**CofreApply** is `cmd_apply`: the refusal of a rotation, the loop with its early
returns (exit 4 and 5), the two calls to Akeyless per secret, then one sops batch
per file in any order, whose hook works on the snapshot sops decrypted, entry by
entry, until sops seals it. A value is the run and the secret it was generated
for, so a property can tell what was replaced by whom. A batch is the positions
of its entries in the plan and `left` those the hook has still to visit; `Tally`
adds to the three counters an apply prints. A plan is one `validate` accepts: names
differ, and places do but for keypairs, whose targets are the place with suffixes
while `exists` and `write` use the place alone (`SamePlace`).

| code | action |
|---|---|
| `cmd_apply` up to the loop | `Apply` |
| `None` policy; queueing; mock targets | `SkipExternal`, `QueueSops`, `MockOne`, `RefuseMock` |
| `AkeylessBackend::from_env` | `Login`, `LoginFails` |
| `exists`, then what `apply_one_via_backend` decides | `Describe`, `DescribeFails` |
| `write` (`create_secret`) | `Create`, `CreateFails` (also: stored, answer lost) |
| `apply_batch`, `run_editor_hook` | `OpenFile`, `KeepEntry`, `SpliceEntry`, `HookFails`, `HookEnds`, `Seal`, `FileFails` |
| counters and exit code | `Close`, `Finish` |

**SopsFile** is several of suminuri's commands on one sops file, one action per
step that touches the disk.

| code | action |
|---|---|
| `run`: read the file, refuse or compute the new body | `Run`: `Decrypt`, `Encrypt`, `Rotate`, `UpdateKeys`, `SetOrUnset`, `Edit`, `Refuse` |
| `secure_temp_dir`, the plaintext copy, `edit_file` | `MakeScratchDir`, `WriteScratch`, `EditorSaves`, and their failures |
| the rest of `edit` | `Reseal`, `Shred` (the guard, on every way out) |
| `write_file_atomic`: `fs::write` opens and writes, `set_mode`, `rename` | `Create`, `Write`, `Chmod`, `Rename`, and their failures |
| `write_all` | `ToStdout` |
| a kill anywhere | `Kill` |

State: `data` and `private` (what an inode holds and whether its mode is 0600),
`names` (which inode a name stands for) and one command's memory. The temporary
file's name depends on its target alone, so two writers share its inode. A
document is its leaves with their nonces, its readers, its time and the values
and time its MAC was made of; `ValOf` abstracts the walk. `Shred` stands for the
guard; what becomes of the files is ScratchDir's subject.

**ScratchDir** is the directory in which edit keeps its plaintext, call by call.

| code | action |
|---|---|
| `secure_temp_dir`: `create_dir_all`, `set_mode` | `MakeDir`, `MakePrivate`, `NoDir` |
| `write_file_atomic` of the plaintext | `WriteTmp`, `RenameTmp`, and their failures |
| `edit_file`; the editor is external, it may leave files of its own | `EditorWrites`, `EditorReturns` |
| `shred_dir`: list, overwrite, remove each, remove the directory | `List`, `Overwrite`, `Unlink`, `RemoveDir`, and their failures, all of which the code passes over |
| a kill; an edit that is given the process number of one before it | `Kill`, `EditAgain` |

**SealedFile** is the promise: a command looks at the file once and replaces it
at most once, in one step, by a whole document that is one command's outcome on
what it saw: the same key, readers and unchanged leaves (edit, set, unset), the
same values under a new key (rotate), the same sealed leaves for other readers
(updatekeys), the same values in the clear or sealed (decrypt, encrypt).
`SopsFile` implements it with `file <- data[names["file"]]` and `seen <- ` what
each command read. It promises nothing about a command that looked before
another one replaced the file: the code takes no lock, and its update wins.

**YamlValue** is a YAML value with its comments: what a word resolves to, how a new
scalar is styled, what a mapping has under a key. **YamlTree** is what `set`,
`unset` and `--extract` do to one along a bracket path.

**YamlText** is the emitter, with go-yaml's indenter, and the parser. A text is a
sequence of tokens, each with its line and column; libyaml, which is external,
reads block structure off the columns. So a mapping emitted at the wrong column,
a comment handed to the wrong collection or a dash where none may stand shows.
What a scalar looks like inside its token is not modelled.

**SopsLeaf** is what the walk does at one leaf, comment or item: the selector's
six stages with the comments in force (an empty pattern is none), the place each
leaf is bound to (lists add nothing to it), the stash of nonces, `encrypt_leaf`
and `decrypt_leaf`, and the MAC, which is of the texts it was fed one run on into
the next: `Letters` says of which parts a text consists, where another text has
one of them. A ciphertext is a record of key, nonce, place and plaintext and opens
under that key at that place only. **SopsWalk** is the walk over a tree in
document order. It is RECURSIVE, so what it does at one item (`WalkItem`, which
takes what the walk below the item made) stands in SopsLeaf, where it can be
proved about.

**SopsBlock** is the `sops` block as metadata and as YAML in both directions, the
wrapped keys of every provider, the block's place in a file's tree, and what
becomes of a walk: `Stamped` when it encrypted, `Verified`, the ways out of
`Unverified`, when it decrypted.
**SopsMeta** is `SopsFile` of `file.rs`: load, decrypt, encrypt, render.

**SopsDocument** composes these: one file through a sequence of commands,
each of which parses the text the last one wrote. A person may also replace a run
of its lines by what stood there before the last command, as a merge does.
`meant`, the plaintext tree the file should stand for, is not in the code: it is
what the properties compare with.

**SopsCommand** is `cli::parse` over words: verbs and the flags that stand for
them, options with and without a value, what is refused, positionals.

**SopsKeys** is who a file is sealed for and who opens it: which config governs a
path, which of its rules, which of a rule's fields are refused (seven) and which
passed over (all others), what `wrap_for_age_recipients` accepts, where
identities come from (an SSH key and an age key are different identities and
answer to different recipients), and what each verb of `run` then does to the files.
Commands are given as argument lists and go through `Parse`. Configs, key files
and files change between commands; `Install` is an installer's start with the
key files of its manifest.

Definitions named with a suffix and commented "Mutant" are altered forms of the
definition that follows them. They take no part in any specification; each
stands for a plausible mistake that one of the properties is there to catch.

## The runs

| run | what it asks |
|---|---|
| `installer` | runs that follow one another, in system mode |
| `installer_overlap` | two runs at a time, in user mode |
| `installer_blind` | runs that follow one another and cannot read the mount table |
| `yaml_paths` | `yaml_set` on every small document, again and again |
| `apply` | two applies that follow one another |
| `sops_file` | two commands on one sops file, step by step |
| `scratch` | edit's scratch directory, call by call |
| `sops_document` | three commands on one sops file, down to its text |
| `sops_keys` | command lines, creation rules and keys that change |
| `claim_*` | one refuted statement of the code's documentation each |

**installer.** Two manifests: "old" has a secret for the users' pass and one that
is linked out of tree, from two sops files, and keeps no spare; "new" drops the
first, adds a secret and a template over both, and keeps one. Three seconds, two
versions of each file and a damaged one, and at most one edit of a file, one fault
and one reboot at any point: a run may fail at any call, the next starts on its
leftovers, and the files may change in either. Checked: what
`/run/secrets` names is a whole generation (`LiveComplete`) that does not change
while it is live (`LiveUntouched`); the refinement of Publication
(`PublishesAtomically`); two entries of one generation never come from two
decryptions of one file (`OneDecryptionPerFile`); a mode other than 0600 implies
the declared owner and a content (`WidenedLast`); leftovers never make a run fail
(`NeverBlocked`); success means published and within the budget of kept
generations (`PublishedWithinBudget`). The mount table can be read in this run.

Why the bounds are enough: what one run can do to another goes through the
leftover directory, the leftover `.new` link and the list of generations. Three
seconds give one live generation, one leftover and one new run, which is every
role a generation can have at keepGenerations 1. The proofs below do not depend
on the bounds.

**installer_overlap.** Two processes with any interleaving of their system
calls. Much of the above is false here (`ClaimOverlap.cfg`), so it checks what is
left: only generations placed to their last entry are ever published
(`OnlyFinishedPublished`), and the link never disappears (`LinkNeverWithdrawn`).

**installer_blind.** The manifests and faults of `installer`, without edits; twice
between two boots the mount table may not be readable, so `already_secure` answers
no and a second or third store is mounted over the first. `LiveComplete` and the
refinement are false then. Checked: no more stores than those that were missed and
one, and no generation without a store (`OneSecureStore`); what `/run/secrets` names
is whole, or it is hidden as a whole, only after such a miss and not past the swap
of a later run (`LiveWholeOrHidden`). Two misses give a store over a store over a
store, with live generations in each.

**yaml_paths.** Every well-formed document over eight nested paths, up to four
segments deep, and all that `yaml_set` makes of them. Four segments are the first
depth at which a leaf can stand at two places that lose a segment. Checked: the
closed form is the loop (`StoresAsTheLoop`); with nothing in the way a value
is stored at its path and no unrelated node changes (`SetThenGet`); a value that
landed elsewhere is in place after a second set (`SecondSetHolds`), so one more
apply repairs what `ClaimYamlPath.cfg` shows, at the price of a stray copy.

**apply.** Three plans: one that mixes Akeyless, two paths in one file and an
external secret, with a keypair in the item's place; one whose hook fails half-way
and whose last secret cannot be generated; one that ends at a mock target. Each
with every `--rotate` and with `--mock` or without, two in sequence, over items
and paths that exist already or not, with two faults. Checked: nothing that exists
changes without its rotation (`KeptUnlessRotated`); exit 0 means that every
managed secret is present (`SuccessMeansPresent`); the printed counts add up to
the plan (`Accounted`); only nodes on, above or below a planned path change
(`OnlyPlannedPaths`); applies end (`AppliesEnd`). Two applies are enough for every
pair of an earlier outcome and a later plan; three would only repeat the pair. In
this run no value stands above a planned path; `ClaimOverwrite.cfg` and
`ClaimYamlPath.cfg` are about documents where one does.

**sops_file.** A list of two leaves, so both have the same place, under the values
`a` and `b`; at first a plain file, or one that is sound, holds a value twice, was
emptied, has a PGP reader, or does not match its MAC. Two commands, each any of
twelve command lines (every verb, one with `--ignore-mac`, one to standard output,
one to another file, updatekeys to each of three recipient lists, set to an old
and to a new value), two clock readings, every failure and kill. Checked: what the
file shows is `SealedFile`'s (`Implements`); no nonce serves two values, two
places or two data keys (`NoncesOnce`), over all that was ever sealed; a
damaged file is not sealed over (`DamageStays`); what appears under a name is
already private (`PrivateWhenVisible`); every command ends unless killed
(`EveryCommandEnds`). Two commands are every pair of a reader and one who replaces
the file under it, and of a dead writer's temporary file and the next writer; two
equal leaves in one place are the least document in which a stash keyed by place
and value can confuse anything. `WritersOverlap` is FALSE: no two commands are
inside `write_file_atomic` at the same time. With it TRUE the refinement is false,
see `ClaimAtomic.cfg` below.

**scratch.** Three edits of two files that are given one process number, each ending
in any way or killed at any call; an editor that leaves a file beside the scratch
file, one in a directory of its own, or removes what it edits; any call of
`shred_dir` refused. Checked: after an edit that wrote plaintext nothing is in the
directory but what was refused removal by its name and once more with the
directory, and no text but what could not be overwritten either, whichever edit
left it (`ScratchShredded`); text is only ever in a private directory
(`TextIsPrivate`). Three edits are one killed, one refused and one that shreds
after both.

**sops_document.** Three files: a list with a comment between its elements and a
key whose suffix keeps it clear; scalars of every type, a null, an empty text and
a list of mappings laid out as the emitter would not; head, foot and final
comments, two of which the policies go by. Four policies: none, which brings in
sops's own suffix; a regex from the command line over one from the rule, with
`mac_only_encrypted`; and each comment regex. Two recipient lists, five set lines
(an old key, an element, an append, a nested key, new parents), three unsets, two
editor's results, two clock readings, and merges. Three commands, of which encrypt
is the first. Checked: each of the readers a file was sealed for opens it and
finds what was meant (`OpensAsMeant`); the policy of encrypt is that of every
later version (`PolicyKept`); a merge of two versions opens only if its values run
together as those of one of them do, so it is that version or differs from it in
two values at least (`MixesRunTogether`; the instance has `ab`, `c` and `a`, `bc`,
so mixes do open, as the test at `mac.rs:317` says); set seals one leaf anew and
unset none (`OneLeafSealed`), and neither moves what their path does not name
(`OthersShownAlike`). Three commands suffice because a command's only input from
the past is the text, and each kind of text a command can leave is the input of
each command. The instance keeps to what the emitter can lay out; what it cannot
is `claim_reopen`, and what is said of emptied collections below.

**sops_keys.** A repository with a config at its root and one below, one file in
each directory, named relatively and absolutely; eight configs, among them ones
with key groups, other providers, fields that are not read, a mistyped recipient
and one that is no YAML; files that sops sealed for an SSH host key; key files
absent, unreadable, damaged or sound; three environments; seventeen command lines;
two manifests. Three steps, each a command, an installer's start or a change of a
config or a key file. Checked: a file that is sealed anew has exactly the readers
the command line names, or the governing rule in `age` or a field it refuses, and
no option of sops's that is not served was passed over (`NobodyDropped`);
updatekeys right after finds nothing to do (`SecondUpdateQuiet`); a sealed file is
replaced by those who can open it alone, or through `--output`
(`OnlyReadersReplace`); an SSH host key is enough for an installer to open what
sops sealed for it (`HostKeyEnough`). Three steps are a command, a change and a
command.

**Fairness.** Only `apply` and `sops_file` check liveness. Weak fairness of one
process's next step, and of nothing else: the programs are sequential, a started
process keeps being scheduled, and none of their calls waits for another process.
In `SopsFile` it is fairness of going on or failing together, since whether a call
succeeds is not the scheduler's to promise; it includes that an editor returns. No
fairness is assumed of starts, faults, kills, edits or reboots. `SopsDocument` and
`SopsKeys` are sequences of atomic commands, have no liveness and state none.
`CHECK_DEADLOCK` is off because the runs are bounded: when the last permitted run
or command has ended, nothing may be left to do.

## The proofs

A run shows a property on one small instance; the theorems below hold for every
value of the constants, so for any number of secrets, files, paths, commands,
runs, faults and edits.

### What is proved

| module | theorem | under | states |
|---|---|---|---|
| InstallerProofs | `TypeCorrect` | any processes | `TypeOK` |
| | `OnlyFinishedIsPublished` | any processes | `OnlyFinishedPublished` |
| | `LinkIsNeverWithdrawn` | any processes | `LinkNeverWithdrawn` |
| | `LiveIsWholeOrHidden` | `Serial` | `LiveWholeOrHidden` |
| | `LiveIsComplete` | `Serial`, `TableReadable` | `LiveComplete` |
| | `LeftoversNeverBlock` | `Serial` | `NeverBlocked` |
| | `StoresCostUnreadTables` | `Serial` | `OneSecureStore` |
| | `LiveIsUntouched` | `Serial`, `TableReadable` | `LiveUntouched` |
| | `InstallerPublishesAtomically` | `Serial`, `TableReadable` | `PublishesAtomically` |
| | `ReapingMeetsBudget` | `Serial` | `PublishedWithinBudget` |
| | `EntriesAreWidenedLast` | `Serial` | `WidenedLast` |
| | `FilesAreDecryptedOnce` | `Serial` | `OneDecryptionPerFile` |
| YamlDocumentProofs | `SetIsTheLoop` | | `StoresAsTheLoop` |
| | `SetIsRead` | | `SetThenGet` |
| | `SecondSetIsThere` | | `SecondSetHolds` |
| CofreApplyProofs | `TypeCorrect` | any appliers | `TypeOK` |
| | `CountsAddUp` | any appliers | `Accounted` |
| | `SuccessIsPresent` | `OneApplier`, `PathsApart` | `SuccessMeansPresent` |
| | `KeptWithoutRotation` | `OneApplier`, `PathsApart` | `KeptUnlessRotated` |
| | `ChangesArePlanned` | `OneApplier`, `PathsApart` | `OnlyPlannedPaths` |
| SopsFileProofs | `TypeCorrect` | any overlap | `TypeOK` |
| | `NoncesServeOnce` | any overlap | `NoncesOnce` |
| | `VisibleIsPrivate` | `~WritersOverlap` | `PrivateWhenVisible` |
| | `FileIsWhole` | `~WritersOverlap` | `WholeFile` |
| | `DamageIsKept` | `~WritersOverlap` | `DamageStays` |
| | `ImplementsSealedFile` | `~WritersOverlap` | `Implements` |
| SopsFormatProofs | `SelectionSurvives` | `NoneIsNoCipher` | both walks select the same leaves |
| | `LeafOpens` | `NoneIsNoCipher` | every leaf comes back, and the two walks' MACs agree |
| | `CommentOpens` | `NoneIsNoCipher` | every comment comes back |
| | `UnchangedLeafIsKept` | `NoneIsNoCipher` | what did not change keeps its ciphertext |
| | `BlockSurvives` | `NoneIsNoValue`, `KeyOK` | every key and every field of a block written is read back |
| | `FileSurvives` | `NoneIsNoValue`, `KeyOK` | a root written with its block is read as that file |
| | `TreeOpens` | `NoneIsNoCipher`, `WalkIs` | a tree of any depth, encrypted, decrypts to itself |
| | `FileOpens` | all of these | a file encrypted and written with its block is read, passes its MAC and is what was encrypted |
| SopsKeysProofs | `TypeCorrect` | | `TypeOK` |
| | `NobodyIsDropped` | | `NobodyDropped` |
| | `OnlyReadersReplaceFiles` | | `OnlyReadersReplace` |
| | `HostKeyIsEnough` | | `HostKeyEnough` |
| | `SecondUpdateIsQuiet` | | `SecondUpdateQuiet` |

### From which assumptions

Each module's ASSUME types its constants and says what the instance's data must be
like; TLC evaluates it on every run. `SopsFileAssumption` says of the file at
first that its own nonces are not those of any command to come, and that none of
them serves twice. `ContentsApart` says that a template's rendering is no
plaintext and neither is an empty file. `PathsAssumption` says that with a path
its beginnings are paths, and what is left of it without one segment,
`PlanAssumption` what `validate` makes of a plan and that files hold trees,
`KeysAssumption` that the paths command lines name, the directories above them,
the working directory and the configs lie in the modelled tree.
`ValuesAssumption` keeps the four kinds of nodes of MCYamlPaths apart.
`NoneAssumption` and `LeafAssumption` say that "not given" is no flag and no error.
`LettersAssumption` says that a text of several parts is known by them.
`ScalarAssumption` says of the tables that the decimal form of an integer is an
integer with that decimal form, and that a number is no null and no boolean.
`NoneIsNoCipher`, that no ciphertext is taken for "not encrypted", ranges over
every ciphertext there might be, so it is a hypothesis of the theorems of
SopsFormatProofs and not an ASSUME; TLC's model value satisfies it. So is
`NoneIsNoValue`: "absent" is no scalar, no list and no mapping. `WalkIs` is the
equation SopsWalk defines `Walk` by, asked for on trees: the prover takes no
RECURSIVE operator, so TreeOpens and FileOpens are about a constant `Walk` that
satisfies it. Their trees are plaintext: no comment of them is a ciphertext, and
no pair of the root is called `sops` (a file that has one is refused before, by
`load_plain`). `KeyOK` says what a wrapped key is made as: by `WrappedKey::age`,
without a time, or by `WrappedKey::opaque`, for one of the providers of the table.

Five further hypotheses are no part of the modules, because the code relies on
them without enforcing them. Each is refuted when dropped.

- `Serial`: one installer at a time, no run in a second of which there is a
  generation already, every secret's key is its name (`ClaimOverlap.cfg`,
  `ClaimUntouched.cfg`, `claim_template`).
- `TableReadable`: no run finds the mount table unreadable (`ClaimOneStore.cfg`).
  Without it `LiveIsWholeOrHidden` says what is left of the theorems that need it.
- `~WritersOverlap`: no two of suminuri's commands are inside `write_file_atomic`
  at once (`ClaimAtomic.cfg`). Commands may overlap in every other way.
- `OneApplier`: one `cofre apply` at a time. A second one has its draft before the
  first one's sops seals, and seals over it; nothing in cofre prevents it
  (`ClaimTwoApplies.cfg`, where `SuccessMeansPresent` and `OnlyPlannedPaths` fail
  as well).
- `PathsApart`: in one file, no planned path runs through another, and no value
  stands above a planned path (`ClaimYamlPath.cfg`, `ClaimOverwrite.cfg`: `yaml_set`
  replaces what is in its way, or loses a segment). The constants of `Apply.cfg`
  satisfy it, those of the two refutations do not.

### Along which argument

**InstallerProofs.** Typing comes first and carries what each program counter says
of a run's memory: which entry or link is at hand, that a run past its entries is
in `finished`. What is live is whole or hidden under a store (`Visible`), and
hidden only if a mount table could not be read, which `TableReadable` excludes.
That is not inductive: it says nothing of the generation that is being built. The
strengthening says that the generation of a running process is fresh (neither live
nor listed as a spare) until its rename; that the entries already placed are as
declared, at the versions the run has cached, and that no other name is there;
that the plaintexts remembered are those of the cached versions; and that the
entry at hand has its content from `fill` on and its owner from `chmod` on. At the
rename every entry is placed, so the generation is `View(m, versions)`. The
reaping lists every generation but its own, which is the live one. For
`NeverBlocked` the strengthening is that only the process that removed `l.new`
creates it. For overlapping runs, `l.new` only ever names a generation in
`finished`: that is all `OnlyFinishedPublished` needs, and why it survives the
races that break `LiveComplete`.

What a run that ended well leaves behind comes last. For the budget, `Reaps`
counts: while a run reaps, what is left to remove is `Doomed` of what was listed
and no generation has come since, so when nothing is left at most `keep` others
are; `DoomedLeaves` is that `Doomed` spares at most `keep` elements of any finite
set of numbers. For the decryptions, `BuiltFromCache` ties every plaintext in the
generation at hand to the version the run has cached, of which it has one per
file; a generation that is left is left as it was.

**YamlPathsProofs** has the lemmas on documents: what `yaml_set` stores can be
read, what it leaves alone, that a well-formed document stays one. The hard case
is a leaf in the way. `Landing` is a path with one segment lost, so the proof
needs that it is a path of the document at all (`PathsAssumption`), that the nodes
below a leaf are absent and that no second leaf stands on the way
(`NothingBelow`), since a document is well formed. The depth of a leaf is found by
the least-element principle of NaturalSets, for want of induction.

**YamlDocumentProofs.** `SetIsTheLoop` follows yaml_set's loop. A recursive function
is known to the prover as the choice of some function that satisfies its
equation; that there is one is proved first (`WalkExists`), again by the least
step at which there would be none. The loop invariant says what the first k
segments did: with no leaf before them the loop stands at their path and has made
the mappings on it; past a leaf it stands one segment short, at the beginning of
`Landing`. At the end both ways agree with the closed form.

**CofreApplyProofs.** Four invariants, one on top of the other. `AccountInv`: the
counters and the secrets in batches still to come (`Pending`) add up to the
secrets the loop has passed; closing a batch moves its cardinality from one to the
other. `ClearInv`: no leaf ever stands above a planned path, in files or in the
draft a hook works on, so `yaml_set` loses nothing. `PresentInv`: what an apply
without an error has passed is present, in the service, in the file, or, for the
entries the hook has visited, in the draft; that a file opened without being
changed still equals its draft is where one applier is needed. `KeepInv`: a node
of a draft differs from its file only on, above or below the path of an entry of
the batch, and a value of the file differs only under the entry whose rotation was
asked for.

**SopsFileProofs.** `TypeInv` says what a command holds at each point; `Made` says
in one formula what each verb may make of the document it read, and the other
proofs use it in place of the verbs. `NonceInv`: every use of a nonce in a body
that exists belongs to the command that drew it, or to the file at first, or is a
use already in the file that command read; draws are pairs of a command and a
position, so two uses of one nonce are one use. Nothing in it is about writers, so
it holds however they overlap. `WriterInv`: the temporary name stands for the
inode of the one command that is writing, which filled it before it made it
private and did both before it renames it. `DamageInv` and the refinement follow:
a body is made of a document the command read whole, so the rename is one step of
SealedFile, every other step a stutter, and the read is the step at which
SealedFile looks.

**SopsFormatProofs.** A walk may meet a comment as a text on the way in and as a
ciphertext on the way out, and two of the policy's stages read comments. `Image`
says what the encrypting walk left of each: the text, or a ciphertext, which a
regex sees as `EncWord`, and only where the policy selected the comment. The
selector could therefore find its word in fewer places, or in more. It finds it in
the same leaves: the first comment that matches has nothing before it that
selects it, so it stays a text (stage 6), or what is selected by not matching
cannot match once sealed, since `visit_comment` refuses a regex that matches
`EncWord` (stage 5). `InStep` relates the two walks: same key, same policy, MAC fed
alike, no error; each leaf and each comment leads from one such pair of contexts
to the next. A float is the one leaf that need not keep its ciphertext: YAML shows
`1.0` as `1`, which reads back as an integer, so `UnchangedLeafIsKept` asks for
`ShownAsItself`.

`BlockSurvives` is the promise at `metabridge.rs:36`, that a rewrite drops no
recipient it cannot itself unwrap. `to_tree` gathers the keys by provider, so the
list read back is the list that was written, sorted by provider. `Of` is the keys
of one provider in a list; it goes over concatenation (`OfConcat`), is the whole
of its own provider's stretch and nothing of any other's. What each field reads as
(`BlockReads`) comes from two facts: `get` returns the first pair of a name
(`ReadsConcat`), and no two of the block's fields have one name. All of it is
concatenation, so `FlattenSeq`, which the community modules define by recursion,
gets an induction principle first: `FlatInvariant`, by a least length at which the
invariant would fail. `FileSurvives` adds that the block is the last pair of the
root and the only one of its name, so that taking it out leaves the tree.

`TreeOpens` is the induction over the walk. A tree is defined by the sets of trees
of each depth, without recursion (`TreeAt`), and so are two trees that differ in
the form of some leaves only (`Alike`). A collection is a run: the states after 0,
1, ... items (`WalkRuns`). Two runs over it, one encrypting and one decrypting
what the first made, stay in step item by item (`CommentStep`, `ValueStep`): after
each, the contexts are `InStep`, the items so far alike, and the comments the
second has seen are the `Image` of those the first has seen (`Within`), which is
what `LeafOpens` and `CommentOpens` ask for at the next one. An error of the
encrypting walk stays to its end, so a walk without one had none on the way.
`CollectionOpens` takes this to the last item, for any depth below which trees
open, and `AllOpen` is the induction on the depth, from the set of depths at which
every tree opens. `FileOpens` puts it together: a walk without error gives a root
and a MAC; `FileSurvives` reads the same tree and the same block from it; the
policy read back selects alike (`PolicyWritten`), so the decrypting walk is in
step from the first leaf, ends having fed the MAC the same texts, and `MacAgrees`.

**SopsKeysProofs.** `OnlyReadersReplace` and the two next theorems leave what a
line means (`Parse`) unexpanded: it is the same at both ends of every argument.
`NobodyDropped` expands it. `Heard` is the invariant of the reader, argument by
argument: every flag so far that is nobody's value is in the invocation or in what
it refuses, and the flag that waits for a value is the last word. With it, a line
with a flag that is not served is refused, whatever else it holds. The rule is the
one with the least index among those that match, the config the first on the way
up that is there. `OnlyReadersReplace` follows from a single step: every way a
verb has to change a file passes `Unwraps` for its input, or finds it plain; what
is changed is the input, or the `--output`. `SecondUpdateQuiet` is strengthened to
`SettledInv`: after a sealing in place, the file's recipients are those the same
options ask for, whoever can open it; only a config or the environment could
change the answer, and such a step forgets the command.

### What is only model-checked

- Liveness (`AppliesEnd`, `EveryCommandEnds`) is out of the prover's reach.
- ScratchDir: its directory has no more than the roles the run has (a scratch file,
  a sidecar, a nested file).
- SopsDocument (`OpensAsMeant`, `PolicyKept`, `MixesRunTogether`, `OneLeafSealed`,
  `OthersShownAlike`, `TypeOK`): the parser, the emitter and the walk go down trees
  with RECURSIVE operators, which the prover does not take. The part of
  `OpensAsMeant` between the emitter and the parser is proved for every tree
  (`FileOpens`), and so is what a block contributes to `PolicyKept`
  (`FileSurvives`). What is left to TLC is that a text reads back as the tree it
  was written from, and what sequences of commands, edits and merges do.

## Disagreements

Each of these is a run that must end in a violation.

| run | the documentation says | the code does |
|---|---|---|
| `claim_template` | `template.rs:58`: values maps secret name to plaintext | `apply.rs:204` stores it under the key |
| `claim_readers` | `app.rs:503`: same recipients, new data key | rotate drops every recipient that is not age |
| `claim_reopen` | `emit.rs:28`: a tree that cannot round-trip is refused at parse time | a list in a list is sealed into a text no command reads |

These are kept as configurations; `tlc -config <cfg> <module>` shows the
violation.

| configuration, module | the documentation says | the code does |
|---|---|---|
| `ClaimUntouched.cfg`, MCInstaller | `apply.rs:156`: the previous generation is still live and untouched | a second run in the same second rewrites it in place |
| `ClaimOneStore.cfg`, MCInstaller | `real.rs:107`: idempotent, for a second store would stack on the first | when the mount table cannot be read a second one is mounted over the live generation |
| `ClaimYamlPath.cfg`, MCApply | `backends.rs:462`: set a dotted path | over a null at `a`, `a.b.c` is stored at `a.c` |
| `ClaimPruned.cfg`, MCInstaller | `apply.rs:22`: pruning removes a failed run's directory on the next successful run | `reap_generations` counts it as the newest spare and keeps it |
| `ClaimLinks.cfg`, MCInstaller | `place.rs:413`: a failed run leaves a link to the old file rather than to nothing | on a first run there is no old file |
| `ClaimOverlap.cfg`, MCInstaller | `place.rs:448`: after the swap the old generation is referenced by nothing | with two runs `/run/secrets` may name it, and it is reaped |
| `ClaimMock.cfg`, MCApply | `main.rs:48`: mock backends only | sops targets are rewritten all the same |
| `ClaimOverwrite.cfg`, MCApply | `docs/security-model.md:15`: `--rotate` is the only path to overwrite | a secret at `a.b` replaces the value at `a` |
| `ClaimTwoApplies.cfg`, MCApply | the same | of two applies at a time, one puts its value over the item, or its draft over the file, that the other has just written |
| `ClaimAtomic.cfg`, MCSopsFile | `env.rs:102`: so the rename is atomic | two writers share the temporary file: one renames what the other is still writing |
| `ClaimOneLine.cfg`, MCSopsFile | `app.rs:798`: writing one key leaves every other line byte-identical | two equal elements of one list have two nonces, of which the stash keeps one |
| `ClaimNearest.cfg`, MCSopsKeys | `config.rs:78`: the nearest .sops.yaml, walking up from start | for a relative path only the working directory's is looked at |
| `ClaimProviders.cfg`, MCSopsKeys | `config.rs:15`: a provider this build cannot wrap is a named refusal | the list at `config.rs:148` has `hc_vault_transit`; a rule with sops's `hc_vault_transit_uri` is read without it |

Seen while reading, without a configuration of their own:

- `place.rs:763` tests that a keep of 0 means unbounded, on `prune`, which nothing
  calls; the reaping that runs keeps none.
- The comments at the end of a list are read back as those of the mapping around
  it (`parse_sequence` has no `drain_foot`), so one that was encrypted there is
  bound to another place and stays a ciphertext.
- Unset of the last element of a list under a comment leaves a key without a
  value, which reads back as an empty string. Unset of the last pair of a nested
  mapping that holds a comment writes `{}` below the comment, where a parser does
  not take it for the key's value.
- A key with nothing after its colon is read as an empty string.
- `cli.rs:12` says that flags after the file are silently ignored; they are
  obeyed.
- `identity.rs:14` takes `age::ssh::Identity` for a conversion of a host key to an
  age key. Such an identity answers to what was wrapped for the SSH key itself: a
  file sealed for the age recipient made of a host key is not opened by that host
  key.
- `app.rs:408` says that the scratch directory is shredded on every exit path. An
  edit whose `secure_temp_dir` fails after `create_dir_all` has no guard yet and
  leaves it, empty; and what `shred_dir` is refused it passes over.
- A keypair may share its place with another secret in a plan; once that one is
  there, the keypair, which nothing can generate, counts as written.
- `set '["sops"]'` adds a second `sops` pair.
- A file whose last leaf was unset opens for `decrypt` only: `set`, `edit` and
  `rotate` take it for one with nothing to verify.
- `set` compares plaintext documents but not types: a `123` is written quoted.
- `updatekeys` compares recipients in order and does not check the MAC.
- A failed `write` or `set_mode` leaves the temporary file; a killed edit leaves
  its scratch copy (`env.rs:113`, "Never leave a temp holding plaintext behind",
  is about the rename).
- The four selector options of the command line and `mac_only_encrypted` are
  merged with those of the rule one by one, and `--age` sets the whole rule aside,
  its selector with it.
- `--in-place=false` and `--ignore-mac=false` set the switch.
- The MAC is made of the texts one after another with nothing between them: two
  neighbours may divide their characters differently, and an empty element of a
  list change places with one, without the MAC noticing (`mac.rs:317` tests it).
- `random_string` caps its threshold at 255: for the alphabets of 16, 32 and 64
  letters the byte 255 is rejected, so their last letter answers to one byte fewer
  than the others. `docs/design.md:82` says "exactly uniform".
- A plan with a keypair policy passes `validate` and fails at generation.
- `emit.rs:27` says comments are refused; they are emitted.

## Limits

- Removing a generation is one step; a removal that stops half-way leaves it as it
  was in the model. Such a generation is never the live one and counts as a spare
  either way.
- A write reaches a file whole or not at all. A reader that opened a file before
  a truncation is not modelled.
- The mount point itself, its mode and group are not part of the state. A mount
  table that can be read says what is mounted.
- `umount` is not modelled: what a store hides comes back with no run.
- ScratchDir has the temp directory to itself; a name in it that somebody else made
  is not modelled, and neither are links in it.
- The installer's dry run and check mode change nothing and have no actions.
- An error of Akeyless that is not about a missing item but reads as if it were
  is not modelled; `create_secret` on an existing item may be refused or replace
  it, since the code leaves that to the service.
- A kill of cofre takes the sops it started with it.
- In YamlPaths documents hold no duplicate keys and no sequences with content: a
  sequence is a leaf, as it is for `yaml_get` and `yaml_set`.
- AES-GCM, SHA-512 and age are perfect: a ciphertext opens under its key at its
  place only, two hashes are equal when the bytes they were fed are, a wrapped key
  answers to its recipient's identity only.
- SopsFile's document has no structure but its leaves: that the walk seals and
  opens them as `Seal` and `ValOf` say is SopsDocument's subject, in which commands
  do not overlap.
- In YamlText a block scalar is one token and a body below it; chomping, escapes
  and the indentation indicator are left out, and so are files of several
  documents.
- What a word resolves to (an integer, a float, a date) comes from tables given
  by the instance: the words in them are those whose types differ.
- Regexes are the sets of paths, keys and comments they match.

## Not modelled

- **cofre: inventory**: formats what a plan declares; no state.
- **cofre-fs**: nothing under `src/` calls it, so who would compete for its file
  cannot be read off the code.
- **cofre-secret**: what it guarantees, it guarantees through Rust's types.
- **cofre: generation**, the sampling: its property is a distribution, which no
  state machine tells apart.
- **cofre: verify and plan**, `filestatus`, the installer's dry run: they read and
  print.
- **identity.rs**, but for what `from_paths` makes of a manifest's files: checks of
  one list of paths.
- **suminuri-yaml**, below the token: characters of a scalar.

## The plan

1. *(done)* InstallPlan, Installer, Publication and their proofs.
2. *(done)* YamlPaths, CofreApply.
3. *(done)* SopsFile and its refinement of SealedFile; YamlTree, YamlText,
   SopsWalk, SopsBlock, SopsMeta, SopsDocument; SopsCommand, SopsKeys.
4. *(done)* ScratchDir. Proofs of the safety properties of Installer, MCYamlPaths,
   CofreApply, SopsFile and SopsKeys; that a tree and its block, encrypted and
   read again, are the file that was encrypted.
5. Proofs that are left: for more than one applier, the part of
   `KeptUnlessRotated` that is about Akeyless items created once; for
   `ImplementsSealedFile`, the hypothesis `~WritersOverlap` weakened to commands
   that write different targets.
6. With room for more runs: two applies at a time against the abstract
   specification of a secret, and cofre's hook inside SopsFile's edit.
