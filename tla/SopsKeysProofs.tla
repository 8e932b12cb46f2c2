---------------------------- MODULE SopsKeysProofs ----------------------------
(***************************************************************************)
(* Theorems about SopsKeys, for every tree of directories, every config    *)
(* and key file in it, every environment and every command line.  The last *)
(* one follows Parse along a line, argument by argument, and RuleFor to    *)
(* the first rule that matches; the others hold whatever these return.     *)
(***************************************************************************)
EXTENDS SopsKeys, NaturalSets

-----------------------------------------------------------------------------
(***************************************************************************)
(* What a command leaves behind.                                           *)
(***************************************************************************)
\* Wrote changes the target alone, and no file appears or goes.
LEMMA WroteTarget ==
  ASSUME NEW target, NEW new
  PROVE  /\ DOMAIN Wrote(target, new) = DOMAIN files
         /\ target = None => Wrote(target, new) = files
         /\ \A f \in DOMAIN files :
              /\ f # target => Wrote(target, new)[f] = files[f]
              /\ f = target /\ target # None => Wrote(target, new)[f] = new
              /\ Wrote(target, new)[f] \in {new, files[f]}
  BY DEF Wrote

LEMMA Kinds ==
  /\ "encrypt" \notin Unserved /\ "decrypt" \notin Unserved
  /\ "rotate" \notin Unserved /\ "updatekeys" \notin Unserved
  BY DEF Unserved

\* Every way a command can end.
LEMMA Endings ==
  ASSUME NEW inv
  PROVE  \/ Result(inv) \in {Failed, Outcome("ok", files)}
         \/ /\ inv.verb \in {"decrypt", "encrypt", "rotate", "updatekeys"}
            /\ inv.file # None
            /\ Result(inv) = CASE inv.verb = "decrypt"    -> Decrypted(inv)
                               [] inv.verb = "encrypt"    -> Encrypted(inv)
                               [] inv.verb = "rotate"     -> Rotated(inv)
                               [] inv.verb = "updatekeys" -> Updated(inv)
  BY DEF Result, Rewritten

\* A file a command changed is its target, and holds what the command made.
LEMMA Changes ==
  ASSUME NEW inv, NEW f \in DOMAIN files, Result(inv).files[f] # files[f]
  PROVE  \/ /\ Unwraps(files[File(inv)], Identities(env))
            /\ \/ f = Target(inv) /\ Target(inv) # None
               \/ f = File(inv)
         \/ /\ files[File(inv)].form # "sealed"
            /\ f = Target(inv) /\ Target(inv) # None
  <1>1. Result(inv) \notin {Failed, Unchanged, Outcome("ok", files)}
    BY DEF Failed, Unchanged, Outcome
  <1>2. CASE inv.verb = "decrypt"
    <2>1. Result(inv) = Decrypted(inv)
      BY <1>1, <1>2, Endings
    <2>2. Unwraps(files[File(inv)], Identities(env))
      BY <1>1, <2>1 DEF Decrypted
    <2>3. Result(inv).files = Wrote(Target(inv), Plain)
      BY <2>1, <2>2 DEF Decrypted, Outcome
    <2> QED BY <2>2, <2>3, WroteTarget
  <1>3. CASE inv.verb = "encrypt"
    <2>1. Result(inv) = Encrypted(inv)
      BY <1>1, <1>3, Endings
    <2>2. files[File(inv)].form # "sealed"
      BY <1>1, <2>1 DEF Encrypted
    <2>3. Result(inv).files = Wrote(Target(inv), Sealed(Recipients(inv), {}))
      BY <1>1, <2>1 DEF Encrypted, Outcome
    <2> QED BY <2>2, <2>3, WroteTarget
  <1>4. CASE inv.verb = "rotate"
    <2>1. Result(inv) = Rotated(inv)
      BY <1>1, <1>4, Endings
    <2>2. Unwraps(files[File(inv)], Identities(env))
      BY <1>1, <2>1 DEF Rotated
    <2>3. Result(inv).files = Wrote(Target(inv), Sealed(files[File(inv)].age, {}))
      BY <1>1, <2>1 DEF Rotated, Outcome
    <2> QED BY <2>2, <2>3, WroteTarget
  <1>5. CASE inv.verb = "updatekeys"
    <2>1. Result(inv) = Updated(inv)
      BY <1>1, <1>5, Endings
    <2>2. Unwraps(files[File(inv)], Identities(env))
      BY <1>1, <2>1 DEF Updated
    <2>3. Result(inv).files = [files EXCEPT ![File(inv)] = Sealed(Recipients(inv), {})]
      BY <1>1, <2>1 DEF Updated, Outcome
    <2> QED BY <2>2, <2>3
  <1> QED BY <1>1, <1>2, <1>3, <1>4, <1>5, Endings

-----------------------------------------------------------------------------
(***************************************************************************)
(* A step of a command, spelled out; every other step leaves the files.    *)
(***************************************************************************)
LEMMA RunSteps ==
  ASSUME Run
  PROVE  \E args \in Lines :
           /\ ran' = [args |-> args, code |-> Result(Parse(args)).code]
           /\ files' = Result(Parse(args)).files
           /\ config' = config /\ keys' = keys /\ env' = env
  BY DEF Run

LEMMA FilesStay ==
  ASSUME [Next]_vars, ~Run
  PROVE  files' = files
  BY DEF Next, Install, WriteConfig, WriteKeys, vars

LEMMA TargetIs ==
  ASSUME NEW inv, Target(inv) # None
  PROVE  inv.output # None \/ Target(inv) = File(inv)
  BY DEF Target

(***************************************************************************)
(* OnlyReadersReplace: a sealed file is replaced only by a command that    *)
(* opened it, or that named it as its --output; in particular encrypt over *)
(* a sealed file, and rotate or updatekeys by somebody who is not among    *)
(* its readers, leave it alone.                                            *)
(***************************************************************************)
THEOREM OnlyReadersReplaceFiles == Spec => OnlyReadersReplace
  <1>1. ASSUME [Next]_vars, NEW f \in DOMAIN files,
               files[f].form = "sealed", files'[f] # files[f]
        PROVE  \/ Unwraps(files[f], Identities(env))
               \/ Line.output # None /\ Target(Line) = f
    <2>1. Run
      BY <1>1, FilesStay
    <2>2. PICK args \in Lines : /\ ran' = [args |-> args, code |-> Result(Parse(args)).code]
                                /\ files' = Result(Parse(args)).files
      BY <2>1, RunSteps
    <2> DEFINE inv == Parse(args)
    <2>3. Line = inv
      BY <2>2 DEF Line
    <2> HIDE DEF inv
    <2>4. Result(inv).files[f] # files[f]
      BY <1>1, <2>2 DEF inv
    <2>5. \/ /\ Unwraps(files[File(inv)], Identities(env))
             /\ \/ f = Target(inv) /\ Target(inv) # None
                \/ f = File(inv)
          \/ /\ files[File(inv)].form # "sealed"
             /\ f = Target(inv) /\ Target(inv) # None
      BY <2>4, Changes
    <2>6. CASE f = File(inv)
      BY <1>1, <2>5, <2>6
    <2>7. CASE f # File(inv)
      <3>1. f = Target(inv) /\ Target(inv) # None
        BY <2>5, <2>7
      <3> QED BY <2>3, <2>7, <3>1, TargetIs
    <2> QED BY <2>6, <2>7
  <1>2. [Next]_vars =>
          [\A f \in DOMAIN files :
             files[f].form = "sealed" /\ files'[f] # files[f] =>
               \/ Unwraps(files[f], Identities(env))
               \/ Line.output # None /\ Target(Line) = f]_vars
    BY <1>1
  <1> QED BY <1>2, PTL DEF Spec, OnlyReadersReplace

-----------------------------------------------------------------------------
LEMMA HostKeysAreFound ==
  ASSUME NEW m, NEW f, Unwraps(f, HostKeys(m)), \A p \in m.age_key_file : ~keys[p].bad
  PROVE  FromPaths(m) # {} /\ Unwraps(f, FromPaths(m))
  <1>1. HostKeys(m) \subseteq FromPaths(m)
    BY DEF FromPaths, HostKeys
  <1>2. PICK x \in ToSet(f.age) : x \in HostKeys(m)
    BY DEF Unwraps
  <1>3. x \in FromPaths(m)
    BY <1>1, <1>2
  <1> QED BY <1>2, <1>3 DEF Unwraps

\* Only an installer's start leaves a manifest behind.
LEMMA ManifestsAreNoLines ==
  ASSUME NEW args \in Lines, NEW m \in Manifests, NEW f
  PROVE  args # <<m, f>>
  <1>1. DOMAIN m # {"word", "eq"}
    BY KeysAssumption
  <1> QED BY <1>1, KeysAssumption

(***************************************************************************)
(* HostKeyEnough: an installer whose SSH host key is among a file's        *)
(* recipients opens the file, whatever became of its other key files.  The *)
(* invariant is inductive: the start leaves the keys it looked at, and     *)
(* every other step forgets it.                                            *)
(***************************************************************************)
THEOREM HostKeyIsEnough == Spec => []HostKeyEnough
  <1>1. Init => HostKeyEnough
    BY DEF Init, HostKeyEnough
  <1>2. HostKeyEnough /\ [Next]_vars => HostKeyEnough'
    <2> SUFFICES ASSUME HostKeyEnough, [Next]_vars,
                        NEW m \in Manifests, NEW f \in DOMAIN files',
                        ran'.args = <<m, f>>, Unwraps(files[f], HostKeys(m))',
                        (\A p \in m.age_key_file : ~keys[p].bad)'
                 PROVE  ran'.code = "opens"
      BY DEF HostKeyEnough, HostKeys
    <2>1. CASE Run
      BY <2>1, ManifestsAreNoLines DEF Run
    <2>2. CASE Install
      <3>1. PICK m2 \in Manifests, f2 \in DOMAIN files :
              ran' = [args |-> <<m2, f2>>,
                      code |-> IF FromPaths(m2) = {} THEN "no identity"
                               ELSE IF Unwraps(files[f2], FromPaths(m2)) THEN "opens"
                               ELSE "failed"]
        BY <2>2 DEF Install
      <3>2. m2 = m /\ f2 = f
        BY <3>1
      <3>3. files' = files /\ keys' = keys
        BY <2>2 DEF Install
      <3>4. Unwraps(files[f], HostKeys(m)) /\ \A p \in m.age_key_file : ~keys[p].bad
        BY <3>3 DEF Unwraps, HostKeys
      <3>5. FromPaths(m) # {} /\ Unwraps(files[f], FromPaths(m))
        BY <3>4, HostKeysAreFound
      <3> QED BY <3>1, <3>2, <3>5
    <2>3. CASE WriteConfig \/ WriteKeys
      <3>1. ran'.args = <<>>
        BY <2>3 DEF WriteConfig, WriteKeys
      <3> QED BY <3>1
    <2>4. CASE UNCHANGED vars
      BY <2>4 DEF vars, HostKeyEnough, HostKeys, Unwraps
    <2> QED BY <2>1, <2>2, <2>3, <2>4 DEF Next
  <1> QED BY <1>1, <1>2, PTL DEF Spec

-----------------------------------------------------------------------------
(***************************************************************************)
(* The disk stays well formed.  DiskInv adds to TypeOK that no file or key *)
(* file of the disk disappears.                                            *)
(***************************************************************************)
DiskInv == /\ TypeOK
           /\ Places \subseteq DOMAIN keys
           /\ DOMAIN config = DOMAIN Up
           /\ \A q \in DOMAIN PathOf : PathOf[q].file \in DOMAIN files \ {None}

LEMMA SealedIsOK ==
  ASSUME NEW age, Wraps(age)
  PROVE  FileOK(Sealed(age, {}))
  BY DEF Wraps, FileOK, Sealed

LEMMA PlainIsOK == FileOK(Plain)
  BY DEF FileOK, Plain, ToSet

\* Whatever a command makes of well-formed files is well formed.
LEMMA CommandsKeepFiles ==
  ASSUME NEW inv, \A f \in DOMAIN files : FileOK(files[f])
  PROVE  LET held == Result(inv).files IN
         DOMAIN held = DOMAIN files /\ \A f \in DOMAIN held : FileOK(held[f])
  <1> DEFINE held == Result(inv).files
  <1>1. CASE Result(inv) \in {Failed, Unchanged, Outcome("ok", files)}
    BY <1>1 DEF Failed, Unchanged, Outcome
  <1>2. CASE Result(inv) = Decrypted(inv) /\ Result(inv) # Failed
    <2>1. held = Wrote(Target(inv), Plain)
      BY <1>2 DEF Decrypted, Outcome
    <2> QED BY <2>1, WroteTarget, PlainIsOK
  <1>3. CASE Result(inv) = Encrypted(inv) /\ Result(inv) # Failed
    <2>1. held = Wrote(Target(inv), Sealed(Recipients(inv), {})) /\ Wraps(Recipients(inv))
      BY <1>3 DEF Encrypted, Outcome
    <2> QED BY <2>1, WroteTarget, SealedIsOK
  <1>4. CASE Result(inv) = Rotated(inv) /\ Result(inv) # Failed
    <2> DEFINE age == files[File(inv)].age
    <2>1. held = Wrote(Target(inv), Sealed(age, {})) /\ Wraps(age)
      BY <1>4 DEF Rotated, Outcome
    <2> QED BY <2>1, WroteTarget, SealedIsOK
  <1>5. CASE Result(inv) = Updated(inv) /\ Result(inv) \notin {Failed, Unchanged}
    <2>1. /\ held = [files EXCEPT ![File(inv)] = Sealed(Recipients(inv), {})]
          /\ Wraps(Recipients(inv))
      BY <1>5 DEF Updated, Outcome
    <2> QED BY <2>1, SealedIsOK
  <1> QED BY <1>1, <1>2, <1>3, <1>4, <1>5, Endings

LEMMA DiskStaysSound == Spec => []DiskInv
  <1>1. Init => DiskInv
    BY KeysAssumption DEF Init, DiskInv, TypeOK
  <1>2. DiskInv /\ [Next]_vars => DiskInv'
    <2> SUFFICES ASSUME DiskInv, [Next]_vars PROVE DiskInv'
      OBVIOUS
    <2> USE DEF DiskInv
    <2>1. CASE UNCHANGED vars
      BY <2>1 DEF vars, TypeOK
    <2>2. ASSUME n < MaxSteps, n' = n + 1 PROVE n' \in 0..MaxSteps
      BY <2>2, KeysAssumption DEF TypeOK
    <2>3. CASE Run /\ n' \in 0..MaxSteps
      <3>1. PICK args \in Lines : /\ files' = Result(Parse(args)).files
                                  /\ config' = config /\ keys' = keys /\ env' = env
        BY <2>3, RunSteps
      <3>2. DOMAIN files' = DOMAIN files /\ \A f \in DOMAIN files' : FileOK(files'[f])
        BY <3>1, CommandsKeepFiles DEF TypeOK
      <3> QED BY <2>3, <3>1, <3>2 DEF TypeOK
    <2>4. CASE Install /\ n' \in 0..MaxSteps
      BY <2>4 DEF Install, TypeOK
    <2>5. CASE WriteConfig /\ n' \in 0..MaxSteps
      <3>1. PICK d \in DOMAIN config, c \in Configs : config' = [config EXCEPT ![d] = c]
        BY <2>5 DEF WriteConfig
      <3>2. \A x \in DOMAIN config' : ConfigOK(config'[x])
        BY <3>1, KeysAssumption DEF TypeOK
      <3> QED BY <2>5, <3>2 DEF WriteConfig, TypeOK
    <2>6. CASE WriteKeys /\ n' \in 0..MaxSteps
      <3>1. PICK p \in Places, t \in KeyTexts : keys' = [keys EXCEPT ![p] = t]
        BY <2>6 DEF WriteKeys
      <3>2. \A x \in Places : x \in DOMAIN keys' /\ KeysOK(keys'[x])
        BY <3>1, KeysAssumption DEF TypeOK
      <3> QED BY <2>6, <3>2 DEF WriteKeys, TypeOK
    <2> QED BY <2>1, <2>2, <2>3, <2>4, <2>5, <2>6 DEF Next
  <1> QED BY <1>1, <1>2, PTL DEF Spec

(***************************************************************************)
(* TypeOK: in particular, no command seals a file for nobody, or for a     *)
(* recipient that is not well formed.                                      *)
(***************************************************************************)
THEOREM TypeCorrect == Spec => []TypeOK
  <1>1. DiskInv => TypeOK
    BY DEF DiskInv
  <1> QED BY <1>1, DiskStaysSound, PTL

-----------------------------------------------------------------------------
(***************************************************************************)
(* SecondUpdateQuiet.                                                      *)
(***************************************************************************)
\* A file that has the recipients the options ask for is left alone.
Settled(inv) ==
    /\ files[File(inv)].age = Recipients(inv)
    /\ Recipients(inv) # <<>>

LEMMA SettledIsQuiet ==
  ASSUME NEW inv, Settled(inv), Unwraps(files[File(inv)], Identities(env))
  PROVE  Updated(inv) = Unchanged
  BY DEF Settled, Updated

\* What sealing a file in place leaves: the recipients of the options.
LEMMA SealingSettles ==
  ASSUME NEW inv, File(inv) \in DOMAIN files,
         inv.verb \in {"encrypt", "updatekeys"},
         inv.verb = "encrypt" => Target(inv) = File(inv) /\ File(inv) # None,
         Result(inv).code = "ok"
  PROVE  /\ Result(inv).files[File(inv)].age = Recipients(inv)
         /\ Recipients(inv) # <<>>
  <1>1. Result(inv) \notin {Failed, Unchanged}
    BY DEF Failed, Unchanged, Outcome
  <1>2. CASE inv.verb = "encrypt"
    <2>1. Result(inv) = Encrypted(inv)
      BY <1>1, <1>2, Kinds DEF Result
    <2>2. /\ Result(inv).files = Wrote(Target(inv), Sealed(Recipients(inv), {}))
          /\ Wraps(Recipients(inv))
      BY <1>1, <2>1 DEF Encrypted, Outcome
    <2> QED BY <1>2, <2>2, WroteTarget DEF Wraps, Sealed
  <1>3. CASE inv.verb = "updatekeys"
    <2>1. Result(inv) = Updated(inv)
      BY <1>1, <1>3, Kinds DEF Result
    <2>2. /\ Result(inv).files = [files EXCEPT ![File(inv)] = Sealed(Recipients(inv), {})]
          /\ Wraps(Recipients(inv))
      BY <1>1, <2>1 DEF Updated, Outcome
    <2> QED BY <2>2 DEF Wraps, Sealed
  <1> QED BY <1>2, <1>3

\* The options ask for the same until a config or the environment changes.
LEMMA RecipientsStay ==
  ASSUME NEW inv, config' = config, env' = env
  PROVE  Recipients(inv)' = Recipients(inv)
  BY DEF Recipients, Governing

LEMMA SettledNext ==
  ASSUME NEW inv, config' = config, env' = env,
         files'[File(inv)].age = Recipients(inv), Recipients(inv) # <<>>
  PROVE  Settled(inv)'
  BY RecipientsStay DEF Settled

\* The strengthening: it is the sealing that settles, whoever opens the file.
SealsInPlace(inv) ==
    /\ inv.verb \in {"encrypt", "updatekeys"}
    /\ inv.verb = "encrypt" => Target(inv) = File(inv)

SettledInv ==
    \A args \in Lines :
      ran.code = "ok" /\ ran.args = args /\ SealsInPlace(Parse(args))
        => Settled(Parse(args))

LEMMA StaysSettled == Spec => []SettledInv
  <1>1. Init => SettledInv
    BY DEF Init, SettledInv
  <1>2. DiskInv /\ SettledInv /\ [Next]_vars => SettledInv'
    <2> SUFFICES ASSUME DiskInv, SettledInv, [Next]_vars, NEW args \in Lines,
                        ran'.code = "ok", ran'.args = args, SealsInPlace(Parse(args))
                 PROVE  Settled(Parse(args))'
      BY DEF SettledInv
    <2> DEFINE inv == Parse(args)
    <2>1. CASE UNCHANGED vars
      <3>1. ran' = ran /\ files' = files /\ config' = config /\ env' = env
        BY <2>1 DEF vars
      <3>2. Settled(inv)
        BY <3>1 DEF SettledInv
      <3> QED BY <3>1, <3>2, SettledNext DEF Settled
    <2>2. CASE Run
      <3>1. /\ files' = Result(inv).files /\ Result(inv).code = "ok"
            /\ config' = config /\ env' = env
        BY <2>2, RunSteps
      <3>2. inv.file # None /\ inv.file \in DOMAIN PathOf
        BY <3>1, KeysAssumption DEF Result, Failed, Outcome, SealsInPlace
      <3>3. File(inv) \in DOMAIN files /\ File(inv) # None
        BY <3>2 DEF File, DiskInv
      <3>4. /\ Result(inv).files[File(inv)].age = Recipients(inv)
            /\ Recipients(inv) # <<>>
        BY <3>1, <3>3, SealingSettles DEF SealsInPlace
      <3> QED BY <3>1, <3>4, SettledNext
    <2>3. CASE Install
      <3>1. PICK m \in Manifests, f \in DOMAIN files :
              ran' = [args |-> <<m, f>>,
                      code |-> IF FromPaths(m) = {} THEN "no identity"
                               ELSE IF Unwraps(files[f], FromPaths(m)) THEN "opens"
                               ELSE "failed"]
        BY <2>3 DEF Install
      <3>2. ran'.code \in {"no identity", "opens", "failed"}
        BY <3>1
      <3> QED BY <3>2
    <2>4. CASE WriteConfig \/ WriteKeys
      BY <2>4 DEF WriteConfig, WriteKeys
    <2> QED BY <2>1, <2>2, <2>3, <2>4 DEF Next
  <1> QED BY <1>1, <1>2, DiskStaysSound, PTL DEF Spec

(***************************************************************************)
(* SecondUpdateQuiet: whichever config governs and whichever of its rules  *)
(* matches, and whether the recipients come from there or from the command *)
(* line, updatekeys asks for what encrypt and updatekeys sealed for.       *)
(***************************************************************************)
THEOREM SecondUpdateIsQuiet == Spec => []SecondUpdateQuiet
  <1>1. SettledInv => SecondUpdateQuiet
    <2> SUFFICES ASSUME SettledInv, ran.code = "ok", ran.args \in Lines,
                        SealsInPlace(Parse(ran.args)),
                        Unwraps(files[File(Parse(ran.args))], Identities(env))
                 PROVE  Updated(Parse(ran.args)) = Unchanged
      BY DEF SecondUpdateQuiet, SealsInPlace
    <2>1. Settled(Parse(ran.args))
      BY DEF SettledInv
    <2> QED BY <2>1, SettledIsQuiet
  <1> QED BY <1>1, StaysSettled, PTL

-----------------------------------------------------------------------------
(***************************************************************************)
(* The reader of the command line.                                         *)
(***************************************************************************)
IsReading(args, m, g) ==
    g = [k \in 0..m |->
           IF k = 0
           THEN [inv |-> Blank, sub |-> Subcommand(args), flag |-> None, wants |-> None]
           ELSE IF k = 1 /\ Subcommand(args) # None THEN g[0]
           ELSE Take(g[k - 1], args[k])]

\* Up to any argument the reading exists: by the least one it would fail at.
LEMMA ReadingExists ==
  ASSUME NEW args
  PROVE  \A m \in Nat : \E g : IsReading(args, m, g)
  <1> DEFINE S == {m \in Nat : ~\E g : IsReading(args, m, g)}
             start == [inv |-> Blank, sub |-> Subcommand(args), flag |-> None,
                       wants |-> None]
             skips == Subcommand(args) # None
  <1>1. SUFFICES ASSUME S # {} PROVE FALSE
    OBVIOUS
  <1>2. PICK m \in S : \A x \in S : m <= x
    BY <1>1, LeastOf
  <1>3. m # 0
    <2> DEFINE g == [k \in 0..0 |-> start]
    <2>1. IsReading(args, 0, g)
      BY DEF IsReading
    <2> QED BY <1>2, <2>1
  <1>4. m \in Nat /\ m - 1 \in Nat /\ m - 1 \notin S
    <2>1. S \subseteq Nat
      OBVIOUS
    <2> HIDE DEF S
    <2>2. m \in Nat /\ \A x \in S : m <= x
      BY <1>2, <2>1
    <2>3. m - 1 \in Nat /\ ~(m <= m - 1)
      BY <1>3, <2>2
    <2> QED BY <2>2, <2>3
  <1>5. PICK g : IsReading(args, m - 1, g)
    BY <1>4
  <1> DEFINE h == [k \in 0..m |-> IF k = 0 THEN start
                                  ELSE IF k = m
                                  THEN IF k = 1 /\ skips THEN start
                                       ELSE Take(g[m - 1], args[m])
                                  ELSE g[k]]
  <1> HIDE DEF start, skips
  <1>6. \A k \in 0..m - 1 : g[k] = IF k = 0 THEN start ELSE IF k = 1 /\ skips THEN g[0]
                                   ELSE Take(g[k - 1], args[k])
    BY <1>5 DEF IsReading, start, skips
  <1>7. \A k \in 0..m - 1 : h[k] = g[k]
    <2>1. \A k \in 0..m - 1 : k \in 0..m /\ k # m
      BY <1>4
    <2>2. 0 \in 0..m - 1
      BY <1>4
    <2>3. g[0] = start
      BY <1>6, <2>2
    <2> QED BY <2>1, <2>3
  <1>8. h[0] = start
    BY <1>4
  <1>9. \A k \in 0..m : h[k] = IF k = 0 THEN start ELSE IF k = 1 /\ skips THEN h[0]
                               ELSE Take(h[k - 1], args[k])
    <2> SUFFICES ASSUME NEW k \in 0..m, k # 0
                 PROVE  h[k] = IF k = 1 /\ skips THEN h[0]
                               ELSE Take(h[k - 1], args[k])
      BY <1>8
    <2>1. k - 1 \in 0..m - 1 /\ 0 \in 0..m - 1
      BY <1>4
    <2>2. h[k - 1] = g[k - 1] /\ g[0] = start
      BY <1>6, <1>7, <2>1
    <2>3. CASE k = m
      BY <1>8, <2>2, <2>3
    <2>4. CASE k # m
      <3>1. k \in 0..m - 1
        BY <1>4, <2>4
      <3>2. g[k] = IF k = 1 /\ skips THEN g[0] ELSE Take(g[k - 1], args[k])
        BY <1>6, <3>1
      <3>3. h[k] = g[k]
        BY <1>7, <3>1
      <3> HIDE DEF h
      <3> QED BY <1>8, <2>2, <3>2, <3>3
    <2> QED BY <2>3, <2>4
  <1>10. IsReading(args, m, h)
    BY <1>9 DEF IsReading, start, skips
  <1> QED BY <1>2, <1>10

LEMMA ReaderByArguments ==
  ASSUME NEW args, Len(args) \in Nat
  PROVE  /\ Reader(args)[0] = [inv |-> Blank, sub |-> Subcommand(args),
                               flag |-> None, wants |-> None]
         /\ \A k \in 1..Len(args) :
              Reader(args)[k] = IF k = 1 /\ Subcommand(args) # None THEN Reader(args)[0]
                                ELSE Take(Reader(args)[k - 1], args[k])
  <1> DEFINE w == CHOOSE g : IsReading(args, Len(args), g)
  <1>1. \E g : IsReading(args, Len(args), g)
    BY ReadingExists
  <1>2. IsReading(args, Len(args), w)
    BY <1>1
  <1>3. Reader(args) = w
    BY DEF Reader, IsReading
  <1> HIDE DEF w
  <1>4. /\ w[0] = [inv |-> Blank, sub |-> Subcommand(args), flag |-> None,
                   wants |-> None]
        /\ \A k \in 1..Len(args) :
             w[k] = IF k = 1 /\ Subcommand(args) # None THEN w[0]
                    ELSE Take(w[k - 1], args[k])
    <2>1. 0 \in 0..Len(args) /\ \A k \in 1..Len(args) : k \in 0..Len(args) /\ k # 0
      OBVIOUS
    <2> QED BY <1>2, <2>1 DEF IsReading
  <1> QED BY <1>3, <1>4

-----------------------------------------------------------------------------
(***************************************************************************)
(* One argument of the command line.                                       *)
(***************************************************************************)
\* The fields of an invocation that options and switches fill.
Filled == {"file", "path_expr", "value_expr", "in_place", "ignore_mac",
           "mac_only_encrypted", "output", "extract", "input_type", "output_type",
           "config", "unencrypted_suffix", "encrypted_suffix", "unencrypted_regex",
           "encrypted_regex", "indent"}

Fields == Filled \cup {"verb", "age", "unsupported", "error"}

LEMMA FieldsOfBlank == DOMAIN Blank = Fields /\ Blank.error = None /\ Blank.unsupported = {}
  BY DEF Blank, Fields, Filled

LEMMA OptionsFill ==
  /\ \A w \in DOMAIN Options : Options[w] \in Filled
  /\ \A w \in DOMAIN Switches : Switches[w] \in Filled
  BY DEF Options, Switches, Filled

\* The tables of words do not overlap where it matters.
LEMMA WordsApart ==
  /\ Valued \cap (DOMAIN VerbFlags \cup DOMAIN Switches) = {}
  /\ UnsupportedFlags \cap (DOMAIN VerbFlags \cup DOMAIN Switches \cup Valued) = {}
  /\ UnsupportedWithValue \cap Ages = {}
  /\ None \notin Valued
  <1>1. Valued \cap (DOMAIN VerbFlags \cup DOMAIN Switches) = {}
    BY DEF Valued, VerbFlags, Switches, Options, Ages, UnsupportedWithValue
  <1>2. UnsupportedFlags \cap (DOMAIN VerbFlags \cup DOMAIN Switches \cup Valued) = {}
    BY DEF Valued, VerbFlags, Switches, Options, Ages, UnsupportedWithValue, UnsupportedFlags
  <1>3. UnsupportedWithValue \cap Ages = {}
    BY DEF Ages, UnsupportedWithValue
  <1> QED BY <1>1, <1>2, <1>3, NoneAssumption

ReaderOK(s) ==
    /\ s = [inv |-> s.inv, sub |-> s.sub, flag |-> s.flag, wants |-> s.wants]
    /\ DOMAIN s.inv = Fields
    /\ s.wants \in Valued \cup {None}

\* What an argument does not undo: the subcommand and what was not served.
Goes(s, r) ==
    /\ ReaderOK(r)
    /\ r.sub = s.sub
    /\ s.inv.unsupported \subseteq r.inv.unsupported

Fill(s, f, v) == [s EXCEPT !.inv[f] = v]

\* One field of the invocation, another than the one of what is not served.
LEMMA FillOne ==
  ASSUME NEW s, ReaderOK(s), NEW f, f # "unsupported", NEW v
  PROVE  Goes(s, Fill(s, f, v)) /\ Fill(s, f, v).wants = s.wants
  <1> DEFINE i == [s.inv EXCEPT ![f] = v]
  <1>1. DOMAIN i = Fields /\ i.unsupported = s.inv.unsupported
    BY DEF ReaderOK, Fields
  <1> HIDE DEF i
  <1>2. [s EXCEPT !.inv = i] = [inv |-> i, sub |-> s.sub, flag |-> s.flag, wants |-> s.wants]
    BY DEF ReaderOK
  <1>3. Fill(s, f, v) = [s EXCEPT !.inv = i]
    BY DEF i, ReaderOK, Fill
  <1> QED BY <1>1, <1>2, <1>3 DEF Goes, ReaderOK

LEMMA GiveGoes ==
  ASSUME NEW s, ReaderOK(s), NEW flag \in Valued, NEW value
  PROVE  /\ Goes(s, Give(s, flag, value))
         /\ Give(s, flag, value).wants = s.wants
         /\ flag \in UnsupportedWithValue => flag \in Give(s, flag, value).inv.unsupported
  <1> DEFINE r == Give(s, flag, value)
  <1>1. CASE flag \in Ages
    <2>1. r = Fill(s, "age", s.inv.age \o Split[value])
      BY <1>1 DEF Give, Fill, ReaderOK, Fields
    <2> QED BY <1>1, <2>1, FillOne, WordsApart
  <1>2. CASE flag \in UnsupportedWithValue
    <2> DEFINE u == s.inv.unsupported \cup {flag}
               i == [s.inv EXCEPT !.unsupported = u]
    <2>1. flag \notin Ages
      BY <1>2, WordsApart
    <2>2. DOMAIN i = Fields /\ i.unsupported = u
      BY DEF ReaderOK, Fields
    <2> HIDE DEF i
    <2>3. [s EXCEPT !.inv = i] = [inv |-> i, sub |-> s.sub, flag |-> s.flag, wants |-> s.wants]
      BY DEF ReaderOK
    <2>4. r = [s EXCEPT !.inv = i]
      BY <1>2, <2>1 DEF Give, i, ReaderOK
    <2>5. s.inv.unsupported \subseteq u /\ flag \in u
      OBVIOUS
    <2> HIDE DEF u
    <2> QED BY <2>2, <2>3, <2>4, <2>5 DEF Goes, ReaderOK
  <1>3. CASE flag \notin Ages \cup UnsupportedWithValue
    <2>1. flag \in DOMAIN Options /\ Options[flag] \in Filled
      BY <1>3, OptionsFill DEF Valued
    <2>2. Options[flag] # "unsupported"
      BY <2>1 DEF Filled
    <2>3. CASE flag = "--indent" /\ value \notin Numbers
      <3>1. r = Fill(s, "error", "not a number")
        BY <1>3, <2>3 DEF Give, Fails, Fill, ReaderOK
      <3>2. "error" # "unsupported"
        OBVIOUS
      <3> DEFINE e == Fill(s, "error", "not a number")
      <3>3. Goes(s, e) /\ e.wants = s.wants
        BY <3>2, FillOne, Zenon
      <3> QED BY <1>3, <3>1, <3>3, Zenon
    <2>4. CASE ~(flag = "--indent" /\ value \notin Numbers)
      <3>1. r = Fill(s, Options[flag], value)
        BY <1>3, <2>4 DEF Give, Fill
      <3> QED BY <1>3, <2>2, <3>1, FillOne
    <2> QED BY <2>3, <2>4
  <1> QED BY <1>1, <1>2, <1>3

\* The value of the option before.
LEMMA TakesValue ==
  ASSUME NEW s, ReaderOK(s), s.inv.error = None, s.wants # None, NEW a
  PROVE  /\ Goes(s, Take(s, a))
         /\ Take(s, a).wants = None
         /\ s.wants \in UnsupportedWithValue => s.wants \in Take(s, a).inv.unsupported
  <1> DEFINE r == [s EXCEPT !.wants = None]
  <1>1. r = [inv |-> s.inv, sub |-> s.sub, flag |-> s.flag, wants |-> None]
    BY DEF ReaderOK
  <1>2. ReaderOK(r) /\ r.inv = s.inv /\ r.sub = s.sub /\ r.wants = None
    BY <1>1 DEF ReaderOK
  <1>3. Take(s, a) = Give(r, s.wants, a.word)
    BY DEF Take, Word
  <1>4. s.wants \in Valued
    BY DEF ReaderOK
  <1> HIDE DEF r
  <1> QED BY <1>2, <1>3, <1>4, GiveGoes DEF Goes

\* An argument of its own.
LEMMA TakesWord ==
  ASSUME NEW s, ReaderOK(s), s.inv.error = None, s.wants = None, NEW a
  PROVE  /\ Goes(s, Take(s, a))
         /\ Take(s, a).wants = IF a.word \in Valued /\ a.eq = None THEN a.word ELSE None
         /\ a.word \in UnsupportedFlags \/ (a.word \in UnsupportedWithValue /\ a.eq # None)
              => a.word \in Take(s, a).inv.unsupported
  <1> DEFINE r == Take(s, a)
  <1>1. CASE a.word \in DOMAIN VerbFlags
    <2>1. r = [s EXCEPT !.flag = VerbFlags[a.word]]
      BY <1>1 DEF Take, Word
    <2>2. r = [inv |-> s.inv, sub |-> s.sub, flag |-> VerbFlags[a.word], wants |-> s.wants]
      BY <2>1 DEF ReaderOK
    <2>3. Goes(s, r) /\ r.wants = None
      BY <2>2 DEF Goes, ReaderOK
    <2>4. a.word \notin Valued \cup UnsupportedFlags
      BY <1>1, WordsApart
    <2> QED BY <2>3, <2>4 DEF Valued
  <1>2. CASE a.word \notin DOMAIN VerbFlags /\ a.word \in DOMAIN Switches
    <2>1. r = Fill(s, Switches[a.word], TRUE)
      BY <1>2 DEF Take, Word, Fill
    <2>2. Switches[a.word] # "unsupported"
      BY <1>2, OptionsFill DEF Filled
    <2>3. a.word \notin Valued \cup UnsupportedFlags /\ a.word \notin UnsupportedWithValue
      BY <1>2, WordsApart DEF Valued
    <2> DEFINE e == Fill(s, Switches[a.word], TRUE)
    <2>4. Goes(s, e) /\ e.wants = None
      BY <2>2, FillOne, Zenon
    <2> QED BY <2>1, <2>3, <2>4, Zenon
  <1>3. CASE a.word \in Valued
    <2>1. a.word \notin DOMAIN VerbFlags \cup DOMAIN Switches \cup UnsupportedFlags
      BY <1>3, WordsApart
    <2>2. CASE a.eq = None
      <3>1. r = [s EXCEPT !.wants = a.word]
        BY <1>3, <2>1, <2>2 DEF Take, Word
      <3>2. r = [inv |-> s.inv, sub |-> s.sub, flag |-> s.flag, wants |-> a.word]
        BY <3>1 DEF ReaderOK
      <3> QED BY <1>3, <2>1, <2>2, <3>2 DEF Goes, ReaderOK
    <2>3. CASE a.eq # None
      <3>1. r = Give(s, a.word, a.eq)
        BY <1>3, <2>1, <2>3 DEF Take, Word
      <3> QED BY <1>3, <2>1, <2>3, <3>1, GiveGoes
    <2> QED BY <2>2, <2>3
  <1>4. CASE a.word \in UnsupportedFlags
    <2> DEFINE u == s.inv.unsupported \cup {a.word}
               i == [s.inv EXCEPT !.unsupported = u]
    <2>1. a.word \notin DOMAIN VerbFlags \cup DOMAIN Switches \cup Valued
      BY <1>4, WordsApart
    <2>2. DOMAIN i = Fields /\ i.unsupported = u
      BY DEF ReaderOK, Fields
    <2> HIDE DEF i
    <2>3. [s EXCEPT !.inv = i] = [inv |-> i, sub |-> s.sub, flag |-> s.flag, wants |-> s.wants]
      BY DEF ReaderOK
    <2>4. r = [s EXCEPT !.inv = i]
      BY <1>4, <2>1 DEF Take, Word, i, ReaderOK
    <2>5. s.inv.unsupported \subseteq u /\ a.word \in u
      OBVIOUS
    <2> HIDE DEF u
    <2> QED BY <2>1, <2>2, <2>3, <2>4, <2>5 DEF Goes, ReaderOK
  <1>5. CASE a.word \notin DOMAIN VerbFlags \cup DOMAIN Switches \cup Valued
                           \cup UnsupportedFlags
    <2>1. \E f \in Fields \ {"unsupported"} : \E v : r = Fill(s, f, v)
      <3>1. CASE a.word \in Unknown
        <4>1. r = Fill(s, "error", "unknown flag")
          BY <1>5, <3>1 DEF Take, Word, Fails, Fill, ReaderOK
        <4> QED BY <4>1 DEF Fields
      <3>2. CASE a.word \notin Unknown
        <4>1. r = Positional(s, a.word)
          BY <1>5, <3>2 DEF Take, Word
        <4>2. \/ r = Fill(s, "file", a.word)
              \/ r = Fill(s, "path_expr", a.word)
              \/ r = Fill(s, "value_expr", a.word)
              \/ r = Fill(s, "error", "too many files")
          BY <4>1 DEF Positional, Fails, Fill, ReaderOK
        <4> QED BY <4>2 DEF Fields, Filled
      <3> QED BY <3>1, <3>2
    <2> QED BY <1>5, <2>1, FillOne DEF Valued
  <1> QED BY <1>1, <1>2, <1>3, <1>4, <1>5

-----------------------------------------------------------------------------
(***************************************************************************)
(* Which arguments are values.                                             *)
(***************************************************************************)
Waits(a) == a.word \in Valued /\ a.eq = None

IsValues(args, m, g) ==
    g = [k \in 1..m |-> k > 1 /\ Waits(args[k - 1]) /\ ~g[k - 1]]

LEMMA ValuesExist ==
  ASSUME NEW args
  PROVE  \A m \in Nat : \E g : IsValues(args, m, g)
  <1> DEFINE S == {m \in Nat : ~\E g : IsValues(args, m, g)}
  <1>1. SUFFICES ASSUME S # {} PROVE FALSE
    OBVIOUS
  <1>2. PICK m \in S : \A x \in S : m <= x
    BY <1>1, LeastOf
  <1>3. m # 0
    <2> DEFINE g == [k \in 1..0 |-> FALSE]
    <2>1. IsValues(args, 0, g)
      BY DEF IsValues
    <2> QED BY <1>2, <2>1
  <1>4. m \in Nat /\ m - 1 \in Nat /\ m - 1 \notin S
    <2>1. S \subseteq Nat
      OBVIOUS
    <2> HIDE DEF S
    <2>2. m \in Nat /\ \A x \in S : m <= x
      BY <1>2, <2>1
    <2>3. m - 1 \in Nat /\ ~(m <= m - 1)
      BY <1>3, <2>2
    <2> QED BY <2>2, <2>3
  <1>5. PICK g : IsValues(args, m - 1, g)
    BY <1>4
  <1> DEFINE h == [k \in 1..m |-> IF k = m THEN m > 1 /\ Waits(args[m - 1]) /\ ~g[m - 1]
                                  ELSE g[k]]
  <1>6. \A k \in 1..m - 1 : h[k] = g[k]
    BY <1>4
  <1>7. \A k \in 1..m : h[k] = (k > 1 /\ Waits(args[k - 1]) /\ ~h[k - 1])
    <2> SUFFICES ASSUME NEW k \in 1..m
                 PROVE  h[k] = (k > 1 /\ Waits(args[k - 1]) /\ ~h[k - 1])
      OBVIOUS
    <2>1. k > 1 => h[k - 1] = g[k - 1]
      BY <1>4, <1>6
    <2>2. CASE k = m
      BY <2>1, <2>2
    <2>3. CASE k # m
      <3>1. k \in 1..m - 1
        BY <1>4, <2>3
      <3>2. g[k] = (k > 1 /\ Waits(args[k - 1]) /\ ~g[k - 1])
        BY <1>5, <3>1 DEF IsValues
      <3>3. h[k] = g[k]
        BY <1>6, <3>1
      <3> HIDE DEF h
      <3> QED BY <2>1, <3>2, <3>3
    <2> QED BY <2>2, <2>3
  <1>8. IsValues(args, m, h)
    BY <1>7 DEF IsValues
  <1> QED BY <1>2, <1>8

LEMMA ValuesByArguments ==
  ASSUME NEW args, Len(args) \in Nat, DOMAIN args = 1..Len(args)
  PROVE  \A k \in 1..Len(args) :
           k \in Values(args) <=> /\ k > 1 /\ Waits(args[k - 1])
                                  /\ k - 1 \notin Values(args)
  <1> DEFINE w == CHOOSE g : IsValues(args, Len(args), g)
  <1>1. \E g : IsValues(args, Len(args), g)
    BY ValuesExist
  <1>2. IsValues(args, Len(args), w)
    BY <1>1
  <1>3. Values(args) = {k \in 1..Len(args) : w[k]}
    BY DEF Values, IsValues, Waits
  <1> HIDE DEF w
  <1>4. \A k \in 1..Len(args) : w[k] = (k > 1 /\ Waits(args[k - 1]) /\ ~w[k - 1])
    BY <1>2 DEF IsValues
  <1>5. \A k \in 1..Len(args) : k > 1 => k - 1 \in 1..Len(args)
    OBVIOUS
  <1> QED BY <1>3, <1>4, <1>5

-----------------------------------------------------------------------------
(***************************************************************************)
(* What the reader knows after k arguments, unless it has failed: the flag *)
(* that waits is the k-th argument's, and every argument so far that is    *)
(* nobody's value and is not served is noted, or waits for its value.      *)
(***************************************************************************)
NotServed == UnsupportedWithValue \cup UnsupportedFlags

Noted(args, k) ==
    LET s == Reader(args)[k] IN
    \A i \in 1..k :
      i \notin Values(args) /\ args[i].word \in NotServed
        => \/ args[i].word \in s.inv.unsupported
           \/ i = k /\ s.wants = args[i].word

Heard(args, k) ==
    LET s == Reader(args)[k] IN
    /\ ReaderOK(s)
    /\ s.sub = Subcommand(args)
    /\ s.inv.error = None =>
         /\ s.wants = IF k > 0 /\ k \notin Values(args) /\ Waits(args[k])
                      THEN args[k].word ELSE None
         /\ Noted(args, k)

LEMMA HeardFirst ==
  ASSUME NEW args, Len(args) \in Nat
  PROVE  Heard(args, 0)
  <1>1. Reader(args)[0] = [inv |-> Blank, sub |-> Subcommand(args), flag |-> None,
                           wants |-> None]
    BY ReaderByArguments
  <1>2. ReaderOK(Reader(args)[0])
    BY <1>1, FieldsOfBlank DEF ReaderOK
  <1>3. Noted(args, 0)
    BY DEF Noted
  <1> QED BY <1>1, <1>2, <1>3 DEF Heard

LEMMA HeardNext ==
  ASSUME NEW args, Len(args) \in Nat, DOMAIN args = 1..Len(args),
         NEW k \in 1..Len(args), Heard(args, k - 1)
  PROVE  Heard(args, k)
  <1> DEFINE s == Reader(args)[k - 1]
             r == Reader(args)[k]
             a == args[k]
  <1>1. ReaderOK(s) /\ s.sub = Subcommand(args)
    BY DEF Heard
  <1>2. r = IF k = 1 /\ Subcommand(args) # None THEN Reader(args)[0] ELSE Take(s, a)
    BY ReaderByArguments
  <1>3. k \in Values(args) <=> k > 1 /\ Waits(args[k - 1]) /\ k - 1 \notin Values(args)
    BY ValuesByArguments
  <1>4. \A i \in 1..k : i = k \/ i \in 1..k - 1
    OBVIOUS
  <1>5. s.inv.error = None =>
          /\ s.wants = IF k - 1 > 0 /\ k - 1 \notin Values(args) /\ Waits(args[k - 1])
                       THEN args[k - 1].word ELSE None
          /\ Noted(args, k - 1)
    BY DEF Heard
  <1>6. CASE k = 1 /\ Subcommand(args) # None
    <2>1. r = s /\ s = [inv |-> Blank, sub |-> Subcommand(args), flag |-> None,
                        wants |-> None]
      BY <1>2, <1>6, ReaderByArguments
    <2>2. ~Dashed(args[1])
      BY <1>6 DEF Subcommand
    <2>3. a.word \notin Valued \cup NotServed
      BY <1>6, <2>2 DEF Dashed, NotServed, Valued
    <2>4. r.wants = None /\ ~Waits(a)
      BY <2>1, <2>3 DEF Waits
    <2>5. Noted(args, k)
      BY <1>6, <2>3 DEF Noted
    <2> HIDE DEF s, r
    <2> QED BY <1>1, <2>1, <2>4, <2>5 DEF Heard, r
  <1>7. CASE ~(k = 1 /\ Subcommand(args) # None) /\ s.inv.error # None
    <2>1. r = s
      BY <1>2, <1>7 DEF Take
    <2> QED BY <1>1, <1>7, <2>1 DEF Heard
  <1>8. CASE ~(k = 1 /\ Subcommand(args) # None) /\ s.inv.error = None /\ s.wants # None
    <2>1. r = Take(s, a)
      BY <1>2, <1>8
    <2>2. /\ k - 1 > 0 /\ k - 1 \notin Values(args) /\ Waits(args[k - 1])
          /\ s.wants = args[k - 1].word
      BY <1>5, <1>8
    <2>3. k \in Values(args)
      BY <1>3, <2>2
    <2> HIDE DEF s, r
    <2>4. /\ Goes(s, r) /\ r.wants = None
          /\ s.wants \in UnsupportedWithValue => s.wants \in r.inv.unsupported
      BY <1>1, <1>8, <2>1, TakesValue
    <2>5. s.wants \notin UnsupportedFlags
      BY <1>1, <1>8, WordsApart DEF ReaderOK
    <2>6. Noted(args, k)
      <3> SUFFICES ASSUME NEW i \in 1..k - 1, i \notin Values(args),
                          args[i].word \in NotServed
                   PROVE  args[i].word \in r.inv.unsupported
        BY <1>4, <2>3 DEF Noted, r
      <3>1. \/ args[i].word \in s.inv.unsupported
            \/ s.wants = args[i].word
        BY <1>5, <1>8 DEF Noted, s
      <3> QED BY <2>4, <2>5, <3>1 DEF Goes, NotServed
    <2> QED BY <1>1, <2>3, <2>4, <2>6 DEF Heard, Goes, r
  <1>9. CASE ~(k = 1 /\ Subcommand(args) # None) /\ s.inv.error = None /\ s.wants = None
    <2>1. r = Take(s, a)
      BY <1>2, <1>9
    <2>2. k \notin Values(args)
      BY <1>3, <1>5, <1>9, WordsApart DEF Waits
    <2> HIDE DEF s, r
    <2>3. /\ Goes(s, r)
          /\ r.wants = IF Waits(a) THEN a.word ELSE None
          /\ a.word \in UnsupportedFlags \/ (a.word \in UnsupportedWithValue /\ a.eq # None)
               => a.word \in r.inv.unsupported
      BY <1>1, <1>9, <2>1, TakesWord DEF Waits
    <2>4. a.word \in NotServed => a.word \in r.inv.unsupported \/ r.wants = a.word
      BY <2>3 DEF NotServed, Waits, Valued
    <2>5. Noted(args, k)
      <3> SUFFICES ASSUME NEW i \in 1..k - 1, i \notin Values(args),
                          args[i].word \in NotServed
                   PROVE  args[i].word \in r.inv.unsupported
        BY <1>4, <2>4 DEF Noted, r
      <3>1. args[i].word \in s.inv.unsupported \/ args[i].word = None
        BY <1>5, <1>9 DEF Noted, s
      <3>2. args[i].word # None
        BY NoneAssumption DEF NotServed, Valued
      <3> QED BY <2>3, <3>1, <3>2 DEF Goes
    <2> QED BY <1>1, <2>2, <2>3, <2>5 DEF Heard, Goes, r
  <1> QED BY <1>6, <1>7, <1>8, <1>9

LEMMA HeardAlong ==
  ASSUME NEW args, Len(args) \in Nat, DOMAIN args = 1..Len(args)
  PROVE  Heard(args, Len(args))
  <1> DEFINE S == {k \in 0..Len(args) : ~Heard(args, k)}
  <1>1. SUFFICES ASSUME S # {} PROVE FALSE
    OBVIOUS
  <1>2. S \in SUBSET Nat
    OBVIOUS
  <1>3. PICK k \in S : \A x \in S : k <= x
    BY <1>1, <1>2, LeastOf
  <1>4. k # 0
    BY <1>3, HeardFirst
  <1>5. k \in 1..Len(args) /\ k - 1 \in 0..Len(args) /\ ~Heard(args, k)
    BY <1>3, <1>4
  <1>6. k - 1 \notin S
    <2> HIDE DEF S
    <2>1. k \in Nat /\ k - 1 \in Nat /\ ~(k <= k - 1)
      BY <1>5
    <2> QED BY <1>3, <2>1
  <1>7. Heard(args, k - 1)
    BY <1>5, <1>6
  <1> QED BY <1>5, <1>7, HeardNext

\* A line that asks for what is not served ends in no sealing.
LEMMA NothingReadOver ==
  ASSUME NEW args \in Lines,
         Parse(args).verb \in {"encrypt", "updatekeys"}, Result(Parse(args)).code = "ok"
  PROVE  \A k \in DOMAIN args \ Values(args) : args[k].word \notin NotServed
  <1> DEFINE s == Reader(args)[Len(args)]
             inv == Parse(args)
  <1>1. Len(args) \in Nat /\ DOMAIN args = 1..Len(args)
    BY KeysAssumption
  <1>2. Heard(args, Len(args))
    BY <1>1, HeardAlong
  <1>3. inv.error = None /\ inv.unsupported = {}
    BY DEF Result, Failed, Outcome
  <1>4. s.sub \notin Unserved
    <2> SUFFICES ASSUME s.sub \in Unserved PROVE FALSE
      OBVIOUS
    <2>1. inv = [Blank EXCEPT !.verb = s.sub]
      BY DEF Parse
    <2>2. inv.verb = s.sub
      BY <2>1, FieldsOfBlank DEF Fields
    <2> QED BY <2>2, Kinds
  <1> HIDE DEF s
  <1>5. DOMAIN s.inv = Fields
    BY <1>2 DEF Heard, ReaderOK, s
  <1>6. ~(s.wants # None /\ s.inv.error = None)
    <2> SUFFICES ASSUME s.wants # None, s.inv.error = None PROVE FALSE
      OBVIOUS
    <2>1. inv = [s.inv EXCEPT !.error = "missing value"]
      BY <1>4 DEF Parse, s
    <2>2. inv.error = "missing value"
      BY <1>5, <2>1 DEF Fields
    <2> QED BY <1>3, <2>2, NoneAssumption DEF ParseErrors
  <1>7. PICK verb : inv = [s.inv EXCEPT !.verb = verb]
    BY <1>4, <1>6 DEF Parse, s
  <1>8. s.inv.error = None /\ s.inv.unsupported = {} /\ s.wants = None
    BY <1>3, <1>5, <1>6, <1>7 DEF Fields
  <1>9. Noted(args, Len(args))
    BY <1>2, <1>8 DEF Heard, s
  <1> QED
    <2> SUFFICES ASSUME NEW k \in 1..Len(args), k \notin Values(args),
                        args[k].word \in NotServed
                 PROVE  FALSE
      BY <1>1
    <2>1. args[k].word = None
      BY <1>8, <1>9 DEF Noted, s
    <2> QED BY <2>1, NoneAssumption DEF NotServed, Valued

-----------------------------------------------------------------------------
(***************************************************************************)
(* The config that governs, and the rule that is asked.                    *)
(***************************************************************************)
LEMMA MinOf ==
  ASSUME NEW S \in SUBSET Nat, S # {}
  PROVE  Min(S) \in S /\ \A x \in S : Min(S) <= x
  BY LeastOf DEF Min

LEMMA WalkedIsOfTheTree ==
  ASSUME NEW path \in DOMAIN PathOf
  PROVE  Walked(path) \in Seq(DOMAIN Up)
  <1>1. Cwd \in DOMAIN Up /\ PathOf[path].dir \in DOMAIN Up
    BY KeysAssumption
  <1>2. <<Cwd>> \in Seq(DOMAIN Up)
    BY <1>1
  <1>3. Up[PathOf[path].dir] \in Seq(DOMAIN Up)
    BY <1>1, KeysAssumption
  <1> QED BY <1>2, <1>3 DEF Walked

LEMMA NearestIsOfTheTree ==
  ASSUME NEW path \in DOMAIN PathOf, Nearest(config, path) # None
  PROVE  Nearest(config, path) \in DOMAIN Up
  <1> DEFINE walk  == Walked(path)
             found == {k \in DOMAIN walk : config[walk[k]].t # "absent"}
  <1>1. walk \in Seq(DOMAIN Up)
    BY WalkedIsOfTheTree
  <1>2. found # {} /\ Nearest(config, path) = walk[Min(found)]
    BY DEF Nearest
  <1> HIDE DEF walk
  <1>3. found \in SUBSET Nat
    BY <1>1
  <1>4. Min(found) \in DOMAIN walk
    BY <1>2, <1>3, MinOf
  <1> QED BY <1>1, <1>2, <1>4

LEMMA GoverningIsOfTheDisk ==
  ASSUME DiskInv, NEW args \in Lines, Parse(args).file # None,
         Governing(Parse(args)) # None
  PROVE  Governing(Parse(args)) \in DOMAIN config
  <1> DEFINE inv == Parse(args)
  <1>1. inv.file \in DOMAIN PathOf /\ inv.config \in DOMAIN Up \cup {None}
    BY KeysAssumption
  <1>2. env \in Envs /\ DOMAIN config = DOMAIN Up
    BY DEF DiskInv, TypeOK
  <1>3. env.SOPS_CONFIG \in DOMAIN Up \cup {None}
    BY <1>2, KeysAssumption
  <1> QED BY <1>1, <1>2, <1>3, NearestIsOfTheTree DEF Governing

\* The rule rule_for returns is the first that matches, and it is served whole.
LEMMA RuleIsAsked ==
  ASSUME NEW c, ConfigOK(c), NEW path, ~Refuses(c), RuleFor(c, path) # None
  PROVE  ToSet(RuleFor(c, path).age) = Asks(c, path, Refused)
  <1> DEFINE hits == {k \in DOMAIN c.rules : Matches(c.rules[k], path)}
             m    == Min(hits)
             First(k) == /\ Matches(c.rules[k], path)
                         /\ \A j \in 1..(k - 1) : ~Matches(c.rules[j], path)
             asked == CHOOSE k \in DOMAIN c.rules : First(k)
  <1>1. DOMAIN c.rules = 1..Len(c.rules) /\ Len(c.rules) \in Nat
    BY DEF ConfigOK
  <1>2. hits # {} /\ RuleFor(c, path) = c.rules[m]
    BY DEF RuleFor
  <1>3. m \in hits /\ \A x \in hits : m <= x
    <2>1. hits \in SUBSET Nat
      BY <1>1
    <2> HIDE DEF hits
    <2> QED BY <1>2, <2>1, MinOf
  <1>4. m \in DOMAIN c.rules /\ m \in Nat
    BY <1>1, <1>3
  <1> HIDE DEF m
  <1>5. First(m)
    <2>1. \A j \in 1..(m - 1) : j \in DOMAIN c.rules /\ ~(m <= j)
      BY <1>1, <1>4
    <2> QED BY <1>3, <2>1
  <1>6. asked \in DOMAIN c.rules /\ First(asked)
    BY <1>4, <1>5
  <1>7. \A k \in DOMAIN c.rules : First(k) => k = m
    <2> SUFFICES ASSUME NEW k \in DOMAIN c.rules, First(k), k # m PROVE FALSE
      OBVIOUS
    <2>1. k \in Nat /\ (k < m \/ m < k)
      BY <1>1, <1>4
    <2>2. CASE k < m
      BY <1>3, <1>4, <2>1, <2>2
    <2>3. CASE m < k
      <3>1. m \in 1..(k - 1)
        BY <1>1, <1>4, <2>1, <2>3
      <3> QED BY <1>5, <3>1
    <2> QED BY <2>1, <2>2, <2>3
  <1>8. asked = m
    BY <1>6, <1>7
  <1>9. Asks(c, path, Refused) =
          ToSet(c.rules[asked].age)
            \cup UNION {c.rules[asked].fields[f] : f \in DOMAIN c.rules[asked].fields \cap Refused}
    BY DEF Asks
  <1> HIDE DEF asked
  <1>10. DOMAIN c.rules[m].fields \cap Refused = {}
    BY <1>4 DEF Refuses, ToSet
  <1> QED BY <1>2, <1>8, <1>9, <1>10

LEMMA RecipientsAreNamed ==
  ASSUME DiskInv, NEW args \in Lines, Parse(args).file # None,
         Recipients(Parse(args)) # <<>>
  PROVE  ToSet(Recipients(Parse(args))) = Named(Parse(args))
  <1> DEFINE inv == Parse(args)
             d   == Governing(inv)
  <1>1. CASE inv.age # <<>>
    BY <1>1 DEF Recipients, Named
  <1>2. CASE inv.age = <<>>
    <2>1. /\ d # None /\ ~Refuses(config[d]) /\ RuleFor(config[d], inv.file) # None
          /\ Recipients(inv) = RuleFor(config[d], inv.file).age
      BY <1>2 DEF Recipients
    <2>2. ConfigOK(config[d])
      BY <2>1, GoverningIsOfTheDisk DEF DiskInv, TypeOK
    <2>3. ToSet(Recipients(inv)) = Asks(config[d], inv.file, Refused)
      BY <2>1, <2>2, RuleIsAsked
    <2> QED BY <1>2, <2>3 DEF Named
  <1> QED BY <1>1, <1>2

\* Where a sealing goes, its readers are the ones asked for.
LEMMA SealsForTheNamed ==
  ASSUME DiskInv, NEW args \in Lines,
         Parse(args).verb \in {"encrypt", "updatekeys"}, Result(Parse(args)).code = "ok",
         NEW f, f # None,
         f = IF Parse(args).verb = "updatekeys" THEN File(Parse(args))
             ELSE Target(Parse(args))
  PROVE  LET new == Result(Parse(args)).files[f] IN
         ToSet(new.age) \cup new.other = Named(Parse(args))
  <1> DEFINE inv == Parse(args)
  <1>1. inv.file # None /\ inv.file \in DOMAIN PathOf
    BY KeysAssumption DEF Result, Failed, Outcome
  <1>2. inv.output \in DOMAIN PathOf \cup {None}
    BY KeysAssumption
  <1>3. f \in DOMAIN files
    BY <1>1, <1>2 DEF Target, File, DiskInv
  <1>4. Result(inv) \notin {Failed, Unchanged}
    BY DEF Failed, Unchanged, Outcome
  <1>5. Result(inv).files[f] = Sealed(Recipients(inv), {}) /\ Recipients(inv) # <<>>
    <2>1. CASE inv.verb = "encrypt"
      <3>1. Result(inv) = Encrypted(inv)
        BY <1>4, <2>1, Kinds DEF Result
      <3>2. /\ Result(inv).files = Wrote(Target(inv), Sealed(Recipients(inv), {}))
            /\ Wraps(Recipients(inv))
        BY <1>4, <3>1 DEF Encrypted, Outcome
      <3>3. f = Target(inv)
        BY <2>1
      <3> QED BY <1>3, <3>2, <3>3, WroteTarget DEF Wraps
    <2>2. CASE inv.verb = "updatekeys"
      <3>1. Result(inv) = Updated(inv)
        BY <1>4, <2>2, Kinds DEF Result
      <3>2. /\ Result(inv).files = [files EXCEPT ![File(inv)] = Sealed(Recipients(inv), {})]
            /\ Wraps(Recipients(inv))
        BY <1>4, <3>1 DEF Updated, Outcome
      <3> QED BY <1>3, <2>2, <3>2 DEF Wraps
    <2> QED BY <2>1, <2>2
  <1>6. ToSet(Recipients(inv)) = Named(inv)
    BY <1>1, <1>5, RecipientsAreNamed
  <1> QED BY <1>5, <1>6 DEF Sealed

(***************************************************************************)
(* NobodyDropped: whatever the words of the command line and whichever     *)
(* config governs, a command that seals a file leaves as its readers those *)
(* the line names, or else those of the first rule that matches, and       *)
(* nobody else; that rule has none of the seven fields the parser refuses, *)
(* and no word of the line asked for an option that is not served, unless  *)
(* it was given as another option's value.                                 *)
(***************************************************************************)
THEOREM NobodyIsDropped == Spec => NobodyDropped
  <1> DEFINE Keeps ==
        Sealing =>
          /\ \A k \in DOMAIN ran'.args \ Values(ran'.args) :
               ran'.args[k].word \notin UnsupportedWithValue \cup UnsupportedFlags
          /\ LET f == IF Line.verb = "updatekeys" THEN File(Line) ELSE Target(Line) IN
               f # None => ToSet(files'[f].age) \cup files'[f].other = Named(Line)
  <1>1. ASSUME DiskInv, Next, Sealing
        PROVE  Keeps
    <2>1. Run
      <3>1. CASE Install
        <4>1. PICK m \in Manifests, f \in DOMAIN files :
                ran' = [args |-> <<m, f>>,
                        code |-> IF FromPaths(m) = {} THEN "no identity"
                                 ELSE IF Unwraps(files[f], FromPaths(m)) THEN "opens"
                                 ELSE "failed"]
          BY <3>1 DEF Install
        <4>2. ran'.code \in {"no identity", "opens", "failed"}
          BY <4>1
        <4> QED BY <1>1, <4>2 DEF Sealing
      <3>2. CASE WriteConfig \/ WriteKeys
        BY <1>1, <3>2 DEF WriteConfig, WriteKeys, Sealing
      <3> QED BY <1>1, <3>1, <3>2 DEF Next
    <2>2. PICK args \in Lines : /\ ran' = [args |-> args, code |-> Result(Parse(args)).code]
                                /\ files' = Result(Parse(args)).files
      BY <2>1, RunSteps
    <2>3. /\ Line = Parse(args) /\ ran'.args = args
          /\ Result(Parse(args)).code = "ok"
          /\ Parse(args).verb \in {"encrypt", "updatekeys"}
      BY <1>1, <2>2 DEF Line, Sealing
    <2>4. \A k \in DOMAIN args \ Values(args) : args[k].word \notin NotServed
      BY <2>3, NothingReadOver
    <2>5. ASSUME NEW f, f # None,
                 f = IF Parse(args).verb = "updatekeys" THEN File(Parse(args))
                     ELSE Target(Parse(args))
          PROVE  ToSet(files'[f].age) \cup files'[f].other = Named(Parse(args))
      BY <1>1, <2>2, <2>3, <2>5, SealsForTheNamed
    <2> QED BY <2>3, <2>4, <2>5 DEF NotServed
  <1>2. DiskInv /\ [Next]_vars => [Keeps]_vars
    BY <1>1
  <1>3. NobodyDropped <=> [][Keeps]_vars
    BY DEF NobodyDropped
  <1> HIDE DEF Keeps
  <1> QED BY <1>2, <1>3, DiskStaysSound, PTL DEF Spec
=============================================================================
