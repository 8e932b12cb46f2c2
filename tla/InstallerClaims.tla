--------------------------- MODULE InstallerClaims ---------------------------
(***************************************************************************)
(* Statements that comments of suminuri-install make about its runs and    *)
(* that the runs do not keep.  README.md discusses each counterexample.    *)
(***************************************************************************)
EXTENDS Installer

(***************************************************************************)
(* apply.rs: a failed run's half-written directory is kept as evidence and *)
(* "Pruning removes it on the next successful run".  So after a run that   *)
(* published and reaped, every generation on disk is a whole one.          *)
(***************************************************************************)
FailedGenerationPruned ==
    \A p \in Procs : pc[p] = "published" => \A g \in dirs : Complete(g)

(***************************************************************************)
(* template.rs: "`values` maps secret name -> plaintext".  So a template   *)
(* of a published generation holds, for each secret it references, that    *)
(* very secret's plaintext.                                                *)
(***************************************************************************)
TemplateHoldsReferencedSecret ==
    \A p \in Procs : pc[p] = "published" =>
      \A t \in TemplatesOf(man[p]) : \A r \in Decl(man[p], t).refs :
        LET g == gen[p] IN
        file[g][r] # None /\ file[g][t].data[r] = file[g][r].data

(***************************************************************************)
(* place.rs: "a run that fails between here and the swap leaves a link     *)
(* pointing at the old file rather than at nothing".                       *)
(***************************************************************************)
OutOfTreeLinksResolve ==
    \A p \in Procs : pc[p] = "failed" =>
      \A n \in Names : link[n] # None => Live # None /\ file[Live][n] # None

(***************************************************************************)
(* apply.rs, of a failed apply: "the previous generation is still live and *)
(* untouched".  So wherever a run fails, what /run/secrets names is still  *)
(* a whole generation.                                                     *)
(***************************************************************************)
FailureLeavesLiveWhole ==
    \A p \in Procs : pc[p] = "failed" /\ Live # None => Complete(Live)

(***************************************************************************)
(* real.rs, of ensure_secure_storage: "IDEMPOTENT", for a second store     *)
(* mounted over the first "would stack them - old generations still        *)
(* underneath, invisible, never pruned".  So there is never more than one. *)
(***************************************************************************)
StoresNeverStack == mounts <= 1
=============================================================================
