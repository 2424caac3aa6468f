--------------------------- MODULE EvidenceBundle ---------------------------
(***************************************************************************)
(* Assurance bundles (experimental/assurance/): what a bundle is built     *)
(* from (builder.py), the machine checks it is replayed with (checks.py),  *)
(* the migration of older schemas (migration.py) and the loading of a      *)
(* serialized bundle (replay.py).                                          *)
(*                                                                         *)
(* A bundle and its serialized dict are one kind of record; "absent"       *)
(* stands for a key a dict does not have, or has as null.  Optional        *)
(* evidence is a set of at most one record.  A digest is the tuple of what *)
(* it is computed from, since SHA-256 values are taken to be distinct; the *)
(* empty tuple is the empty string.  The two residuals move together, and  *)
(* the action Broken is one that is not finite.                            *)
(***************************************************************************)
EXTENDS Naturals, FiniteSets

CONSTANTS Actions, Broken

ASSUME ActionAssumption == Cardinality(Actions) > 1 /\ Broken \notin Actions

NoDigest == <<>>
Foreign == <<"foreign">>
WellFormed(digest) == digest # NoDigest

Deprecated == {"v0", "v0_legacy"}
Optional(set) == {{}} \cup {{x} : x \in set}
-----------------------------------------------------------------------------
(***************************************************************************)
(* builder.py: a bundle is built from what a backend returned.             *)
(***************************************************************************)

\* classify_verification_status: what is missing is never taken for feasible.
Classify(solve) ==
  IF solve.action = Broken \/ solve.residual \in {"none", "nan"} THEN "unverified"
  ELSE IF solve.canonical = "solved" /\ solve.residual = "small" THEN "feasible"
  ELSE "infeasible"

ForwardDigest(problem, act, residual, canonical, status) ==
  <<"forward", problem, act, residual, canonical, status>>

\* SensitivityEvidence.is_live_validated: that the active set was stable is
\* recorded, and not asked for.
Live(s) == /\ s.synthetic = "no" /\ s.norm = "finite" /\ s.metric = "finite"
           /\ s.fd = "yes" /\ s.forward # NoDigest

\* ShadowEvidence.is_independent
Independent(h) == /\ h.copied = "no" /\ h.verified = "yes"
                  /\ h.backends = "two" /\ h.problem # NoDigest

\* sensitivity_qualifies_for_l3, shadow_qualifies_for_l2; of a bundle or of a
\* proof-carrying projection.
SensitivityQualifies(b) == \E s \in b.sens : Live(s) /\ s.forward = b.forward
ShadowQualifies(b) == \E h \in b.shadow : Independent(h) /\ h.problem = b.problem

\* infer_evidence_level; governed: replayed, attested hashes, two hosts, clean.
InferLevel(b, governed) ==
  IF b.status # "feasible" THEN 0
  ELSE IF governed /\ SensitivityQualifies(b) /\ ShadowQualifies(b) THEN 4
  ELSE IF SensitivityQualifies(b) THEN 3
  ELSE IF ShadowQualifies(b) THEN 2 ELSE 1

\* A live sensitivity with a metric counts as compared when nobody said so.
SensitivityOf(arg, forward) ==
  [metric |-> arg.metric, norm |-> arg.norm, stable |-> arg.stable,
   fd |-> IF arg.live /\ arg.fd = "absent" /\ arg.metric # "absent" THEN "yes" ELSE arg.fd,
   synthetic |-> IF arg.live /\ arg.synthetic # "yes" THEN "no" ELSE "yes",
   forward |-> forward]

ShadowOf(primary, solve, problem) ==
  LET copied == /\ solve.backend = primary.backend
                /\ solve.action = primary.action /\ solve.action # Broken
                /\ solve.canonical = primary.canonical
  IN  [backends |-> IF solve.backend = primary.backend THEN "one" ELSE "two",
       verified |-> IF Classify(solve) # "unverified" /\ ~copied THEN "yes" ELSE "no",
       copied |-> IF copied THEN "yes" ELSE "no", problem |-> problem]

\* What build_assurance_bundle derives of the solve alone: the status of its
\* verification and the digests.
SolvedPart(primary) ==
  LET status == Classify(primary)
      problem == <<"problem", "plain">>
  IN  [schema |-> "v1", action |-> primary.action, problem |-> problem,
       forward |-> ForwardDigest(problem, primary.action, primary.residual,
                                 primary.canonical, status),
       status |-> status, canonical |-> primary.canonical,
       prim |-> [residual |-> primary.residual, feasible |-> status = "feasible",
                 present |-> IF primary.residual = "none" THEN "no" ELSE "yes"],
       ver |-> [residual |-> IF primary.residual = "none" THEN "nan" ELSE primary.residual,
                feasible |-> status = "feasible"],
       sens |-> {}, shadow |-> {}, level |-> 0, manifest |-> "absent",
       promotion |-> FALSE, reasons |-> {}, source |-> "none"]

\* build_assurance_bundle; a bundle of the current schema never carries the
\* governed manifest it was built with, unless the caller's extras do.
BuildBundle(primary, sensArgs, shadows, governed, manifest) ==
  LET part == SolvedPart(primary)
      bundle == [part EXCEPT
        !.sens = {SensitivityOf(a, part.forward) : a \in sensArgs},
        !.shadow = {ShadowOf(primary, x, part.problem) : x \in shadows},
        !.manifest = manifest]
  IN  [bundle EXCEPT !.level = InferLevel(bundle, governed)]
-----------------------------------------------------------------------------
(***************************************************************************)
(* checks.py: the machine checks a bundle is replayed with.  The sealed    *)
(* digest of the action is checked only when the caller has it.            *)
(***************************************************************************)
ResidualsRecompute(b) ==
  IF b.prim.present = "no" THEN b.status = "unverified" /\ b.level = 0
  ELSE /\ b.prim.residual \notin {"none", "nan"}
       /\ b.ver.residual = b.prim.residual

StatusConsistent(b) == CASE b.status = "unverified" -> b.level = 0
                         [] b.status = "feasible"   -> b.prim.feasible /\ b.ver.feasible
                         [] b.status = "infeasible" -> ~b.prim.feasible

\* _governed_hashes_verify: without a manifest no L4, with one it must verify.
GovernedVerify(b) == IF b.manifest = "absent" THEN b.level # 4 ELSE b.manifest = "attested"

\* MUTANT of LevelConsistent: L1 is taken as it stands.
LevelConsistentAboveL1(b) ==
  /\ b.level > 1 => b.status = "feasible"
  /\ b.level \in {2, 4} => \E h \in b.shadow : Independent(h)
  /\ b.level = 2 => \A h \in b.shadow : h.problem = b.problem
  /\ b.level \in {3, 4} => \E s \in b.sens : Live(s)
  /\ b.level = 3 => \A s \in b.sens : s.forward = b.forward

LevelConsistent(b) ==
  /\ b.level > 0 => b.status = "feasible"
  /\ b.level \in {2, 4} => \E h \in b.shadow : Independent(h)
  /\ b.level = 2 => \A h \in b.shadow : h.problem = b.problem
  /\ b.level \in {3, 4} => \E s \in b.sens : Live(s)
  /\ b.level = 3 => \A s \in b.sens : s.forward = b.forward

SensitivityOk(b) ==
  /\ b.sens = {} => b.level \in 0..2
  /\ \A s \in b.sens : s.forward = b.forward /\ (b.level > 2 => Live(s))

ShadowOk(b) == /\ b.shadow = {} => b.level \in 0..1
               /\ \A h \in b.shadow : WellFormed(h.problem) /\ h.problem = b.problem

\* MUTANT of ShadowNotCopied: no copy is accepted, whatever the bundle claims.
ShadowNotCopiedEver(b) == \A h \in b.shadow : h.copied = "no" /\ Independent(h)

ShadowNotCopied(b) == \A h \in b.shadow : ~Independent(h) => b.level \in 0..1

\* run_machine_checks(bundle, sealed_corrected_action_digest = sealed)
MachineChecks(b, sealed) ==
  [digests    |-> WellFormed(b.problem) /\ WellFormed(b.forward),
   sealed     |-> sealed \subseteq {b.action},
   residuals  |-> ResidualsRecompute(b), status |-> StatusConsistent(b),
   sens       |-> SensitivityOk(b),      shadow |-> ShadowOk(b),
   notCopied  |-> ShadowNotCopied(b),    hashes |-> GovernedVerify(b),
   level      |-> LevelConsistent(b),    promotion |-> ~b.promotion]

AllPassed(checks) == \A name \in DOMAIN checks : checks[name]
-----------------------------------------------------------------------------
(***************************************************************************)
(* migration.py and replay.py: how a dict of any schema is loaded.         *)
(***************************************************************************)
MigrateLegacy(d) == [d EXCEPT !.schema = "v0"]

\* The residuals of the primal record, or those of the verification.
MigratedResidual(d) ==
  IF d.prim.residual # "none" THEN d.prim.residual ELSE d.ver.residual

MigratedStatus(d) == IF MigratedResidual(d) = "none" THEN "unverified"
                     ELSE IF d.prim.feasible THEN "feasible" ELSE "infeasible"

Compared(s) == s.fd = "yes" /\ s.synthetic = "no"

MigratedSens(d, forward) ==
  {[s EXCEPT !.synthetic = IF Compared(s) THEN "no" ELSE "yes",
             !.forward = forward] : s \in d.sens}

MigratedShadow(d, problem) ==
  {[h EXCEPT !.problem = problem,
             !.copied = IF @ # "absent" THEN @
                        ELSE IF h.backends = "one" THEN "yes" ELSE "no"] : h \in d.shadow}

\* A level above 2 without a compared sensitivity, or L4 without a manifest.
Unwarranted(d, sens) ==
  \/ d.level \in {3, 4} /\ ~\E s \in sens : Compared(s)
  \/ d.level = 4 /\ d.manifest = "absent"

\* The level such a claim falls to.
FallBack(d, sens) == IF \E s \in sens : Compared(s) THEN 3
                     ELSE IF d.shadow # {} THEN 2
                     ELSE IF MigratedStatus(d) = "feasible" THEN 1 ELSE 0

\* migrate_v0_to_v1
MigrateToV1(d) ==
  LET problem == <<"problem", "migrated">>
      forward == ForwardDigest(problem, d.action, MigratedResidual(d), d.canonical,
                               MigratedStatus(d))
      sens == MigratedSens(d, forward)
  IN  [schema |-> "v1", source |-> d.schema, promotion |-> FALSE,
       action |-> d.action, problem |-> problem, forward |-> forward,
       status |-> MigratedStatus(d), canonical |-> d.canonical,
       prim |-> [d.prim EXCEPT !.present = IF MigratedResidual(d) = "none" THEN "no" ELSE "yes"],
       ver |-> d.ver, sens |-> sens, shadow |-> MigratedShadow(d, problem),
       level |-> IF MigratedStatus(d) = "unverified" THEN 0
                 ELSE IF Unwarranted(d, sens) THEN FallBack(d, sens) ELSE d.level,
       manifest |-> d.manifest,
       reasons |-> {"pre_v1"}
         \cup (IF \E s \in sens : s.synthetic = "yes" THEN {"synthetic"} ELSE {})
         \cup (IF Unwarranted(d, sens) THEN {"downgraded"} ELSE {})]

\* MUTANT of Normalize: a bundle read for the archive keeps what it says.
NormalizeAsIs(d, archival) ==
  IF archival /\ d.schema \in Deprecated THEN [d EXCEPT !.schema = "v0"]
  ELSE IF d.schema = "v1" THEN d
  ELSE MigrateToV1(IF d.schema = "v0_legacy" THEN MigrateLegacy(d) ELSE d)

\* normalize_bundle_dict
Normalize(d, archival) ==
  IF archival /\ d.schema \in Deprecated
  THEN [MigrateLegacy(d) EXCEPT !.promotion = FALSE,
                                !.reasons = IF @ # {} THEN @ ELSE {"pre_v1"}]
  ELSE IF d.schema = "v1" THEN d
  ELSE MigrateToV1(IF d.schema = "v0_legacy" THEN MigrateLegacy(d) ELSE d)

Or(value, default) == IF value = "absent" THEN default ELSE value

\* bundle_from_dict: what a dict does not say is given a default.
Load(dict, archival) ==
  LET d == Normalize(dict, archival)
  IN  [d EXCEPT
        !.status = Or(@, IF d.schema = "v1" \/ ~d.ver.feasible THEN "unverified"
                         ELSE "feasible"),
        !.prim.present = Or(@, "yes"),
        !.sens = {[s EXCEPT !.synthetic = Or(@, "no")] : s \in @},
        !.shadow = {[h EXCEPT !.verified = Or(@, "yes"), !.copied = Or(@, "no")] : h \in @}]

\* replay_bundle: load the file and run the checks again.
Replay(dict) == MachineChecks(Load(dict, FALSE), {})
=============================================================================
