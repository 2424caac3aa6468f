--------------------------- MODULE EvidenceArchive ---------------------------
(***************************************************************************)
(* The life of one assurance bundle on disk: it is built and written       *)
(* (bundle_to_json), or was written under an older schema; it is loaded,   *)
(* for the archive or for use, and written again, any number of times; and *)
(* a field of it may go wrong in the ways checks.py has helpers for.       *)
(***************************************************************************)
EXTENDS EvidenceBundle

CONSTANTS Solves,      \* what a backend may return for the problem
          SensitivityArgs,
          OldDicts,    \* dicts of the schema v0
          MaxFaults

\* A dict and its primal record have these fields, and no others.
IsDict(d) ==
  /\ d = [schema |-> d.schema, action |-> d.action, problem |-> d.problem,
          forward |-> d.forward, status |-> d.status, canonical |-> d.canonical,
          prim |-> d.prim, ver |-> d.ver, sens |-> d.sens, shadow |-> d.shadow,
          level |-> d.level, manifest |-> d.manifest, promotion |-> d.promotion,
          reasons |-> d.reasons, source |-> d.source]
  /\ d.prim = [residual |-> d.prim.residual, feasible |-> d.prim.feasible,
               present |-> d.prim.present]

ASSUME OldDictsAssumption ==
  \A d \in OldDicts : IsDict(d) /\ d.schema = "v0" /\ d.level \in 0..4

VARIABLES file,      \* the dict on disk, if any
          bundle,    \* the bundle in memory, if any
          origin,    \* "built", or the schema of the file that was there
          claimed,   \* ghost: the level the first dict or bundle claimed
          faults     \* ghost: how many fields went wrong

archiveVars == <<file, bundle, origin, claimed, faults>>

\* platform_soak.py relabels a bundle to try the migration.
Relabel(b) == [b EXCEPT !.schema = "v0_legacy"]

Found(d) == file = {d} /\ origin = d.schema /\ claimed = d.level

ArchiveInit ==
  /\ bundle = {} /\ faults = 0
  /\ \/ file = {} /\ origin = "none" /\ claimed = 0
     \/ \E d \in OldDicts : Found(d)
     \/ \E r \in Solves, a \in Optional(SensitivityArgs), x \in Optional(Solves) :
          Found(Relabel(BuildBundle(r, a, x, FALSE, "absent")))

BuildNew(b) == /\ bundle' = {b} /\ origin' = "built" /\ claimed' = b.level
               /\ UNCHANGED <<file, faults>>

BuildAny == /\ origin = "none"
            /\ \E r \in Solves, a \in Optional(SensitivityArgs), x \in Optional(Solves),
                  governed \in BOOLEAN, m \in {"absent", "attested", "unattested"} :
                 BuildNew(BuildBundle(r, a, x, governed, m))

Save == /\ bundle # {} /\ file' = bundle
        /\ UNCHANGED <<bundle, origin, claimed, faults>>

LoadFile == /\ \E d \in file, archival \in BOOLEAN : bundle' = {Load(d, archival)}
            /\ UNCHANGED <<file, origin, claimed, faults>>

\* corrupt_bundle_action adds 1 to the action; not-a-number stays what it is.
Shifted(act) == IF act = Broken THEN Broken ELSE CHOOSE a \in Actions : a # act

\* corrupt_forward_digest_link, corrupt_shadow_problem_digest, strip_evidence,
\* and a level that was replaced.
Corruptions(b) ==
  {[b EXCEPT !.action = Shifted(@)], [b EXCEPT !.sens = {}], [b EXCEPT !.shadow = {}],
   [b EXCEPT !.sens = {[s EXCEPT !.forward = Foreign] : s \in @}],
   [b EXCEPT !.shadow = {[h EXCEPT !.problem = Foreign] : h \in @}]}
  \cup {[b EXCEPT !.level = l] : l \in 0..4}

Corrupt == /\ origin = "built" /\ faults < MaxFaults /\ faults' = faults + 1
           /\ \E b \in bundle : \E c \in Corruptions(b) \ {b} : bundle' = {c}
           /\ UNCHANGED <<file, origin, claimed>>
-----------------------------------------------------------------------------
\* The evidence for a level, as far as checks.py looks at it: residuals that
\* are there and alike with both flags saying feasible, an independent shadow
\* of the problem, a sensitivity of the forward solution that passes for live,
\* an attested manifest.
Warranted(b) ==
  /\ b.level > 0 => /\ b.status = "feasible" /\ b.prim.feasible /\ b.ver.feasible
                    /\ b.ver.residual = b.prim.residual
                    /\ b.ver.residual \notin {"none", "nan"}
  /\ b.level \in {2, 4} => ShadowQualifies(b)
  /\ b.level \in {3, 4} => SensitivityQualifies(b)
  /\ b.level = 4 => b.manifest = "attested"

\* A file that passes its replay claims no level without that evidence, whether
\* it was built, migrated, or went wrong in some field; and unless an older
\* version wrote it, its residual is small, though no check compares it with a
\* tolerance: only classify_verification_status ever did, and no load, save
\* or loss of a field may make up for what it refused.
LevelIsWarranted ==
  \A d \in file : AllPassed(Replay(d)) =>
    LET b == Load(d, FALSE)
    IN  Warranted(b) /\ (b.level > 0 /\ origin # "v0" => b.ver.residual = "small")

\* NOT TRUE of the code.  ASSURANCE_SEMANTICS.md asks for active-set stability
\* at L3, and so does levels.py; neither is_live_validated nor any machine
\* check reads active_set_stable.
LevelThreeIsStable ==
  \A b \in bundle :
    AllPassed(Replay(b)) /\ b.level = 3 => \A s \in b.sens : s.stable = "yes"

\* A bundle the builder made comes back from disk as it was, and passes its
\* replay: the checks do not reject what the builder vouches for.  Left out
\* are the bundles the checks do reject: residuals that are not a number, a
\* level above 2 without an independent shadow, a manifest that is not there
\* or not attested.
IntactReplays ==
  \A b \in bundle :
    /\ origin = "built" /\ faults = 0
    /\ b.prim.residual # "nan" /\ b.manifest # "unattested"
    /\ b.level > 2 => ShadowQualifies(b)
    /\ b.level = 4 => b.manifest = "attested"
    => AllPassed(Replay(b)) /\ Load(b, TRUE) = b /\ Load(b, FALSE) = b

\* Whatever way a deprecated file took through loads and saves, what comes of
\* it says why it is invalid, is not eligible for promotion, and claims no
\* more than the file did.
DeprecatedStaysInvalid ==
  origin \in Deprecated =>
    \A b \in bundle : b.reasons # {} /\ ~b.promotion /\ b.level <= claimed
=============================================================================
