--------------------------- MODULE AssuranceProofs ---------------------------
(***************************************************************************)
(* Proofs about the evidence a run leaves behind: the bundle on disk and   *)
(* the flagship demo (FlagshipDemo), for any solves, sensitivities and old *)
(* dicts; and the soak reports of several machines (PlatformSoak), for any *)
(* finite sets of machines and roles, any revisions and requests.          *)
(***************************************************************************)
EXTENDS FlagshipDemo, PlatformSoak, FiniteSetTheorems, TLAPS

\* A dict calls its residual feasible only when it is small.  The builder sees
\* to that; of the files of older versions it is not assumed.
FlagIsHonest(d) == d.prim.feasible => d.prim.residual = "small"

\* What the builder derives of a solve alone is a dict, with an honest flag.
LEMMA SolvedIsSound ==
  ASSUME NEW r, NEW part, part = SolvedPart(r)
  PROVE  /\ IsDict(part) /\ FlagIsHonest(part)
         /\ part.schema = "v1" /\ part.problem = <<"problem", "plain">>
         /\ part.forward = ForwardDigest(part.problem, r.action, r.residual,
                                         r.canonical, Classify(r))
         /\ part.status = Classify(r) /\ part.action = r.action
         /\ part.prim.residual = r.residual
         /\ part.prim.present = IF r.residual = "none" THEN "no" ELSE "yes"
         /\ part.prim.feasible <=> Classify(r) = "feasible"
         /\ part.ver.residual = IF r.residual = "none" THEN "nan" ELSE r.residual
         /\ part.ver.feasible <=> Classify(r) = "feasible"
         /\ ~part.promotion /\ part.reasons = {}
<1>1. PICK status : status = Classify(r)
  OBVIOUS
<1>2. PICK prim : prim = [residual |-> r.residual, feasible |-> status = "feasible",
                          present |-> IF r.residual = "none" THEN "no" ELSE "yes"]
  OBVIOUS
<1>3. PICK ver : ver = [residual |-> IF r.residual = "none" THEN "nan" ELSE r.residual,
                        feasible |-> status = "feasible"]
  OBVIOUS
<1>4. part = [schema |-> "v1", action |-> r.action, problem |-> <<"problem", "plain">>,
              forward |-> ForwardDigest(<<"problem", "plain">>, r.action, r.residual,
                                        r.canonical, status),
              status |-> status, canonical |-> r.canonical, prim |-> prim, ver |-> ver,
              sens |-> {}, shadow |-> {}, level |-> 0, manifest |-> "absent",
              promotion |-> FALSE, reasons |-> {}, source |-> "none"]
  BY <1>1, <1>2, <1>3 DEF SolvedPart
<1>5. status = "feasible" => r.residual = "small"
  BY <1>1 DEF Classify
<1>6. /\ part.schema = "v1" /\ part.action = r.action /\ part.status = status
      /\ part.problem = <<"problem", "plain">> /\ part.prim = prim /\ part.ver = ver
      /\ ~part.promotion /\ part.reasons = {}
      /\ part.forward = ForwardDigest(<<"problem", "plain">>, r.action, r.residual,
                                      r.canonical, status)
  BY <1>4
<1>7. /\ prim.residual = r.residual /\ (prim.feasible <=> status = "feasible")
      /\ prim.present = IF r.residual = "none" THEN "no" ELSE "yes"
      /\ ver.residual = IF r.residual = "none" THEN "nan" ELSE r.residual
      /\ ver.feasible <=> status = "feasible"
  BY <1>2, <1>3
<1>8. IsDict(part)
  BY <1>2, <1>4 DEF IsDict
<1>9. FlagIsHonest(part)
  BY <1>5, <1>6, <1>7 DEF FlagIsHonest
<1> HIDE DEF ForwardDigest
<1> QED
  BY <1>1, <1>6, <1>7, <1>8, <1>9

\* What is built of it: the level is inferred from what the bundle carries.
LEMMA BuiltFields ==
  ASSUME NEW r, NEW a, NEW x, NEW governed, NEW m,
         NEW b, b = BuildBundle(r, a, x, governed, m)
  PROVE  /\ IsDict(b) /\ FlagIsHonest(b)
         /\ b.schema = "v1" /\ b.problem = <<"problem", "plain">>
         /\ b.forward = ForwardDigest(b.problem, r.action, r.residual,
                                      r.canonical, Classify(r))
         /\ b.status = Classify(r) /\ b.action = r.action
         /\ b.prim.residual = r.residual
         /\ b.prim.present = IF r.residual = "none" THEN "no" ELSE "yes"
         /\ b.prim.feasible <=> Classify(r) = "feasible"
         /\ b.ver.residual = IF r.residual = "none" THEN "nan" ELSE r.residual
         /\ b.ver.feasible <=> Classify(r) = "feasible"
         /\ ~b.promotion /\ b.reasons = {} /\ b.manifest = m
         /\ b.sens = {SensitivityOf(s, b.forward) : s \in a}
         /\ b.shadow = {ShadowOf(r, h, b.problem) : h \in x}
         /\ b.level = InferLevel(b, governed)
<1> HIDE DEF ForwardDigest
<1>1. PICK part : part = SolvedPart(r)
  OBVIOUS
<1>2. PICK sens : sens = {SensitivityOf(s, part.forward) : s \in a}
  OBVIOUS
<1>3. PICK shadow : shadow = {ShadowOf(r, h, part.problem) : h \in x}
  OBVIOUS
<1>4. PICK bundle0 : bundle0 = [part EXCEPT !.sens = sens, !.shadow = shadow, !.manifest = m]
  OBVIOUS
<1>5. b = [bundle0 EXCEPT !.level = InferLevel(bundle0, governed)]
  BY <1>1, <1>2, <1>3, <1>4 DEF BuildBundle
<1>6. IsDict(part)
  BY <1>1, SolvedIsSound
<1>7. /\ IsDict(b) /\ b.schema = part.schema /\ b.action = part.action
      /\ b.problem = part.problem /\ b.forward = part.forward /\ b.status = part.status
      /\ b.prim = part.prim /\ b.ver = part.ver /\ b.promotion = part.promotion
      /\ b.reasons = part.reasons /\ b.sens = sens /\ b.shadow = shadow /\ b.manifest = m
  BY <1>4, <1>5, <1>6 DEF IsDict
<1>8. /\ bundle0.status = b.status /\ bundle0.forward = b.forward
      /\ bundle0.problem = b.problem /\ bundle0.sens = b.sens /\ bundle0.shadow = b.shadow
  BY <1>4, <1>5, <1>6 DEF IsDict
<1>9. b.level = InferLevel(bundle0, governed)
  BY <1>4, <1>5, <1>6 DEF IsDict
<1>10. InferLevel(bundle0, governed) = InferLevel(b, governed)
  BY <1>8 DEF InferLevel, SensitivityQualifies, ShadowQualifies
<1> QED
  BY <1>1, <1>2, <1>3, <1>7, <1>9, <1>10, SolvedIsSound DEF FlagIsHonest

\* A migration keeps what a dict says of its residual, gives a reason why it is
\* invalid and makes it ineligible, and claims no more than the dict did.
LEMMA MigratedFields ==
  ASSUME NEW d, IsDict(d), NEW e, e = MigrateToV1(d)
  PROVE  /\ IsDict(e) /\ e.schema = "v1"
         /\ e.prim.residual = d.prim.residual /\ e.prim.feasible = d.prim.feasible
         /\ e.reasons # {} /\ ~e.promotion
         /\ d.level \in 0..4 => e.level \in 0..d.level
<1>1. PICK forward :
        forward = ForwardDigest(<<"problem", "migrated">>, d.action, MigratedResidual(d),
                                d.canonical, MigratedStatus(d))
  OBVIOUS
<1>2. PICK sens : sens = MigratedSens(d, forward)
  OBVIOUS
<1>3. PICK prim :
        prim = [d.prim EXCEPT !.present = IF MigratedResidual(d) = "none" THEN "no" ELSE "yes"]
  OBVIOUS
<1>4. PICK level : level = IF MigratedStatus(d) = "unverified" THEN 0
                           ELSE IF Unwarranted(d, sens) THEN FallBack(d, sens) ELSE d.level
  OBVIOUS
<1>5. PICK reasons :
        reasons = {"pre_v1"}
          \cup (IF \E s \in sens : s.synthetic = "yes" THEN {"synthetic"} ELSE {})
          \cup (IF Unwarranted(d, sens) THEN {"downgraded"} ELSE {})
  OBVIOUS
<1>6. e = [schema |-> "v1", source |-> d.schema, promotion |-> FALSE,
           action |-> d.action, problem |-> <<"problem", "migrated">>,
           forward |-> forward, status |-> MigratedStatus(d),
           canonical |-> d.canonical, prim |-> prim, ver |-> d.ver, sens |-> sens,
           shadow |-> MigratedShadow(d, <<"problem", "migrated">>), level |-> level,
           manifest |-> d.manifest, reasons |-> reasons]
  BY <1>1, <1>2, <1>3, <1>4, <1>5, Zenon DEF MigrateToV1
<1>7. /\ e.schema = "v1" /\ e.reasons = reasons /\ e.level = level
      /\ e.promotion = FALSE /\ e.prim = prim
  BY <1>6
<1>8. IsDict(e)
  BY <1>3, <1>6 DEF IsDict
<1>9. prim.residual = d.prim.residual /\ prim.feasible = d.prim.feasible
  BY <1>3 DEF IsDict
<1>10. d.level \in 0..4 => level \in 0..d.level
  BY <1>4 DEF Unwarranted, FallBack
<1>11. reasons # {}
  BY <1>5
<1> QED
  BY <1>7, <1>8, <1>9, <1>10, <1>11

\* What a dict of an older schema is turned into is invalid and claims no more;
\* a dict of the present schema is left as it is.
LEMMA NormalizedFields ==
  ASSUME NEW d, IsDict(d), NEW archival \in BOOLEAN, NEW n, n = Normalize(d, archival)
  PROVE  /\ IsDict(n)
         /\ n.prim.residual = d.prim.residual /\ n.prim.feasible = d.prim.feasible
         /\ d.level \in 0..4 => n.level \in 0..d.level
         /\ d.schema = "v1" => n = d
         /\ d.schema # "v1" => n.reasons # {} /\ ~n.promotion
<1>1. CASE archival /\ d.schema \in Deprecated
  <2>1. PICK l : l = [d EXCEPT !.schema = "v0"]
    OBVIOUS
  <2>2. n = [l EXCEPT !.promotion = FALSE,
                      !.reasons = IF l.reasons # {} THEN l.reasons ELSE {"pre_v1"}]
    BY <1>1, <2>1 DEF Normalize, MigrateLegacy
  <2>3. IsDict(l) /\ l.prim = d.prim /\ l.level = d.level
    BY <2>1 DEF IsDict
  <2>4. IsDict(n) /\ n.prim = d.prim /\ n.level = d.level
    BY <2>2, <2>3 DEF IsDict
  <2>5. n.reasons # {} /\ ~n.promotion
    BY <2>2, <2>3 DEF IsDict
  <2>6. d.level \in 0..4 => n.level \in 0..d.level
    BY <2>4
  <2>7. d.schema # "v1"
    BY <1>1 DEF Deprecated
  <2> QED
    BY <2>4, <2>5, <2>6, <2>7
<1>2. CASE ~(archival /\ d.schema \in Deprecated) /\ d.schema = "v1"
  BY <1>2 DEF Normalize
<1>3. CASE ~(archival /\ d.schema \in Deprecated) /\ d.schema # "v1"
  <2>1. PICK l : l = IF d.schema = "v0_legacy" THEN MigrateLegacy(d) ELSE d
    OBVIOUS
  <2>2. n = MigrateToV1(l)
    BY <1>3, <2>1 DEF Normalize
  <2>3. IsDict(l) /\ l.prim = d.prim /\ l.level = d.level
    BY <2>1 DEF IsDict, MigrateLegacy
  <2> QED
    BY <1>3, <2>2, <2>3, MigratedFields
<1> QED
  BY <1>1, <1>2, <1>3

\* Loading fills in what is missing, and changes none of these.
LEMMA LoadedFields ==
  ASSUME NEW d, IsDict(d), NEW archival \in BOOLEAN, NEW b, b = Load(d, archival)
  PROVE  LET n == Normalize(d, archival)
         IN  /\ IsDict(b) /\ b.schema = n.schema /\ b.level = n.level
             /\ b.reasons = n.reasons /\ b.promotion = n.promotion
             /\ b.prim.residual = n.prim.residual /\ b.prim.feasible = n.prim.feasible
             /\ n.sens = {} => b.sens = {}
<1>1. PICK n : n = Normalize(d, archival)
  OBVIOUS
<1>2. PICK status : status = Or(n.status, IF n.schema = "v1" \/ ~n.ver.feasible
                                          THEN "unverified" ELSE "feasible")
  OBVIOUS
<1>3. PICK sens : sens = {[s EXCEPT !.synthetic = Or(@, "no")] : s \in n.sens}
  OBVIOUS
<1>4. PICK shadow :
        shadow = {[h EXCEPT !.verified = Or(@, "yes"), !.copied = Or(@, "no")] : h \in n.shadow}
  OBVIOUS
<1>5. PICK b1 : b1 = [n EXCEPT !.status = status]
  OBVIOUS
<1>6. PICK b2 : b2 = [b1 EXCEPT !.prim = [b1.prim EXCEPT !.present = Or(@, "yes")]]
  OBVIOUS
<1>7. IsDict(n)
  BY <1>1, NormalizedFields
<1>8. /\ IsDict(b1) /\ b1.prim = n.prim /\ b1.sens = n.sens /\ b1.shadow = n.shadow
      /\ b1.schema = n.schema /\ b1.level = n.level
      /\ b1.reasons = n.reasons /\ b1.promotion = n.promotion
  BY <1>5, <1>7 DEF IsDict
<1>9. /\ IsDict(b2) /\ b2.sens = n.sens /\ b2.shadow = n.shadow
      /\ b2.schema = n.schema /\ b2.level = n.level
      /\ b2.reasons = n.reasons /\ b2.promotion = n.promotion
      /\ b2.prim.residual = n.prim.residual /\ b2.prim.feasible = n.prim.feasible
  BY <1>6, <1>8 DEF IsDict
<1>10. b = [b2 EXCEPT !.sens = sens, !.shadow = shadow]
  BY <1>1, <1>2, <1>3, <1>4, <1>5, <1>6, <1>8, <1>9 DEF Load
<1>11. n.sens = {} => sens = {}
  BY <1>3
<1>12. b.sens = sens
  BY <1>9, <1>10 DEF IsDict
<1>13. /\ IsDict(b) /\ b.schema = n.schema /\ b.level = n.level
       /\ b.reasons = n.reasons /\ b.promotion = n.promotion
       /\ b.prim.residual = n.prim.residual /\ b.prim.feasible = n.prim.feasible
  BY <1>9, <1>10 DEF IsDict
<1> QED
  BY <1>1, <1>11, <1>12, <1>13
-----------------------------------------------------------------------------
(***************************************************************************)
(* The life of the bundle, of a demo or apart from it.                     *)
(***************************************************************************)

\* What the program may do to the file and the bundle in one step.
Built(b) == \E r \in Solves, a \in Optional(SensitivityArgs), x \in Optional(Solves),
               governed \in BOOLEAN, m \in {"absent", "attested", "unattested"} :
              b = BuildBundle(r, a, x, governed, m)

ArchiveStep ==
  \/ UNCHANGED archiveVars
  \/ origin = "none" /\ \E b : Built(b) /\ BuildNew(b)
  \/ file' \subseteq bundle /\ UNCHANGED <<bundle, origin, claimed, faults>>
  \/ LoadFile
  \/ Corrupt
  \/ faults' = faults + 1 /\ UNCHANGED <<file, bundle, origin, claimed>>

\* Until something is built or found there is nothing, and the demo builds once.
OriginInv == /\ stage = "solve" => origin = "none"
             /\ origin = "none" => file = {} /\ bundle = {}

\* A step of the demo is one of the archive, the demo's own bundle being one that
\* was built.
LEMMA StepOfArchive == OriginInv /\ [Next]_vars => ArchiveStep
<1> SUFFICES ASSUME OriginInv, [Next]_vars PROVE ArchiveStep
  OBVIOUS
<1>1. CASE SolveStage
  <2>1. CASE UNCHANGED archiveVars
    BY <2>1 DEF ArchiveStep
  <2>2. ASSUME NEW r \in Solves, NEW x \in Solves, NEW args \in Optional(DemoArgs),
               BuildNew(BuildBundle(r, args, {x}, FALSE, "absent"))
        PROVE  ArchiveStep
    <3>1. args \in Optional(SensitivityArgs) /\ {x} \in Optional(Solves)
      BY <2>2 DEF Optional, DemoArgs
    <3>2. Built(BuildBundle(r, args, {x}, FALSE, "absent"))
      BY <3>1 DEF Built
    <3>3. origin = "none"
      BY <1>1 DEF SolveStage, OriginInv
    <3> QED
      BY <2>2, <3>2, <3>3 DEF ArchiveStep
  <2> QED
    BY <1>1, <2>1, <2>2 DEF SolveStage
<1>2. CASE ReplayStage
  BY <1>2 DEF ReplayStage, ArchiveStep, archiveVars
<1>3. CASE SignStage \/ RejectStage \/ GateStage \/ TrainingProbe
  BY <1>3 DEF SignStage, RejectStage, GateStage, TrainingProbe, ArchiveStep
<1>4. CASE Tamper
  BY <1>4 DEF Tamper, ArchiveStep
<1>5. CASE Archive
  <2>1. BuildAny => ArchiveStep
    <3> SUFFICES ASSUME BuildAny PROVE ArchiveStep
      OBVIOUS
    <3>1. PICK r \in Solves, a \in Optional(SensitivityArgs), x \in Optional(Solves),
               governed \in BOOLEAN, m \in {"absent", "attested", "unattested"} :
            BuildNew(BuildBundle(r, a, x, governed, m))
      BY DEF BuildAny
    <3>2. Built(BuildBundle(r, a, x, governed, m))
      BY DEF Built
    <3> QED
      BY <3>1, <3>2 DEF BuildAny, ArchiveStep
  <2>2. Save => ArchiveStep
    BY DEF Save, ArchiveStep
  <2> QED
    BY <1>5, <2>1, <2>2 DEF Archive, ArchiveStep
<1>6. CASE UNCHANGED vars
  BY <1>6 DEF vars, ArchiveStep
<1> QED
  BY <1>1, <1>2, <1>3, <1>4, <1>5, <1>6 DEF Next

\* What was there at first is a dict of an older schema.
LEMMA FoundIsOld ==
  ASSUME ArchiveInit
  PROVE  /\ bundle = {} /\ faults = 0
         /\ \/ file = {} /\ origin = "none" /\ claimed = 0
            \/ \E d : /\ Found(d) /\ IsDict(d) /\ (d.schema # "v0" => FlagIsHonest(d))
                      /\ d.schema \in Deprecated /\ d.level \in 0..4
<1>1. ASSUME NEW r \in Solves, NEW a \in Optional(SensitivityArgs), NEW x \in Optional(Solves),
             NEW d, d = Relabel(BuildBundle(r, a, x, FALSE, "absent"))
      PROVE  IsDict(d) /\ FlagIsHonest(d) /\ d.schema = "v0_legacy" /\ d.level \in 0..4
  <2>1. PICK governed, b : /\ b = BuildBundle(r, a, x, governed, "absent")
                           /\ d = Relabel(b)
    BY <1>1, Zenon
  <2>2. IsDict(b) /\ FlagIsHonest(b) /\ b.level = InferLevel(b, governed)
    BY <2>1, BuiltFields
  <2>3. b.level \in 0..4
    BY <2>2 DEF InferLevel
  <2>4. IsDict(d) /\ d.prim = b.prim /\ d.schema = "v0_legacy" /\ d.level = b.level
    BY <2>1, <2>2 DEF IsDict, Relabel
  <2> QED
    BY <2>2, <2>3, <2>4 DEF FlagIsHonest
<1>2. \A d \in OldDicts : IsDict(d) /\ d.schema = "v0" /\ d.level \in 0..4
  BY OldDictsAssumption
<1>3. (\E d \in OldDicts : Found(d)) =>
        \E d : /\ Found(d) /\ IsDict(d) /\ (d.schema # "v0" => FlagIsHonest(d))
               /\ d.schema \in Deprecated /\ d.level \in 0..4
  BY <1>2 DEF Deprecated
<1>4. ASSUME NEW r \in Solves, NEW a \in Optional(SensitivityArgs), NEW x \in Optional(Solves),
             Found(Relabel(BuildBundle(r, a, x, FALSE, "absent")))
      PROVE  \E d : /\ Found(d) /\ IsDict(d) /\ (d.schema # "v0" => FlagIsHonest(d))
                    /\ d.schema \in Deprecated /\ d.level \in 0..4
  <2>1. PICK d : Found(d) /\ d = Relabel(BuildBundle(r, a, x, FALSE, "absent"))
    BY <1>4, Zenon
  <2>2. IsDict(d) /\ FlagIsHonest(d) /\ d.schema = "v0_legacy" /\ d.level \in 0..4
    BY <1>1, <2>1
  <2> QED
    BY <2>1, <2>2 DEF Deprecated
<1> QED
  BY <1>3, <1>4 DEF ArchiveInit

\* Nothing is on disk or loaded before something was built or found.
LEMMA OriginInvariant == Spec => []OriginInv
<1>1. Init => OriginInv
  <2> SUFFICES ASSUME Init PROVE OriginInv
    OBVIOUS
  <2>1. bundle = {} /\ (file = {} \/ origin \in Deprecated)
    BY FoundIsOld DEF Init, Found
  <2> QED
    BY <2>1 DEF Init, OriginInv, Deprecated
<1>2. OriginInv /\ [Next]_vars => OriginInv'
  <2> SUFFICES ASSUME OriginInv, [Next]_vars PROVE OriginInv'
    OBVIOUS
  <2>1. stage' = "solve" => stage = "solve" /\ UNCHANGED archiveVars
    BY DEF Next, vars, SolveStage, ReplayStage, SignStage, RejectStage, GateStage, Tamper,
      TrainingProbe, Archive, demoVars
  <2>2. (stage = "solve" => origin = "none")'
    BY <2>1 DEF OriginInv, archiveVars
  <2>3. (origin = "none" => file = {} /\ bundle = {})'
    BY StepOfArchive DEF OriginInv, ArchiveStep, archiveVars, BuildNew, LoadFile, Corrupt
  <2> QED
    BY <2>2, <2>3 DEF OriginInv
<1> QED
  BY <1>1, <1>2, PTL DEF Spec
-----------------------------------------------------------------------------
\* Every dict there is has the shape of one, and, unless it comes of a file of
\* the schema v0, an honest flag, which is what no check looks behind.
DictsInv == \A d \in file \cup bundle : IsDict(d) /\ (origin # "v0" => FlagIsHonest(d))

\* What goes wrong with a bundle leaves it a bundle whose flag is honest.
LEMMA CorruptionsKeepFlag ==
  ASSUME NEW b, IsDict(b), NEW c \in Corruptions(b)
  PROVE  IsDict(c) /\ (FlagIsHonest(b) => FlagIsHonest(c))
<1>1. IsDict(c) /\ c.prim = b.prim
  BY DEF Corruptions, IsDict
<1> QED
  BY <1>1 DEF FlagIsHonest

\* A load makes a bundle of a file, and its flag is the file's (bundle_from_dict).
LEMMA LoadedIsSound ==
  ASSUME NEW d, IsDict(d), NEW archival \in BOOLEAN
  PROVE  /\ IsDict(Load(d, archival))
         /\ FlagIsHonest(d) => FlagIsHonest(Load(d, archival))
<1>1. PICK b : b = Load(d, archival)
  OBVIOUS
<1> QED
  BY <1>1, LoadedFields, NormalizedFields DEF FlagIsHonest

\* What is on disk and what is loaded are dicts, whose flags are honest unless
\* an older version wrote them.
LEMMA DictsInvariant == Spec => []DictsInv
<1>1. Init => DictsInv
  BY FoundIsOld DEF Init, Found, DictsInv
<1>2. DictsInv /\ OriginInv /\ [Next]_vars => DictsInv'
  <2> SUFFICES ASSUME DictsInv, OriginInv, ArchiveStep PROVE DictsInv'
    BY StepOfArchive
  <2>1. ASSUME NEW b, Built(b), BuildNew(b), origin = "none" PROVE DictsInv'
    <3>1. IsDict(b) /\ FlagIsHonest(b)
      BY <2>1, BuiltFields DEF Built
    <3> QED
      BY <2>1, <3>1 DEF BuildNew, DictsInv, OriginInv
  <2>2. CASE LoadFile
    <3>1. PICK d \in file, archival \in BOOLEAN : bundle' = {Load(d, archival)}
      BY <2>2 DEF LoadFile
    <3>2. /\ IsDict(Load(d, archival))
          /\ origin # "v0" => FlagIsHonest(Load(d, archival))
      BY <3>1, LoadedIsSound DEF DictsInv
    <3> QED
      BY <2>2, <3>1, <3>2 DEF LoadFile, DictsInv
  <2>3. CASE Corrupt
    BY <2>3, CorruptionsKeepFlag DEF Corrupt, DictsInv
  <2> QED
    BY <2>1, <2>2, <2>3 DEF ArchiveStep, archiveVars, DictsInv
<1> QED
  BY <1>1, <1>2, OriginInvariant, PTL DEF Spec

\* The checks together leave no claim without its evidence.
LEMMA ChecksWarrant ==
  ASSUME NEW b, NEW sealed, AllPassed(MachineChecks(b, sealed))
  PROVE  Warranted(b)
<1>1. /\ ResidualsRecompute(b) /\ StatusConsistent(b) /\ SensitivityOk(b) /\ ShadowOk(b)
      /\ GovernedVerify(b) /\ LevelConsistent(b)
  BY DEF AllPassed, MachineChecks
<1>2. ASSUME b.level > 0
      PROVE  /\ b.status = "feasible" /\ b.prim.feasible /\ b.ver.feasible
             /\ b.ver.residual = b.prim.residual
             /\ b.ver.residual \notin {"none", "nan"}
  <2>1. b.status = "feasible"
    BY <1>1, <1>2 DEF LevelConsistent
  <2>2. b.prim.feasible /\ b.ver.feasible
    BY <1>1, <2>1 DEF StatusConsistent
  <2>3. b.ver.residual = b.prim.residual /\ b.prim.residual \notin {"none", "nan"}
    BY <1>1, <2>1 DEF ResidualsRecompute
  <2> QED
    BY <2>1, <2>2, <2>3
<1>3. b.level \in {2, 4} => ShadowQualifies(b)
  BY <1>1 DEF LevelConsistent, ShadowOk, ShadowQualifies
<1>4. b.level \in {3, 4} => SensitivityQualifies(b)
  BY <1>1 DEF LevelConsistent, SensitivityOk, SensitivityQualifies
<1>5. b.level = 4 => b.manifest = "attested"
  BY <1>1 DEF GovernedVerify
<1> QED
  BY <1>2, <1>3, <1>4, <1>5 DEF Warranted

\* A file that passes its replay claims no level without the evidence checks.py
\* looks at, and unless an older version wrote it, its residual is small.
THEOREM LevelsAreWarranted == Spec => []LevelIsWarranted
<1>1. DictsInv => LevelIsWarranted
  <2> SUFFICES ASSUME DictsInv, NEW d \in file, AllPassed(Replay(d)), NEW b,
                      b = Load(d, FALSE)
               PROVE  Warranted(b) /\ (b.level > 0 /\ origin # "v0" => b.ver.residual = "small")
    BY DEF LevelIsWarranted
  <2>1. Warranted(b)
    BY ChecksWarrant DEF Replay
  <2>2. IsDict(d) /\ (origin # "v0" => FlagIsHonest(d))
    BY DEF DictsInv
  <2>3. origin # "v0" => FlagIsHonest(b)
    BY <2>2, LoadedIsSound, Zenon
  <2> QED
    BY <2>1, <2>3 DEF Warranted, FlagIsHonest
<1> QED
  BY <1>1, DictsInvariant, PTL
-----------------------------------------------------------------------------
\* What came of a deprecated file: of the bundle in memory the property, and of
\* the dict on disk that it is still of an old schema, or says so as well.
DeprecatedInv ==
  origin \in Deprecated =>
    /\ claimed \in 0..4
    /\ \A d \in file : d.level \in 0..claimed /\ (d.schema # "v1" \/ (d.reasons # {} /\ ~d.promotion))
    /\ \A b \in bundle : b.level \in 0..claimed /\ b.reasons # {} /\ ~b.promotion

\* Whatever way a deprecated file takes, what comes of it stays invalid.
THEOREM DeprecatedRemains == Spec => []DeprecatedStaysInvalid
<1>1. Init => DeprecatedInv
  <2> SUFFICES ASSUME Init PROVE DeprecatedInv
    OBVIOUS
  <2>1. CASE file = {} /\ origin = "none"
    BY <2>1 DEF DeprecatedInv, Deprecated
  <2>2. ASSUME NEW d, Found(d), d.schema \in Deprecated, d.level \in 0..4 PROVE DeprecatedInv
    <3>1. claimed \in 0..4 /\ d.level \in 0..claimed
      BY <2>2 DEF Found
    <3>2. d.schema # "v1"
      BY <2>2 DEF Deprecated
    <3>3. file = {d} /\ bundle = {}
      BY <2>2 DEF Init, ArchiveInit, Found
    <3>4. \A e \in file : e.level \in 0..claimed /\ e.schema # "v1"
      BY <3>1, <3>2, <3>3, Zenon
    <3> QED
      BY <3>1, <3>3, <3>4, Zenon DEF DeprecatedInv
  <2> QED
    BY <2>1, <2>2, FoundIsOld DEF Init
<1>2. DeprecatedInv /\ DictsInv /\ OriginInv /\ [Next]_vars => DeprecatedInv'
  <2> SUFFICES ASSUME DeprecatedInv, DictsInv, ArchiveStep, origin' \in Deprecated
               PROVE  DeprecatedInv'
    BY StepOfArchive DEF DeprecatedInv
  <2>1. ASSUME NEW b, BuildNew(b) PROVE FALSE
    BY <2>1 DEF BuildNew, Deprecated
  <2>2. origin' = origin /\ claimed' = claimed
    BY <2>1 DEF ArchiveStep, archiveVars, LoadFile, Corrupt
  <2>3. CASE LoadFile
    <3>1. PICK d \in file, archival \in BOOLEAN : bundle' = {Load(d, archival)}
      BY <2>3 DEF LoadFile
    <3>2. PICK b : b = Load(d, archival)
      OBVIOUS
    <3>3. PICK n : n = Normalize(d, archival)
      OBVIOUS
    <3>4. /\ IsDict(d) /\ claimed \in 0..4 /\ d.level \in 0..claimed
          /\ d.schema # "v1" \/ (d.reasons # {} /\ ~d.promotion)
      BY <2>2 DEF DeprecatedInv, DictsInv
    <3>5. b.level = n.level /\ b.reasons = n.reasons /\ b.promotion = n.promotion
      BY <3>2, <3>3, <3>4, LoadedFields
    <3>6. /\ d.level \in 0..4 => n.level \in 0..d.level
          /\ d.schema = "v1" => n = d
          /\ d.schema # "v1" => n.reasons # {} /\ ~n.promotion
      BY <3>3, <3>4, NormalizedFields
    <3>7. n.level \in 0..claimed
      BY <3>4, <3>6
    <3>8. n.reasons # {} /\ ~n.promotion
      BY <3>4, <3>6
    <3> QED
      BY <2>2, <2>3, <3>1, <3>2, <3>5, <3>7, <3>8 DEF LoadFile, DeprecatedInv
  <2>4. CASE Corrupt
    BY <2>2, <2>4 DEF Corrupt, Deprecated
  <2> QED
    BY <2>1, <2>2, <2>3, <2>4 DEF ArchiveStep, archiveVars, DeprecatedInv
<1>3. DeprecatedInv => DeprecatedStaysInvalid
  BY DEF DeprecatedInv, DeprecatedStaysInvalid
<1> QED
  BY <1>1, <1>2, <1>3, DictsInvariant, OriginInvariant, PTL DEF Spec
-----------------------------------------------------------------------------
\* What the builder made is read back as it is: nothing in it is missing.
LEMMA BuiltLoads ==
  ASSUME NEW b, Built(b), NEW archival \in BOOLEAN
  PROVE  Load(b, archival) = b
<1>1. PICK r, a, x, governed, m : b = BuildBundle(r, a, x, governed, m)
  BY DEF Built
<1>2. /\ IsDict(b) /\ b.schema = "v1" /\ b.status = Classify(r)
      /\ b.prim.present = IF r.residual = "none" THEN "no" ELSE "yes"
      /\ b.sens = {SensitivityOf(s, b.forward) : s \in a}
      /\ b.shadow = {ShadowOf(r, h, b.problem) : h \in x}
  BY <1>1, BuiltFields
<1>3. Normalize(b, archival) = b
  BY <1>2 DEF Normalize, Deprecated
<1>4. \A v : Or(b.status, v) = b.status
  BY <1>2 DEF Or, Classify
<1>5. \A v : Or(b.prim.present, v) = b.prim.present
  BY <1>2 DEF Or
<1>6. {[s EXCEPT !.synthetic = Or(@, "no")] : s \in b.sens} = b.sens
  <2>1. ASSUME NEW s \in b.sens PROVE [s EXCEPT !.synthetic = Or(s.synthetic, "no")] = s
    <3>1. PICK t : s = SensitivityOf(t, b.forward)
      BY <1>2
    <3>2. PICK fd, syn : /\ s = [metric |-> t.metric, norm |-> t.norm, stable |-> t.stable, fd |-> fd,
                                 synthetic |-> syn, forward |-> b.forward]
                         /\ syn \in {"no", "yes"}
      BY <3>1 DEF SensitivityOf
    <3> QED
      BY <3>2 DEF Or
  <2> QED
    BY <2>1
<1>7. {[h EXCEPT !.verified = Or(@, "yes"), !.copied = Or(@, "no")] : h \in b.shadow} = b.shadow
  <2>1. ASSUME NEW h \in b.shadow
        PROVE  [h EXCEPT !.verified = Or(h.verified, "yes"), !.copied = Or(h.copied, "no")] = h
    <3>1. PICK t : h = ShadowOf(r, t, b.problem)
      BY <1>2
    <3>2. PICK k, v, c : /\ h = [backends |-> k, verified |-> v, copied |-> c,
                                 problem |-> b.problem]
                         /\ v \in {"no", "yes"} /\ c \in {"no", "yes"}
      BY <3>1 DEF ShadowOf
    <3> QED
      BY <3>2 DEF Or
  <2> QED
    BY <2>1
<1>8. PICK c : /\ c = Load(b, archival)
               /\ c = [b EXCEPT !.status = b.status, !.prim.present = b.prim.present,
                                !.sens = b.sens, !.shadow = b.shadow]
  BY <1>3, <1>4, <1>5, <1>6, <1>7 DEF Load
<1>9. /\ [b EXCEPT !.status = b.status] = b /\ [b EXCEPT !.sens = b.sens] = b
      /\ [b EXCEPT !.shadow = b.shadow] = b
  BY <1>2 DEF IsDict
<1>10. [b EXCEPT !.prim.present = b.prim.present] = b
  <2>1. [b.prim EXCEPT !.present = b.prim.present] = b.prim
    BY <1>2 DEF IsDict
  <2>2. [b EXCEPT !.prim = b.prim] = b
    BY <1>2 DEF IsDict
  <2> QED
    BY <2>1, <2>2
<1> QED
  BY <1>8, <1>9, <1>10

\* It passes its replay, but for what the checks do reject.
LEMMA BuiltPasses ==
  ASSUME NEW b, Built(b), b.prim.residual # "nan", b.manifest # "unattested",
         b.level > 2 => ShadowQualifies(b), b.level = 4 => b.manifest = "attested"
  PROVE  AllPassed(MachineChecks(b, {}))
<1>1. PICK r \in Solves, a \in Optional(SensitivityArgs), x \in Optional(Solves),
           governed \in BOOLEAN, m \in {"absent", "attested", "unattested"} :
             b = BuildBundle(r, a, x, governed, m)
  BY DEF Built
<1>2. /\ b.problem = <<"problem", "plain">>
      /\ b.forward = ForwardDigest(b.problem, r.action, r.residual, r.canonical, Classify(r))
      /\ b.status = Classify(r) /\ b.prim.residual = r.residual
      /\ b.prim.present = IF r.residual = "none" THEN "no" ELSE "yes"
      /\ b.prim.feasible <=> Classify(r) = "feasible"
      /\ b.ver.residual = IF r.residual = "none" THEN "nan" ELSE r.residual
      /\ b.ver.feasible <=> Classify(r) = "feasible"
      /\ ~b.promotion /\ b.manifest = m
      /\ b.sens = {SensitivityOf(s, b.forward) : s \in a}
      /\ b.shadow = {ShadowOf(r, h, b.problem) : h \in x}
      /\ b.level = InferLevel(b, governed)
  BY <1>1, BuiltFields
<1>3. /\ b.status \in {"unverified", "feasible", "infeasible"}
      /\ r.residual = "none" => b.status = "unverified"
  BY <1>2 DEF Classify
<1>4. /\ b.level \in 0..4
      /\ b.level > 0 => b.status = "feasible"
      /\ b.level \in {3, 4} => SensitivityQualifies(b)
      /\ b.level > 1 => ShadowQualifies(b)
  <2>1. /\ b.level \in 0..4
        /\ b.level > 0 => b.status = "feasible"
        /\ b.level \in {3, 4} => SensitivityQualifies(b)
        /\ b.level = 2 => ShadowQualifies(b)
    BY <1>2 DEF InferLevel
  <2> QED
    BY <2>1
<1>5. /\ \A s \in b.sens : s.forward = b.forward
      /\ \A s, t \in b.sens : s = t
  <2>1. \A s \in a : SensitivityOf(s, b.forward).forward = b.forward
    BY DEF SensitivityOf
  <2>2. \A s, t \in a : s = t
    BY DEF Optional
  <2> QED
    BY <1>2, <2>1, <2>2
<1>6. /\ \A h \in b.shadow : h.problem = b.problem
      /\ \A h, k \in b.shadow : h = k
  <2>1. \A h \in x : ShadowOf(r, h, b.problem).problem = b.problem
    BY DEF ShadowOf
  <2>2. \A h, k \in x : h = k
    BY DEF Optional
  <2> QED
    BY <1>2, <2>1, <2>2
<1>7. WellFormed(b.problem) /\ WellFormed(b.forward)
  BY <1>2 DEF WellFormed, NoDigest, ForwardDigest
<1>8. ResidualsRecompute(b)
  BY <1>2, <1>3, <1>4 DEF ResidualsRecompute
<1>9. StatusConsistent(b)
  <2>1. CASE b.status = "unverified"
    BY <1>4, <2>1 DEF StatusConsistent
  <2>2. CASE b.status = "feasible"
    <3>1. b.prim.feasible /\ b.ver.feasible
      BY <1>2, <2>2, Zenon
    <3> QED
      BY <2>2, <3>1 DEF StatusConsistent
  <2>3. CASE b.status = "infeasible"
    <3>1. ~(Classify(r) = "feasible")
      BY <1>2, <2>3
    <3>2. ~b.prim.feasible
      BY <1>2, <3>1, Zenon
    <3> QED
      BY <2>3, <3>2 DEF StatusConsistent
  <2> QED
    BY <1>3, <2>1, <2>2, <2>3
<1>10. SensitivityOk(b)
  BY <1>4, <1>5 DEF SensitivityOk, SensitivityQualifies
<1>11. ShadowOk(b)
  BY <1>4, <1>6, <1>7 DEF ShadowOk, ShadowQualifies
<1>12. ShadowNotCopied(b)
  BY <1>4, <1>6 DEF ShadowNotCopied, ShadowQualifies
<1>13. GovernedVerify(b)
  BY <1>1, <1>2 DEF GovernedVerify
<1>14. LevelConsistent(b)
  <2>1. b.level \in {2, 4} => \E h \in b.shadow : Independent(h)
    BY <1>4 DEF ShadowQualifies
  <2>2. b.level \in {3, 4} => \E s \in b.sens : Live(s)
    BY <1>4 DEF SensitivityQualifies
  <2> QED
    BY <1>4, <1>5, <1>6, <2>1, <2>2 DEF LevelConsistent
<1>15. {} \subseteq {b.action} /\ ~b.promotion
  BY <1>2
<1>16. DOMAIN MachineChecks(b, {}) =
         {"digests", "sealed", "residuals", "status", "sens", "shadow", "notCopied",
          "hashes", "level", "promotion"}
  BY DEF MachineChecks
<1>17. SUFFICES ASSUME NEW name \in DOMAIN MachineChecks(b, {})
                PROVE  MachineChecks(b, {})[name]
  BY DEF AllPassed
<1>18. PICK checks : checks = MachineChecks(b, {})
  OBVIOUS
<1>19. /\ checks.digests /\ checks.sealed /\ checks.residuals /\ checks.status
       /\ checks.sens /\ checks.shadow /\ checks.notCopied /\ checks.hashes
       /\ checks.level /\ checks.promotion
  BY <1>7, <1>8, <1>9, <1>10, <1>11, <1>12, <1>13, <1>14, <1>15, <1>18, Zenon DEF MachineChecks
<1> QED
  BY <1>16, <1>17, <1>18, <1>19

\* While nothing went wrong, what there is of a built bundle is what was built.
IntactInv ==
  /\ faults \in Nat
  /\ origin = "built" /\ faults = 0 => \A b \in file \cup bundle : Built(b)

\* What was built and never touched is as the builder made it
\* (build_assurance_bundle).
LEMMA IntactInvariant == Spec => []IntactInv
<1>1. Init => IntactInv
  BY FoundIsOld DEF Init, Found, IntactInv, Deprecated
<1>2. IntactInv /\ OriginInv /\ [Next]_vars => IntactInv'
  <2> SUFFICES ASSUME IntactInv, OriginInv, ArchiveStep PROVE IntactInv'
    BY StepOfArchive
  <2>1. faults' \in Nat /\ (faults' = 0 => faults = 0)
    BY DEF IntactInv, ArchiveStep, archiveVars, BuildNew, LoadFile, Corrupt
  <2>2. ASSUME NEW b, origin = "none", Built(b), BuildNew(b) PROVE IntactInv'
    BY <2>1, <2>2 DEF BuildNew, IntactInv, OriginInv
  <2>3. CASE LoadFile
    <3> SUFFICES ASSUME origin = "built", faults = 0 PROVE \A b \in bundle' : Built(b)
      BY <2>1, <2>3 DEF LoadFile, IntactInv
    <3>1. PICK d \in file, archival \in BOOLEAN : bundle' = {Load(d, archival)}
      BY <2>3 DEF LoadFile
    <3>2. Built(d)
      BY DEF IntactInv
    <3>3. Load(d, archival) = d
      BY <3>2, BuiltLoads
    <3> QED
      BY <3>1, <3>2, <3>3
  <2>4. CASE Corrupt
    BY <2>1, <2>4 DEF Corrupt, IntactInv
  <2> QED
    BY <2>1, <2>2, <2>3, <2>4 DEF ArchiveStep, archiveVars, IntactInv
<1> QED
  BY <1>1, <1>2, OriginInvariant, PTL DEF Spec

\* A bundle the builder made comes back from disk as it was, and passes.
THEOREM IntactBundlesReplay == Spec => []IntactReplays
<1>1. IntactInv => IntactReplays
  <2> SUFFICES ASSUME IntactInv, NEW b \in bundle, origin = "built", faults = 0,
                      b.prim.residual # "nan", b.manifest # "unattested",
                      b.level > 2 => ShadowQualifies(b),
                      b.level = 4 => b.manifest = "attested"
               PROVE  AllPassed(Replay(b)) /\ Load(b, TRUE) = b /\ Load(b, FALSE) = b
    BY DEF IntactReplays
  <2>1. Built(b)
    BY DEF IntactInv
  <2>2. Load(b, TRUE) = b /\ Load(b, FALSE) = b
    BY <2>1, BuiltLoads, Zenon
  <2> QED
    BY <2>1, <2>2, BuiltPasses DEF Replay
<1> QED
  BY <1>1, IntactInvariant, PTL
-----------------------------------------------------------------------------
(***************************************************************************)
(* The gate of the demo, and of training.                                  *)
(***************************************************************************)

\* A projection has these fields, and no others.
IsProjection(p) ==
  p = [action |-> p.action, residual |-> p.residual, canonical |-> p.canonical,
       status |-> p.status, problem |-> p.problem, forward |-> p.forward, sens |-> p.sens,
       shadow |-> p.shadow, replay |-> p.replay, attested |-> p.attested, level |-> p.level]

\* The forward digest is that of a verified solve, or a foreign one.
ForwardOf(p, r) ==
  p.forward = ForwardDigest(Carried, r.action, r.residual, r.canonical, Classify(r))

Digested(p) == p.forward = Foreign \/ \E r \in Solves : ForwardOf(p, r)

\* The demo runs, or its gate passed and nothing was replaced since.
Running == stage \in {"replay", "sign", "reject", "gate"}
Trusted == Running \/ ("demo" \in promoted /\ faults = 0)

\* The bundle and the projection record the same solve.
Twins(b, p) ==
  \E r \in Solves, x \in Solves, args \in Optional(DemoArgs) :
    /\ b.schema = "v1" /\ b.action = r.action /\ b.status = Classify(r)
    /\ b.problem # NoDigest /\ b.forward # NoDigest
    /\ b.sens = {SensitivityOf(s, b.forward) : s \in args}
    /\ b.shadow = {ShadowOf(r, x, b.problem)}
    /\ b.level = InferLevel(b, FALSE)
    /\ p.action = r.action /\ p.status = Classify(r) /\ ForwardOf(p, r)
    /\ p.sens = {SensitivityOf(s, p.forward) : s \in args}
    /\ p.shadow = {ShadowOf(r, x, Carried)}
    /\ p.level \in 0..3

GateInv ==
  /\ \A p, q \in projection : p = q
  /\ \A p \in projection : IsProjection(p) /\ Digested(p)
  /\ stage = "solve" => faults = 0 /\ bundle = {} /\ projection = {}
  /\ stage \in {"none", "solve"} \/ Running => promoted = {}
  /\ Running => faults = 0
  /\ "training" \in promoted =>
       stage = "probed" /\ \A p \in projection : LevelPredicates(p)
  /\ "demo" \in promoted /\ faults = 0 =>
       crossHost = "ok" /\ \A p \in projection : LevelPredicates(p)

DemoInv ==
  /\ Trusted =>
       /\ \A b, c \in bundle : b = c
       /\ \A b \in bundle, p \in projection : Twins(b, p)
  /\ Trusted /\ stage # "replay" =>
       \A b \in bundle, p \in projection :
         file = {b} /\ (crossHost = "ok" => AllPassed(Replay(b)))

\* What the stage of the projection makes of a solve.
LEMMA ProjectedFields ==
  ASSUME NEW r, NEW args, NEW x, NEW p, p = Project(r, args, x)
  PROVE  /\ IsProjection(p) /\ p.action = r.action /\ p.status = Classify(r)
         /\ p.problem = Carried /\ ForwardOf(p, r)
         /\ p.sens = {SensitivityOf(s, p.forward) : s \in args}
         /\ p.shadow = {ShadowOf(r, x, Carried)}
         /\ p.level \in 0..3
<1> HIDE DEF ForwardDigest, Carried
<1>1. PICK forward :
        forward = ForwardDigest(Carried, r.action, r.residual, r.canonical, Classify(r))
  OBVIOUS
<1>2. PICK v : v = VerifiedProjection(r)
  OBVIOUS
<1>3. v = [action |-> r.action, residual |-> r.residual, canonical |-> r.canonical,
           status |-> Classify(r), problem |-> Carried, forward |-> forward,
           sens |-> {}, shadow |-> {}, replay |-> "none", attested |-> FALSE, level |-> 0]
  BY <1>1, <1>2 DEF VerifiedProjection
<1>4. IsProjection(v)
  BY <1>3 DEF IsProjection
<1>5. PICK sens : sens = {SensitivityOf(s, forward) : s \in args}
  OBVIOUS
<1>6. PICK shadow : shadow = {ShadowOf(r, x, Carried)}
  OBVIOUS
<1>7. PICK w : w = [v EXCEPT !.sens = sens, !.shadow = shadow]
  OBVIOUS
<1>8. p = Assemble(w)
  BY <1>1, <1>2, <1>3, <1>5, <1>6, <1>7 DEF Project
<1>9. PICK level : level = InferLevel(w, FALSE)
  OBVIOUS
<1>10. level \in 0..3
  BY <1>9 DEF InferLevel
<1>11. p = [w EXCEPT !.level = level]
  BY <1>8, <1>9 DEF Assemble
<1>12. /\ IsProjection(p) /\ p.action = v.action /\ p.status = v.status
       /\ p.problem = v.problem /\ p.forward = v.forward
       /\ p.sens = sens /\ p.shadow = shadow /\ p.level = level
  BY <1>4, <1>7, <1>11 DEF IsProjection
<1> QED
  BY <1>1, <1>3, <1>5, <1>6, <1>10, <1>12 DEF ForwardOf

\* The later stages assemble it again, with the replay and the attestation.
Reassembled(p, q) ==
  \E replay, attested : q = Assemble([p EXCEPT !.replay = replay, !.attested = attested])

\* What they do to it leaves the record of the solve alone.
LEMMA AssembledFields ==
  ASSUME NEW p, IsProjection(p), NEW q, Reassembled(p, q)
  PROVE  /\ IsProjection(q) /\ q.action = p.action /\ q.status = p.status
         /\ q.problem = p.problem /\ q.forward = p.forward
         /\ q.sens = p.sens /\ q.shadow = p.shadow
         /\ q.level \in 0..3
<1>0. PICK replay, attested :
        q = Assemble([p EXCEPT !.replay = replay, !.attested = attested])
  BY DEF Reassembled
<1>1. PICK w : w = [p EXCEPT !.replay = replay, !.attested = attested]
  OBVIOUS
<1>2. PICK level : level = InferLevel(w, FALSE)
  OBVIOUS
<1>3. level \in 0..3
  BY <1>2 DEF InferLevel
<1>4. q = [w EXCEPT !.level = level]
  BY <1>0, <1>1, <1>2 DEF Assemble
<1> QED
  BY <1>1, <1>3, <1>4 DEF IsProjection

\* What the two other stages that touch it amount to.
LEMMA StageOfProjection ==
  ASSUME ReplayStage \/ SignStage, \A p \in projection : IsProjection(p)
  PROVE  \A q \in projection' : \E p \in projection : q = p \/ Reassembled(p, q)
<1>1. CASE ReplayStage
  <2>1. CASE projection = {}
    BY <1>1, <2>1 DEF ReplayStage
  <2>2. CASE projection # {}
    <3>1. PICK b \in bundle, p \in projection :
            projection' = {Assemble([p EXCEPT
              !.replay = IF AllPassed(Replay(b)) THEN "passed" ELSE "failed"])}
      BY <1>1, <2>2, Zenon DEF ReplayStage
    <3>2. PICK replay : replay = IF AllPassed(Replay(b)) THEN "passed" ELSE "failed"
      OBVIOUS
    <3>3. projection' = {Assemble([p EXCEPT !.replay = replay])}
      BY <3>1, <3>2, Zenon
    <3>4. [p EXCEPT !.replay = replay] = [p EXCEPT !.replay = replay, !.attested = p.attested]
      BY DEF IsProjection
    <3>5. PICK attested : Assemble([p EXCEPT !.replay = replay]) =
                            Assemble([p EXCEPT !.replay = replay, !.attested = attested])
      BY <3>4, Zenon
    <3> QED
      BY <3>3, <3>5 DEF Reassembled
  <2> QED
    BY <2>1, <2>2
<1>2. CASE SignStage
  <2> SUFFICES ASSUME NEW q \in projection'
               PROVE  \E p \in projection : Reassembled(p, q)
    OBVIOUS
  <2>1. PICK p \in projection : q = Assemble([p EXCEPT !.attested = TRUE])
    BY <1>2, Zenon DEF SignStage
  <2>2. PICK attested : q = Assemble([p EXCEPT !.attested = attested])
    BY <2>1, Zenon
  <2>3. [p EXCEPT !.attested = attested] = [p EXCEPT !.replay = p.replay, !.attested = attested]
    BY DEF IsProjection
  <2> QED
    BY <2>2, <2>3, Zenon DEF Reassembled
<1> QED
  BY <1>1, <1>2

\* Whatever field of a projection was replaced, its forward digest is the one
\* it had, or a foreign one.
LEMMA TamperedFields ==
  ASSUME NEW p, IsProjection(p), NEW q \in Tampered(p)
  PROVE  IsProjection(q) /\ q.forward \in {p.forward, Foreign}
BY DEF Tampered, IsProjection

\* A projection that passes the predicates records the solve its digest is of.
LEMMA PredicatesTell ==
  ASSUME NEW p, Digested(p), LevelPredicates(p)
  PROVE  /\ p.forward = Recomputed(p) /\ Classify(p) = "feasible"
         /\ InferLevel(p, FALSE) = 3 /\ ShadowQualifies(p)
<1>1. /\ p.forward = Recomputed(p) /\ p.status = "feasible"
      /\ ShadowQualifies(p) /\ SensitivityQualifies(p)
  BY DEF LevelPredicates, DigestsRecompute
<1>2. p.forward # Foreign
  BY <1>1 DEF Recomputed, ForwardDigest, Foreign
<1>3. PICK r \in Solves : ForwardOf(p, r)
  BY <1>2 DEF Digested
<1>4. /\ p.action = r.action /\ p.residual = r.residual /\ p.canonical = r.canonical
      /\ p.status = Classify(r)
  BY <1>1, <1>3 DEF ForwardOf, Recomputed, ForwardDigest
<1>5. Classify(p) = Classify(r)
  BY <1>4 DEF Classify
<1>6. InferLevel(p, FALSE) = 3
  BY <1>1 DEF InferLevel
<1> QED
  BY <1>1, <1>4, <1>5, <1>6

\* Of two records of one solve, the bundle claims what the projection does.
LEMMA TwinsAgree ==
  ASSUME NEW b, NEW p, Twins(b, p), LevelPredicates(p)
  PROVE  /\ b.schema = "v1" /\ b.level = 3 /\ p.level = 3
         /\ b.action = p.action /\ b.sens # {}
<1> HIDE DEF ForwardDigest
<1>1. PICK r \in Solves, x \in Solves, args \in Optional(DemoArgs) :
        /\ b.schema = "v1" /\ b.action = r.action /\ b.status = Classify(r)
        /\ b.problem # NoDigest /\ b.forward # NoDigest
        /\ b.sens = {SensitivityOf(s, b.forward) : s \in args}
        /\ b.level = InferLevel(b, FALSE)
        /\ p.action = r.action /\ p.status = Classify(r)
        /\ p.sens = {SensitivityOf(s, p.forward) : s \in args}
        /\ p.level \in 0..3
  BY DEF Twins
<1>2. p.level = 3 /\ p.status = "feasible" /\ SensitivityQualifies(p)
  BY <1>1 DEF LevelPredicates
<1>3. PICK t \in args : Live(SensitivityOf(t, p.forward))
  BY <1>1, <1>2 DEF SensitivityQualifies
<1>4. Live(SensitivityOf(t, b.forward)) /\ SensitivityOf(t, b.forward).forward = b.forward
  BY <1>1, <1>3 DEF Live, SensitivityOf
<1>5. SensitivityQualifies(b) /\ b.sens # {}
  BY <1>1, <1>4 DEF SensitivityQualifies
<1>6. InferLevel(b, FALSE) = 3
  BY <1>1, <1>2, <1>5 DEF InferLevel
<1> QED
  BY <1>1, <1>2, <1>5, <1>6

\* A bundle stripped of its sensitivity does not pass its replay at level 3.
LEMMA StrippedFails ==
  ASSUME NEW b, IsDict(b), b.schema = "v1", b.level = 3
  PROVE  ~AllPassed(Replay([b EXCEPT !.sens = {}]))
<1>1. PICK c : c = [b EXCEPT !.sens = {}]
  OBVIOUS
<1>2. IsDict(c) /\ c.schema = "v1" /\ c.level = 3 /\ c.sens = {}
  BY <1>1 DEF IsDict
<1>3. PICK archival \in BOOLEAN : ~archival
  BY Zenon
<1>4. PICK d : d = Load(c, archival)
  OBVIOUS
<1>5. Normalize(c, archival) = c
  BY <1>2, <1>3 DEF Normalize
<1>6. d.level = 3 /\ d.sens = {}
  BY <1>2, <1>4, <1>5, LoadedFields
<1>7. ~SensitivityOk(d)
  BY <1>6 DEF SensitivityOk
<1>8. ~AllPassed(MachineChecks(d, {}))
  BY <1>7 DEF AllPassed, MachineChecks
<1>9. d = Load(c, FALSE)
  BY <1>3, <1>4, Zenon
<1> QED
  BY <1>1, <1>8, <1>9, Zenon DEF Replay

\* What the stages of the demo leave behind for the ones after them.
LEMMA GateInvariant == Spec => []GateInv
<1>1. Init => GateInv
  BY DEF Init, ArchiveInit, GateInv, Running
<1>2. GateInv /\ IntactInv /\ [Next]_vars => GateInv'
  <2> SUFFICES ASSUME GateInv, IntactInv, [Next]_vars PROVE GateInv'
    OBVIOUS
  <2>1. CASE SolveStage
    <3>1. CASE UNCHANGED <<archiveVars, projection>>
      BY <2>1, <3>1 DEF SolveStage, GateInv, Running, archiveVars
    <3>2. ASSUME NEW r \in Solves, NEW x \in Solves, NEW args \in Optional(DemoArgs),
                 BuildNew(BuildBundle(r, args, {x}, FALSE, "absent")),
                 projection' = {Project(r, args, x)}
          PROVE  GateInv'
      <4>1. PICK p : p = Project(r, args, x)
        OBVIOUS
      <4>2. IsProjection(p) /\ ForwardOf(p, r)
        BY <4>1, ProjectedFields
      <4>3. projection' = {p} /\ faults' = faults
        BY <3>2, <4>1, Zenon DEF BuildNew
      <4>4. faults = 0 /\ promoted = {} /\ promoted' = {} /\ stage' = "replay"
        BY <2>1 DEF SolveStage, GateInv
      <4> QED
        BY <4>2, <4>3, <4>4 DEF GateInv, Digested, Running
    <3> QED
      BY <2>1, <3>1, <3>2 DEF SolveStage
  <2>2. CASE ReplayStage \/ SignStage
    <3>1. /\ promoted' = {} /\ faults' = 0 /\ stage' \in {"sign", "reject"}
      BY <2>2 DEF ReplayStage, SignStage, archiveVars, GateInv, Running
    <3>2. \A p, q \in projection' : p = q
      BY <2>2, Zenon DEF ReplayStage, SignStage, GateInv
    <3>3. ASSUME NEW q \in projection'
          PROVE  IsProjection(q) /\ Digested(q)
      <4>1. PICK p \in projection : q = p \/ Reassembled(p, q)
        BY <2>2, StageOfProjection DEF GateInv
      <4>2. IsProjection(p)
        BY DEF GateInv
      <4>3. CASE q = p
        BY <4>3, <4>2 DEF GateInv
      <4>4. ASSUME Reassembled(p, q) PROVE IsProjection(q) /\ q.forward = p.forward
        BY <4>2, <4>4, AssembledFields
      <4> QED
        BY <4>1, <4>3, <4>4 DEF GateInv, Digested, ForwardOf
    <3> QED
      BY <3>1, <3>2, <3>3 DEF GateInv, Running
  <2>3. CASE RejectStage
    BY <2>3 DEF RejectStage, GateInv, Running, archiveVars
  <2>4. CASE GateStage
    <3>1. /\ projection' = projection /\ crossHost' = crossHost /\ stage' = "done"
          /\ promoted' \subseteq {"demo"}
      BY <2>4 DEF GateStage
    <3>2. "demo" \in promoted' => crossHost = "ok" /\ \E p \in projection : LevelPredicates(p)
      BY <2>4 DEF GateStage, GatePasses
    <3> QED
      BY <3>1, <3>2 DEF GateInv, Running
  <2>5. CASE Tamper
    <3>1. PICK p \in projection : \E q \in Tampered(p) : projection' = {q}
      BY <2>5 DEF Tamper
    <3>2. PICK q \in Tampered(p) : projection' = {q}
      BY <3>1
    <3>3. IsProjection(q) /\ Digested(q)
      BY <3>1, <3>2, TamperedFields DEF GateInv, Digested, ForwardOf
    <3>4. stage' = "done" /\ "training" \notin promoted' /\ faults' # 0
      BY <2>5 DEF Tamper, GateInv, IntactInv
    <3> QED
      BY <3>2, <3>3, <3>4 DEF GateInv, Running
  <2>6. CASE TrainingProbe
    <3>1. PICK flags \in SUBSET {"corrupted", "incomplete"}, hosts \in BOOLEAN :
            promoted' = (promoted \ {"training"})
                        \cup (IF GatePasses(projection, crossHost, flags, hosts)
                              THEN {"training"} ELSE {})
      BY <2>6 DEF TrainingProbe
    <3>2. "training" \in promoted' => \E p \in projection : LevelPredicates(p)
      BY <3>1 DEF GatePasses
    <3>3. "demo" \in promoted' => "demo" \in promoted
      BY <3>1
    <3> QED
      BY <2>6, <3>2, <3>3 DEF TrainingProbe, GateInv, Running, archiveVars
  <2>7. CASE Archive
    <3>1. UNCHANGED demoVars /\ (stage = "none" \/ (stage = "done" /\ promoted = {}))
      BY <2>7 DEF Archive
    <3> QED
      BY <3>1 DEF demoVars, GateInv, Running
  <2>8. CASE UNCHANGED vars
    BY <2>8 DEF vars, demoVars, archiveVars, GateInv, Running
  <2> QED
    BY <2>1, <2>2, <2>3, <2>4, <2>5, <2>6, <2>7, <2>8 DEF Next
<1> QED
  BY <1>1, <1>2, IntactInvariant, PTL DEF Spec

\* What is recorded when a gate passes (evaluate_flagship_promotion_gate).
LEMMA DemoInvariant == Spec => []DemoInv
<1>1. Init => DemoInv
  BY DEF Init, DemoInv, Trusted, Running
<1>2. DemoInv /\ GateInv /\ IntactInv /\ [Next]_vars => DemoInv'
  <2> SUFFICES ASSUME DemoInv, GateInv, IntactInv, [Next]_vars PROVE DemoInv'
    OBVIOUS
  <2>1. CASE SolveStage
    <3>1. CASE UNCHANGED <<archiveVars, projection>>
      BY <2>1, <3>1 DEF SolveStage, GateInv, DemoInv, archiveVars
    <3>2. ASSUME NEW r \in Solves, NEW x \in Solves, NEW args \in Optional(DemoArgs),
                 BuildNew(BuildBundle(r, args, {x}, FALSE, "absent")),
                 projection' = {Project(r, args, x)}
          PROVE  DemoInv'
      <4>1. PICK p : p = Project(r, args, x)
        OBVIOUS
      <4>2. PICK governed, b : ~governed /\ b = BuildBundle(r, args, {x}, governed, "absent")
                               /\ BuildNew(b)
        BY <3>2, Zenon
      <4>3. bundle' = {b} /\ projection' = {p} /\ stage' = "replay"
        BY <2>1, <3>2, <4>1, <4>2 DEF BuildNew, SolveStage
      <4>4. /\ b.schema = "v1" /\ b.action = r.action /\ b.status = Classify(r)
            /\ b.problem = <<"problem", "plain">>
            /\ b.forward = ForwardDigest(b.problem, r.action, r.residual, r.canonical, Classify(r))
            /\ b.sens = {SensitivityOf(s, b.forward) : s \in args}
            /\ b.shadow = {ShadowOf(r, h, b.problem) : h \in {x}}
            /\ b.level = InferLevel(b, governed)
        BY <4>2, BuiltFields
      <4>5. b.shadow = {ShadowOf(r, x, b.problem)}
        BY <4>4
      <4>6. b.level = InferLevel(b, FALSE)
        BY <4>2, <4>4 DEF InferLevel
      <4>7. b.problem # NoDigest /\ b.forward # NoDigest
        BY <4>4 DEF NoDigest, ForwardDigest
      <4>8. /\ p.action = r.action /\ p.status = Classify(r) /\ ForwardOf(p, r)
            /\ p.sens = {SensitivityOf(s, p.forward) : s \in args}
            /\ p.shadow = {ShadowOf(r, x, Carried)} /\ p.level \in 0..3
        BY <4>1, ProjectedFields
      <4>9. Twins(b, p)
        BY <4>4, <4>5, <4>6, <4>7, <4>8 DEF Twins
      <4> QED
        BY <4>3, <4>9 DEF DemoInv
    <3> QED
      BY <2>1, <3>1, <3>2 DEF SolveStage
  <2>2. CASE ReplayStage \/ SignStage
    <3>1. Running /\ Trusted /\ bundle' = bundle
      BY <2>2 DEF ReplayStage, SignStage, Running, Trusted, archiveVars
    <3>2. ASSUME NEW b \in bundle', NEW q \in projection' PROVE Twins(b, q)
      <4>1. PICK p \in projection : q = p \/ Reassembled(p, q)
        BY <2>2, StageOfProjection DEF GateInv
      <4>2. IsProjection(p) /\ Twins(b, p)
        BY <3>1 DEF GateInv, DemoInv
      <4>3. ASSUME Reassembled(p, q) PROVE Twins(b, q)
        <5>1. /\ q.action = p.action /\ q.status = p.status /\ q.forward = p.forward
              /\ q.sens = p.sens /\ q.shadow = p.shadow /\ q.level \in 0..3
          BY <4>2, <4>3, AssembledFields
        <5> QED
          BY <4>2, <5>1 DEF Twins, ForwardOf
      <4> QED
        BY <4>1, <4>2, <4>3
    <3>3. ASSUME NEW b \in bundle', NEW q \in projection', stage' # "replay"
          PROVE  file' = {b} /\ (crossHost' = "ok" => AllPassed(Replay(b)))
      <4>1. CASE ReplayStage
        <5>1. projection # {}
          BY <3>3, <4>1 DEF ReplayStage
        <5>2. PICK c \in bundle :
                /\ file' = {c}
                /\ crossHost' = IF AllPassed(Replay(c)) THEN "ok" ELSE "failed"
          BY <4>1, <5>1, Zenon DEF ReplayStage
        <5>3. c = b
          BY <3>1, <3>3 DEF DemoInv
        <5> QED
          BY <5>2, <5>3
      <4>2. CASE SignStage
        <5>1. /\ stage = "sign" /\ file' = file /\ crossHost' = crossHost /\ projection # {}
          BY <3>3, <4>2 DEF SignStage, archiveVars
        <5> QED
          BY <3>1, <3>3, <5>1 DEF DemoInv
      <4> QED
        BY <2>2, <4>1, <4>2
    <3> QED
      BY <3>1, <3>2, <3>3 DEF DemoInv
  <2>3. CASE RejectStage \/ GateStage
    <3>1. /\ UNCHANGED archiveVars /\ projection' = projection /\ crossHost' = crossHost
          /\ Trusted /\ stage # "replay"
      BY <2>3 DEF RejectStage, GateStage, Trusted, Running
    <3> QED
      BY <3>1 DEF DemoInv, archiveVars
  <2>4. CASE Tamper
    <3>1. ~Trusted'
      BY <2>4 DEF Tamper, IntactInv, Trusted, Running
    <3> QED
      BY <3>1 DEF DemoInv
  <2>5. CASE TrainingProbe
    <3>1. PICK flags \in SUBSET {"corrupted", "incomplete"}, hosts \in BOOLEAN :
            promoted' = (promoted \ {"training"})
                        \cup (IF GatePasses(projection, crossHost, flags, hosts)
                              THEN {"training"} ELSE {})
      BY <2>5 DEF TrainingProbe
    <3>2. "demo" \in promoted' => "demo" \in promoted
      BY <3>1
    <3>3. /\ UNCHANGED archiveVars /\ projection' = projection /\ crossHost' = crossHost
          /\ Trusted' => Trusted /\ stage # "replay"
      BY <2>5, <3>2 DEF TrainingProbe, Trusted, Running, archiveVars
    <3> QED
      BY <3>3 DEF DemoInv, archiveVars
  <2>6. CASE Archive
    <3>1. UNCHANGED demoVars /\ stage \in {"none", "done"} /\ promoted = {}
      BY <2>6 DEF Archive, GateInv
    <3>2. ~Trusted'
      BY <3>1 DEF demoVars, Trusted, Running
    <3> QED
      BY <3>2 DEF DemoInv
  <2>7. CASE UNCHANGED vars
    BY <2>7 DEF vars, demoVars, archiveVars, DemoInv, Trusted, Running
  <2> QED
    BY <2>1, <2>2, <2>3, <2>4, <2>5, <2>6, <2>7 DEF Next
<1> QED
  BY <1>1, <1>2, GateInvariant, IntactInvariant, PTL DEF Spec

\* When the gate passes, of the demo or for training, the projection is what a
\* verified solve would be recorded as; the demo's own gate passes only for a
\* bundle on disk that passes its replay and claims what the projection does.
THEOREM GatesAreEarned == Spec => []GateIsEarned
<1>1. GateInv /\ DemoInv /\ DictsInv => GateIsEarned
  <2> SUFFICES ASSUME GateInv, DemoInv, DictsInv PROVE GateIsEarned
    OBVIOUS
  <2>1. ASSUME "training" \in promoted \/ ("demo" \in promoted /\ faults = 0),
               NEW p \in projection
        PROVE  /\ p.forward = Recomputed(p) /\ Classify(p) = "feasible"
               /\ InferLevel(p, FALSE) = 3 /\ ShadowQualifies(p)
    <3>1. LevelPredicates(p) /\ Digested(p)
      BY <2>1 DEF GateInv
    <3> QED
      BY <3>1, PredicatesTell
  <2>2. ASSUME "demo" \in promoted, faults = 0, NEW b \in bundle, NEW p \in projection
        PROVE  /\ b.level = p.level /\ b.action = p.action /\ file = {b}
               /\ AllPassed(Replay(b)) /\ b.sens # {}
               /\ ~AllPassed(Replay([b EXCEPT !.sens = {}]))
    <3>1. LevelPredicates(p) /\ crossHost = "ok" /\ Trusted /\ stage # "replay"
      BY <2>2 DEF GateInv, Trusted, Running
    <3>2. Twins(b, p) /\ file = {b} /\ AllPassed(Replay(b)) /\ IsDict(b)
      BY <3>1 DEF DemoInv, DictsInv
    <3> QED
      BY <3>1, <3>2, TwinsAgree, StrippedFails
  <2> QED
    BY <2>1, <2>2 DEF GateIsEarned
<1> QED
  BY <1>1, GateInvariant, DemoInvariant, DictsInvariant, PTL
-----------------------------------------------------------------------------
(***************************************************************************)
(* The soak reports of several machines, and their aggregate.              *)
(***************************************************************************)

\* What Cardinality says of a finite set in the code's comparisons.
LEMMA CountingValues ==
  ASSUME NEW S, IsFiniteSet(S)
  PROVE  /\ Cardinality(S) > 1 <=> \E x, y \in S : x # y
         /\ Cardinality(S) = 1 <=> S # {} /\ ~(Cardinality(S) > 1)
         /\ Cardinality(S) \in Nat
<1>1. Cardinality(S) \in Nat
  BY FS_CardinalityType
<1>2. Cardinality(S) = 0 <=> S = {}
  BY FS_EmptySet
<1>3. Cardinality(S) = 1 <=> \E x : S = {x}
  BY FS_Singleton
<1>4. (\E x, y \in S : x # y) <=> S # {} /\ ~\E x : S = {x}
  OBVIOUS
<1> QED
  BY <1>1, <1>2, <1>3, <1>4

\* More values are not fewer.
LEMMA MoreValues ==
  ASSUME NEW S, NEW T, IsFiniteSet(T), S \subseteq T, Cardinality(S) > 1
  PROVE  Cardinality(T) > 1
<1>1. IsFiniteSet(S)
  BY FS_Subset
<1> QED
  BY <1>1, CountingValues

\* The values of a field of finitely many reports are finitely many.
LEMMA ValuesAreFinite ==
  ASSUME NEW rows, IsFiniteSet(rows), NEW field
  PROVE  IsFiniteSet(Values(rows, field))
<1>1. PICK T : T = Values(rows, field)
  OBVIOUS
<1>2. PICK f : f = [r \in rows |-> r[field]]
  OBVIOUS
<1>3. f \in Surjection(rows, T)
  BY <1>1, <1>2 DEF Surjection, Values
<1> QED
  BY <1>1, <1>3, FS_Surjection

Worktree == [revision : Revisions, edited : {"nothing", "code", "problem"}]
Soaked == [machine : Machines, revision : Revisions, edited : {"nothing", "code", "problem"}]

IsReport(r) ==
  r = [host |-> r.host, kind |-> r.kind, role |-> r.role, passed |-> r.passed,
       commit |-> r.commit, dirty |-> r.dirty, corpus |-> r.corpus, problem |-> r.problem,
       sealed |-> r.sealed, native |-> r.native, synthetic |-> r.synthetic, run |-> r.run]

\* A report says of the run it is of what was the case.
Recorded(r) ==
  /\ IsReport(r) /\ r.run \in 1..Len(runs)
  /\ LET s == runs[r.run]
     IN  /\ r.commit = IF s.machine \in HasGit THEN {s.revision} ELSE {}
         /\ r.dirty <=> s.machine \in HasGit /\ s.edited # "nothing"
         /\ r.corpus = CorpusOf[s.revision]

Withdrawn(r) == r.synthetic \/ r.kind = "synthetic"

\* Of the reports on disk: each says the truth, a clone is known for one, and
\* whoever was covered by an invalidation says so in every copy there is.
FilesInv ==
  /\ worktree \in [Machines -> Worktree] /\ runs \in Seq(Soaked)
  /\ files = [p \in Paths |-> files[p]] /\ revoked \subseteq 1..Len(runs)
  /\ \A p \in Paths :
       /\ \A r, t \in files[p] : r = t
       /\ \A r \in files[p] : Recorded(r) /\ (r.run \in revoked => Withdrawn(r))
       /\ p[2] = "clone" => \A r \in files[p] : r.kind = "synthetic"

IsAggregate(a) == a = [rows |-> a.rows, expected |-> a.expected, invalid |-> a.invalid,
                       ready |-> a.ready, reasons |-> a.reasons]

\* Of an aggregate: its rows say the truth, its verdict is that of its rows,
\* and when ready it is of no run that was declared invalid.
AggregateInv ==
  \A a \in aggregate :
    /\ IsAggregate(a) /\ a.rows # {} /\ IsFiniteSet(a.rows)
    /\ \A r \in a.rows : Recorded(r)
    /\ \E q \in Requests :
         /\ a.expected = q.expected /\ a.reasons = Reasons(a.rows, q.expected, q.required)
         /\ a.ready => GateReady(a.rows, q.expected, q.required)
         /\ ~a.invalid => (a.ready <=> GateReady(a.rows, q.expected, q.required))
    /\ a.ready => \A r \in a.rows : r.run \notin revoked

\* What a soak reports is what was the case when it ran.
LEMMA ReportIsRecorded ==
  ASSUME NEW m \in Machines, worktree \in [Machines -> Worktree], runs \in Seq(Soaked),
         Ran(m), NEW name, NEW soak, NEW r, r = Report(m, name, soak)
  PROVE  /\ Recorded(r)' /\ r.run = Len(runs) + 1 /\ r.run \notin 1..Len(runs)
         /\ r.kind = soak.kind
<1>1. PICK s \in Soaked : s = [machine |-> m, revision |-> worktree[m].revision,
                               edited |-> worktree[m].edited]
  BY DEF Worktree, Soaked
<1>2. runs' = Append(runs, s)
  BY <1>1 DEF Ran
<1>3. Len(runs) \in Nat /\ Len(runs') = Len(runs) + 1 /\ runs'[Len(runs) + 1] = s
  BY <1>2
<1>4. PICK dirty : dirty = Dirty(m)
  OBVIOUS
<1>5. PICK native : native = (soak.role \in NativeRoles /\ m \in Native)
  OBVIOUS
<1>6. PICK synthetic : synthetic = FALSE
  OBVIOUS
<1>7. r = [host |-> name, kind |-> soak.kind, role |-> soak.role, passed |-> soak.passed,
           commit |-> Commit(m), dirty |-> dirty, corpus |-> CorpusOf[worktree[m].revision],
           problem |-> Problem(m), sealed |-> <<"sealed", Problem(m), soak.variant>>,
           native |-> native, synthetic |-> synthetic, run |-> Len(runs) + 1]
  BY <1>4, <1>5, <1>6, Zenon DEF Report
<1>8. /\ IsReport(r) /\ r.run = Len(runs) + 1 /\ r.kind = soak.kind
      /\ r.commit = Commit(m) /\ r.dirty = dirty /\ r.corpus = CorpusOf[worktree[m].revision]
  BY <1>7 DEF IsReport
<1>9. r.run \in 1..Len(runs') /\ r.run \notin 1..Len(runs) /\ runs'[r.run] = s
  BY <1>3, <1>8
<1>10. /\ s.machine = m /\ s.revision = worktree[m].revision /\ s.edited = worktree[m].edited
  BY <1>1
<1>11. r.dirty <=> s.machine \in HasGit /\ s.edited # "nothing"
  BY <1>4, <1>8, <1>10, Zenon DEF Dirty
<1>12. r.commit = IF s.machine \in HasGit THEN {s.revision} ELSE {}
  BY <1>8, <1>10 DEF Commit
<1> QED
  BY <1>8, <1>9, <1>10, <1>11, <1>12 DEF Recorded

\* It stays so whatever runs follow.
LEMMA RecordsStay ==
  ASSUME NEW m \in Machines, worktree \in [Machines -> Worktree], runs \in Seq(Soaked), Ran(m)
  PROVE  /\ runs' \in Seq(Soaked) /\ 1..Len(runs) \subseteq 1..Len(runs')
         /\ \A r : Recorded(r) => Recorded(r)'
<1>1. PICK s \in Soaked : s = [machine |-> m, revision |-> worktree[m].revision,
                               edited |-> worktree[m].edited]
  BY DEF Worktree, Soaked
<1>2. runs' = Append(runs, s)
  BY <1>1 DEF Ran
<1>3. /\ runs' \in Seq(Soaked) /\ Len(runs) \in Nat /\ Len(runs') = Len(runs) + 1
      /\ \A i \in 1..Len(runs) : runs'[i] = runs[i]
  BY <1>2
<1>4. 1..Len(runs) \subseteq 1..Len(runs')
  BY <1>3
<1>5. ASSUME NEW r, Recorded(r) PROVE Recorded(r)'
  <2>1. r.run \in 1..Len(runs') /\ runs'[r.run] = runs[r.run]
    BY <1>3, <1>4, <1>5 DEF Recorded
  <2> QED
    BY <1>5, <2>1 DEF Recorded
<1> QED
  BY <1>3, <1>4, <1>5

\* Declaring a report invalid changes nothing of what it says of its run.
LEMMA AnnotatedFields ==
  ASSUME NEW r, Recorded(r)
  PROVE  /\ Recorded(Annotated(r)) /\ Withdrawn(Annotated(r))
         /\ Annotated(r).kind = r.kind /\ Annotated(r).run = r.run
<1>1. PICK synthetic : synthetic
  BY Zenon
<1>2. Annotated(r) = [r EXCEPT !.synthetic = TRUE]
  BY DEF Annotated
<1>3. PICK t : t = Annotated(r)
  OBVIOUS
<1>4. /\ IsReport(t) /\ t.synthetic /\ t.kind = r.kind /\ t.run = r.run
      /\ t.commit = r.commit /\ t.dirty = r.dirty /\ t.corpus = r.corpus
  BY <1>2, <1>3 DEF Recorded, IsReport
<1> QED
  BY <1>3, <1>4 DEF Recorded, Withdrawn

\* Nor does cloning it.
LEMMA CloneFields ==
  ASSUME NEW r, Recorded(r)', NEW match
  PROVE  Recorded(Clone(r, match))' /\ Clone(r, match).kind = "synthetic"
<1>1. PICK sealed : sealed = IF match THEN r.sealed ELSE [r.sealed EXCEPT ![1] = "mismatched"]
  OBVIOUS
<1>2. PICK t : t = [r EXCEPT !.host = <<"synthetic-host-b">>, !.kind = "synthetic",
                             !.sealed = sealed]
  OBVIOUS
<1>3. t = Clone(r, match)
  BY <1>1, <1>2 DEF Clone, Recorded, IsReport
<1>4. /\ IsReport(t) /\ t.kind = "synthetic" /\ t.run = r.run
      /\ t.commit = r.commit /\ t.dirty = r.dirty /\ t.corpus = r.corpus
  BY <1>2 DEF Recorded, IsReport
<1> QED
  BY <1>3, <1>4 DEF Recorded

\* A change of a worktree touches no file.
LEMMA FilesKept ==
  ASSUME FilesInv, UNCHANGED <<files, runs, revoked>>, worktree' \in [Machines -> Worktree]
  PROVE  FilesInv'
<1>1. \A r : Recorded(r) => Recorded(r)'
  BY DEF Recorded
<1>2. runs' = runs /\ files' = files /\ revoked' = revoked
  OBVIOUS
<1>3. \A p \in Paths :
        /\ \A r, t \in files'[p] : r = t
        /\ \A r \in files'[p] : Recorded(r)' /\ (r.run \in revoked' => Withdrawn(r))
        /\ p[2] = "clone" => \A r \in files'[p] : r.kind = "synthetic"
  BY <1>1, <1>2, Zenon DEF FilesInv
<1>4. /\ runs' \in Seq(Soaked) /\ files' = [p \in Paths |-> files'[p]]
      /\ revoked' \subseteq 1..Len(runs')
  BY <1>2, Zenon DEF FilesInv
<1> QED
  BY <1>3, <1>4, Zenon DEF FilesInv, Withdrawn

\* What is on disk was recorded by a run or withdrawn (run_platform_soak).
LEMMA FilesInvariant == SoakSpec => []FilesInv
<1> USE PlatformSoakAssumption
<1>1. SoakInit => FilesInv
  <2> SUFFICES ASSUME SoakInit PROVE FilesInv
    OBVIOUS
  <2>1. worktree \in [Machines -> Worktree]
    BY DEF SoakInit, Worktree
  <2>2. runs \in Seq(Soaked) /\ files = [p \in Paths |-> files[p]] /\ revoked = {}
    BY DEF SoakInit
  <2>3. \A p \in Paths : files[p] = {}
    BY DEF SoakInit
  <2> QED
    BY <2>1, <2>2, <2>3 DEF FilesInv
<1>2. FilesInv /\ [SoakNext]_soakVars => FilesInv'
  <2> SUFFICES ASSUME FilesInv, [SoakNext]_soakVars PROVE FilesInv'
    OBVIOUS
  <2>1. ASSUME NEW m \in Machines, Change(m) PROVE FilesInv'
    <3>1. worktree' \in [Machines -> Worktree]
      <4>1. CASE \E r \in Revisions : worktree' = [worktree EXCEPT ![m].revision = r]
        BY <4>1 DEF FilesInv, Worktree
      <4>2. CASE \E e \in {"nothing", "code", "problem"} :
                   worktree' = [worktree EXCEPT ![m].edited = e]
        BY <4>2 DEF FilesInv, Worktree
      <4> QED
        BY <2>1, <4>1, <4>2 DEF Change
    <3> QED
      BY <2>1, <3>1, FilesKept DEF Change
  <2>2. ASSUME NEW m \in Machines, RunSoak(m) PROVE FilesInv'
    <3>1. PICK soak \in Soaks, whole \in BOOLEAN :
            files' = [p \in Paths |->
                IF p = <<m, "latest">> \/ (whole /\ p = <<m, soak.role>>)
                THEN {Report(m, <<m, soak.role>>, soak)} ELSE files[p]]
      BY <2>2 DEF RunSoak
    <3>2. PICK r : r = Report(m, <<m, soak.role>>, soak)
      OBVIOUS
    <3>3. Recorded(r)' /\ r.run \notin revoked
      BY <2>2, <3>2, ReportIsRecorded DEF RunSoak, FilesInv
    <3>4. ASSUME NEW p \in Paths
          PROVE  files'[p] = files[p] \/ (files'[p] = {r} /\ p[2] # "clone")
      <4>1. CASE p = <<m, "latest">> \/ (whole /\ p = <<m, soak.role>>)
        BY <3>1, <3>2, <4>1
      <4>2. CASE ~(p = <<m, "latest">> \/ (whole /\ p = <<m, soak.role>>))
        BY <3>1, <4>2
      <4> QED
        BY <4>1, <4>2
    <3>5. files' = [p \in Paths |-> files'[p]]
      BY <3>1
    <3>6. /\ worktree' = worktree /\ revoked' = revoked /\ runs' \in Seq(Soaked)
          /\ 1..Len(runs) \subseteq 1..Len(runs') /\ \A t : Recorded(t) => Recorded(t)'
      BY <2>2, RecordsStay DEF RunSoak, FilesInv
    <3> QED
      BY <3>3, <3>4, <3>5, <3>6 DEF FilesInv
  <2>3. ASSUME NEW m \in Machines, Simulate(m) PROVE FilesInv'
    <3>1. PICK soak \in Soaks, match \in BOOLEAN :
            files' = [files EXCEPT ![<<m, "simulation">>] = {Report(m, <<"sim-host-a">>, soak)},
                       ![<<m, "clone">>] = {Clone(Report(m, <<"sim-host-a">>, soak), match)}]
      BY <2>3 DEF Simulate
    <3>2. PICK r : r = Report(m, <<"sim-host-a">>, soak)
      OBVIOUS
    <3>3. PICK c : c = Clone(r, match)
      OBVIOUS
    <3>4. Recorded(r)' /\ r.run \notin 1..Len(runs)
      BY <2>3, <3>2, ReportIsRecorded DEF Simulate, FilesInv
    <3>5. Recorded(c)' /\ c.kind = "synthetic"
      BY <3>3, <3>4, CloneFields
    <3>6. files' = [files EXCEPT ![<<m, "simulation">>] = {r}, ![<<m, "clone">>] = {c}]
      BY <3>1, <3>2, <3>3
    <3>7. ASSUME NEW p \in Paths
          PROVE  \/ files'[p] = files[p]
                 \/ files'[p] = {r} /\ p[2] # "clone"
                 \/ files'[p] = {c}
      <4>1. CASE p = <<m, "clone">>
        BY <3>6, <4>1 DEF FilesInv
      <4>2. CASE p = <<m, "simulation">>
        BY <3>6, <4>2 DEF FilesInv
      <4>3. CASE p # <<m, "clone">> /\ p # <<m, "simulation">>
        BY <3>6, <4>3 DEF FilesInv
      <4> QED
        BY <4>1, <4>2, <4>3
    <3>8. files' = [p \in Paths |-> files'[p]]
      BY <3>6 DEF FilesInv
    <3>9. /\ worktree' = worktree /\ revoked' = revoked /\ runs' \in Seq(Soaked)
          /\ 1..Len(runs) \subseteq 1..Len(runs') /\ \A t : Recorded(t) => Recorded(t)'
      BY <2>3, RecordsStay DEF Simulate, FilesInv
    <3>10. Withdrawn(c) /\ r.run \notin revoked
      BY <3>4, <3>5 DEF Withdrawn, FilesInv
    <3> QED
      BY <3>4, <3>5, <3>7, <3>8, <3>9, <3>10 DEF FilesInv
  <2>4. CASE Aggregate
    BY <2>4, FilesKept DEF Aggregate, FilesInv
  <2>5. CASE Invalidate
    <3>1. /\ worktree' = worktree /\ runs' = runs
          /\ files' = [p \in Paths |-> IF p \in Covered THEN {Annotated(r) : r \in files[p]}
                                                        ELSE files[p]]
          /\ revoked' = revoked \cup {r.run : r \in UNION {files[p] : p \in Covered}}
      BY <2>5 DEF Invalidate, Annotate
    <3>2. \A r : Recorded(r)' <=> Recorded(r)
      BY <3>1 DEF Recorded
    <3>3. revoked' \subseteq 1..Len(runs')
      <4>1. ASSUME NEW r \in UNION {files[p] : p \in Covered} PROVE r.run \in 1..Len(runs)
        <5>1. PICK p \in Paths : r \in files[p]
          BY <4>1 DEF Covered, OnDisk
        <5> QED
          BY <5>1 DEF FilesInv, Recorded
      <4> QED
        BY <3>1, <4>1 DEF FilesInv
    <3>4. ASSUME NEW p \in Paths, p \in Covered
          PROVE  /\ \A r, t \in files'[p] : r = t
                 /\ \A r \in files'[p] : Recorded(r)' /\ Withdrawn(r)
                 /\ p[2] # "clone"
      BY <3>1, <3>2, <3>4, AnnotatedFields DEF FilesInv, Covered
    <3>5. ASSUME NEW p \in Paths, p \notin Covered
          PROVE  /\ \A r, t \in files'[p] : r = t
                 /\ \A r \in files'[p] : Recorded(r)' /\ Withdrawn(r)
                 /\ p[2] = "clone" => \A r \in files'[p] : r.kind = "synthetic"
      <4>1. files'[p] = files[p]
        BY <3>1, <3>5
      <4>2. files[p] = {} \/ p[2] = "clone"
        BY <3>5 DEF Covered, OnDisk
      <4> QED
        BY <3>2, <4>1, <4>2 DEF FilesInv, Withdrawn
    <3>6. files' = [p \in Paths |-> files'[p]]
      BY <3>1
    <3> QED
      BY <3>1, <3>3, <3>4, <3>5, <3>6 DEF FilesInv
  <2>6. CASE UNCHANGED soakVars
    BY <2>6, FilesKept DEF soakVars, FilesInv
  <2> QED
    BY <2>1, <2>2, <2>3, <2>4, <2>5, <2>6 DEF SoakNext
<1> QED
  BY <1>1, <1>2, PTL DEF SoakSpec

\* An aggregate reads finitely many reports.
LEMMA RowsAreFinite ==
  ASSUME FilesInv, NEW S, S \subseteq Paths
  PROVE  IsFiniteSet(UNION {files[p] : p \in S})
<1>1. IsFiniteSet(Paths)
  <2>1. IsFiniteSet(Machines) /\ IsFiniteSet(Roles)
    BY PlatformSoakAssumption
  <2>2. IsFiniteSet({"latest", "simulation", "clone"})
    <3>1. IsFiniteSet({"latest"} \cup {"simulation"})
      BY FS_Singleton, FS_AddElement
    <3>2. IsFiniteSet(({"latest"} \cup {"simulation"}) \cup {"clone"})
      BY <3>1, FS_AddElement
    <3>3. ({"latest"} \cup {"simulation"}) \cup {"clone"} = {"latest", "simulation", "clone"}
      OBVIOUS
    <3> QED
      BY <3>2, <3>3
  <2>3. IsFiniteSet(Roles \cup {"latest", "simulation", "clone"})
    BY <2>1, <2>2, FS_Union
  <2> QED
    BY <2>1, <2>3, FS_Product DEF Paths
<1>2. IsFiniteSet(S)
  BY <1>1, FS_Subset
<1>3. PICK T : T = {files[p] : p \in S}
  OBVIOUS
<1>4. PICK f : f = [p \in S |-> files[p]]
  OBVIOUS
<1>5. f \in Surjection(S, T)
  BY <1>3, <1>4 DEF Surjection
<1>6. IsFiniteSet(T)
  BY <1>2, <1>5, FS_Surjection
<1>7. ASSUME NEW U \in T PROVE IsFiniteSet(U)
  <2>1. \A r, t \in U : r = t
    BY <1>3 DEF FilesInv
  <2>2. U = {} \/ \E r : U = {r}
    BY <2>1
  <2> QED
    BY <2>2, FS_EmptySet, FS_Singleton
<1> QED
  BY <1>3, <1>6, <1>7, FS_UNION

\* An aggregate's verdict is that of the reports it was made from
\* (aggregate_platform_soaks).
LEMMA AggregateInvariant == SoakSpec => []AggregateInv
<1>1. SoakInit => AggregateInv
  BY DEF SoakInit, AggregateInv
<1>2. AggregateInv /\ FilesInv /\ [SoakNext]_soakVars => AggregateInv'
  <2> SUFFICES ASSUME AggregateInv, FilesInv, [SoakNext]_soakVars PROVE AggregateInv'
    OBVIOUS
  <2>1. ASSUME aggregate' = aggregate, revoked' = revoked, \A r : Recorded(r) => Recorded(r)'
        PROVE  AggregateInv'
    <3> SUFFICES ASSUME NEW a \in aggregate
                 PROVE  /\ IsAggregate(a) /\ a.rows # {} /\ IsFiniteSet(a.rows)
                        /\ \A r \in a.rows : Recorded(r)'
                        /\ \E q \in Requests :
                             /\ a.expected = q.expected
                             /\ a.reasons = Reasons(a.rows, q.expected, q.required)
                             /\ a.ready => GateReady(a.rows, q.expected, q.required)
                             /\ ~a.invalid => (a.ready <=> GateReady(a.rows, q.expected, q.required))
                        /\ a.ready => \A r \in a.rows : r.run \notin revoked
      BY <2>1, Zenon DEF AggregateInv
    <3> QED
      BY <2>1, Zenon DEF AggregateInv
  <2>2. ASSUME runs' = runs PROVE \A r : Recorded(r) => Recorded(r)'
    BY <2>2 DEF Recorded
  <2>3. ASSUME NEW m \in Machines, Change(m) \/ RunSoak(m) \/ Simulate(m) PROVE AggregateInv'
    <3>1. aggregate' = aggregate /\ revoked' = revoked
      BY <2>3 DEF Change, RunSoak, Simulate
    <3>2. \A r : Recorded(r) => Recorded(r)'
      BY <2>2, <2>3, RecordsStay DEF Change, RunSoak, Simulate, FilesInv
    <3> QED
      BY <2>1, <3>1, <3>2
  <2>4. CASE Aggregate
    <3>1. PICK S \in (SUBSET OnDisk) \ {{}}, q \in Requests :
            aggregate' = {[rows |-> UNION {files[p] : p \in S}, expected |-> q.expected,
              invalid |-> FALSE,
              ready |-> GateReady(UNION {files[p] : p \in S}, q.expected, q.required),
              reasons |-> Reasons(UNION {files[p] : p \in S}, q.expected, q.required)]}
      BY <2>4 DEF Aggregate
    <3>2. PICK rows : rows = UNION {files[p] : p \in S}
      OBVIOUS
    <3>3. PICK ready \in BOOLEAN : ready <=> GateReady(rows, q.expected, q.required)
      BY Zenon
    <3>4. PICK reasons : reasons = Reasons(rows, q.expected, q.required)
      OBVIOUS
    <3>5. PICK invalid \in BOOLEAN : ~invalid
      BY Zenon
    <3>6. PICK a : a = [rows |-> rows, expected |-> q.expected, invalid |-> invalid,
                        ready |-> ready, reasons |-> reasons]
      OBVIOUS
    <3>7. aggregate' = {a}
      <4>1. invalid = FALSE
        BY <3>5
      <4>2. ready = GateReady(rows, q.expected, q.required)
        BY <3>3, Zenon DEF GateReady
      <4> QED
        BY <3>1, <3>2, <3>4, <3>6, <4>1, <4>2, Zenon
    <3>8. /\ IsAggregate(a) /\ a.rows = rows /\ a.expected = q.expected
          /\ a.invalid = invalid /\ a.ready = ready /\ a.reasons = reasons
      BY <3>6 DEF IsAggregate
    <3>9. S \subseteq Paths /\ \E p \in S : files[p] # {}
      <4>1. S \subseteq OnDisk /\ S # {}
        OBVIOUS
      <4> QED
        BY <4>1, Zenon DEF OnDisk
    <3>10. IsFiniteSet(rows) /\ rows # {}
      BY <3>2, <3>9, RowsAreFinite
    <3>11. \A r \in rows : Recorded(r) /\ (r.run \in revoked => Withdrawn(r))
      BY <3>2, <3>9 DEF FilesInv
    <3>12. GateReady(rows, q.expected, q.required) => \A r \in rows : ~Withdrawn(r)
      BY DEF GateReady, Synthetic, Withdrawn
    <3>13. revoked' = revoked /\ \A r : Recorded(r) => Recorded(r)'
      BY <2>2, <2>4 DEF Aggregate
    <3> QED
      BY <3>3, <3>4, <3>7, <3>8, <3>10, <3>11, <3>12, <3>13, Zenon DEF AggregateInv
  <2>5. CASE Invalidate
    <3>1. aggregate' = {AnnotatedAggregate(a) : a \in aggregate} /\ runs' = runs
      BY <2>5 DEF Invalidate
    <3> SUFFICES ASSUME NEW b \in aggregate'
                 PROVE  /\ IsAggregate(b) /\ b.rows # {} /\ IsFiniteSet(b.rows)
                        /\ \A r \in b.rows : Recorded(r)'
                        /\ \E q \in Requests :
                             /\ b.expected = q.expected
                             /\ b.reasons = Reasons(b.rows, q.expected, q.required)
                        /\ ~b.ready /\ b.invalid
      BY Zenon DEF AggregateInv
    <3>2. PICK a \in aggregate : b = [a EXCEPT !.ready = FALSE, !.invalid = TRUE]
      BY <3>1 DEF AnnotatedAggregate
    <3>3. IsAggregate(a)
      BY DEF AggregateInv
    <3>4. /\ IsAggregate(b) /\ b.rows = a.rows /\ b.expected = a.expected
          /\ b.reasons = a.reasons /\ ~b.ready /\ b.invalid
      BY <3>2, <3>3 DEF IsAggregate
    <3>5. \A r : Recorded(r) => Recorded(r)'
      BY <2>2, <3>1
    <3> QED
      BY <3>4, <3>5, Zenon DEF AggregateInv
  <2>6. CASE UNCHANGED soakVars
    BY <2>1, <2>2, <2>6 DEF soakVars
  <2> QED
    BY <2>3, <2>4, <2>5, <2>6 DEF SoakNext
<1> QED
  BY <1>1, <1>2, FilesInvariant, PTL DEF SoakSpec

\* A ready aggregate joins real hosts that ran the soak at one revision, with
\* nothing edited, as far as git can tell, and on one corpus.
THEOREM ReadyAggregatesAgree == SoakSpec => []ReadyIsOneRevision
<1> USE PlatformSoakAssumption
<1>1. AggregateInv /\ FilesInv => ReadyIsOneRevision
  <2> SUFFICES ASSUME AggregateInv, FilesInv, NEW a \in aggregate, a.ready
               PROVE  LET soaks == {runs[r.run] : r \in a.rows}
                          known == {s \in soaks : s.machine \in HasGit}
                      IN  /\ Cardinality(RealHosts(a.rows)) >= 2 /\ Synthetic(a.rows) = {}
                          /\ \A s, t \in known : s.revision = t.revision /\ s.edited = "nothing"
                          /\ \A s \in known : a.expected \subseteq {s.revision}
                          /\ a.expected # {} => known # {}
                          /\ \A s, t \in soaks : s.edited # "problem" /\ t.edited # "problem" =>
                               CorpusOf[s.revision] = CorpusOf[t.revision]
    BY Zenon DEF ReadyIsOneRevision
  <2>1. PICK q \in Requests : a.expected = q.expected /\ GateReady(a.rows, q.expected, q.required)
    BY DEF AggregateInv
  <2>2. /\ IsFiniteSet(a.rows) /\ \A r \in a.rows : Recorded(r)
    BY DEF AggregateInv
  <2>3. /\ Cardinality(RealHosts(a.rows)) >= 2 /\ Synthetic(a.rows) = {}
        /\ Cardinality(Values(a.rows, "corpus")) = 1
        /\ ~StaleCommits(a.rows, a.expected)
        /\ \A r \in a.rows : ~r.dirty
    BY <2>1 DEF GateReady
  <2>4. IsFiniteSet(Commits(a.rows))
    <3>1. IsFiniteSet(Values(a.rows, "commit"))
      BY <2>2, ValuesAreFinite
    <3>2. ASSUME NEW U \in Values(a.rows, "commit") PROVE IsFiniteSet(U)
      <4>1. PICK r \in a.rows : U = r.commit
        BY DEF Values
      <4>2. U = {} \/ \E v : U = {v}
        BY <2>2, <4>1 DEF Recorded
      <4>3. IsFiniteSet({}) /\ \A v : IsFiniteSet({v})
        BY FS_EmptySet, FS_Singleton
      <4> QED
        BY <4>2, <4>3, Zenon
    <3> QED
      BY <3>1, <3>2, FS_UNION DEF Commits
  <2>5. \A x, y \in Commits(a.rows) : x = y
    BY <2>3, <2>4, CountingValues DEF StaleCommits
  <2>6. \A x, y \in Values(a.rows, "corpus") : x = y
    BY <2>2, <2>3, ValuesAreFinite, CountingValues
  <2>7. a.expected # {} => Commits(a.rows) \subseteq a.expected /\ Commits(a.rows) # {}
    BY <2>3 DEF StaleCommits
  <2>8. ASSUME NEW r \in a.rows, runs[r.run].machine \in HasGit
        PROVE  runs[r.run].revision \in Commits(a.rows) /\ runs[r.run].edited = "nothing"
    <3>1. r.commit = {runs[r.run].revision} /\ runs[r.run].edited = "nothing"
      BY <2>2, <2>3, <2>8 DEF Recorded
    <3> QED
      BY <3>1 DEF Commits, Values
  <2>9. ASSUME a.expected # {} PROVE \E r \in a.rows : runs[r.run].machine \in HasGit
    <3>1. PICK x : x \in Commits(a.rows)
      BY <2>7, <2>9
    <3>2. PICK r \in a.rows : x \in r.commit
      BY <3>1 DEF Commits, Values
    <3> QED
      BY <2>2, <3>2 DEF Recorded
  <2>10. \A r, t \in a.rows : CorpusOf[runs[r.run].revision] = CorpusOf[runs[t.run].revision]
    <3>1. \A r \in a.rows : r.corpus = CorpusOf[runs[r.run].revision]
      BY <2>2, Zenon DEF Recorded
    <3>2. \A r \in a.rows : r.corpus \in Values(a.rows, "corpus")
      BY DEF Values
    <3> QED
      BY <2>6, <3>1, <3>2
  <2>11. \A x \in Commits(a.rows) : a.expected \subseteq {x}
    BY <2>1, <2>7
  <2> QED
    BY <2>3, <2>5, <2>8, <2>9, <2>10, <2>11
<1> QED
  BY <1>1, FilesInvariant, AggregateInvariant, PTL

\* The reasons one by one.
LEMMA ReasonsListed ==
  ASSUME NEW rows, NEW expected, NEW required, NEW R, R = Reasons(rows, expected, required)
  PROVE  /\ R \subseteq {"insufficient_real_hosts", "synthetic_hosts", "sealed_digest_mismatch",
               "problem_digest_mismatch", "dirty_worktree", "stale_or_mismatched_commit",
               "provenance_mismatch", "synthetic_sensitivity", "missing_gradient_for_l3",
               "moreau_claim_without_native_host", "incomplete_public_matrix",
               "incomplete_moreau_matrix"}
         /\ "insufficient_real_hosts" \in R <=> Cardinality(RealHosts(rows)) < 2
         /\ "synthetic_hosts" \in R <=> Synthetic(rows) # {}
         /\ "sealed_digest_mismatch" \in R <=> Cardinality(Values(rows, "sealed")) > 1
         /\ "problem_digest_mismatch" \in R <=> Cardinality(Values(rows, "problem")) > 1
         /\ "dirty_worktree" \in R <=> \E r \in rows : r.dirty
         /\ "stale_or_mismatched_commit" \in R <=> StaleCommits(rows, expected)
         /\ "provenance_mismatch" \in R <=> Cardinality(Values(rows, "corpus")) > 1
         /\ "synthetic_sensitivity" \in R <=> UnfoundedL3(rows)
         /\ "missing_gradient_for_l3" \in R <=> UnfoundedL3(rows)
         /\ "moreau_claim_without_native_host" \in R <=> NoNative(rows)
         /\ "incomplete_public_matrix" \in R <=> LacksPublic(rows, required)
         /\ "incomplete_moreau_matrix" \in R <=> LacksMoreau(rows, required)
BY DEF Reasons

\* Though the code writes the decision out twice, the two agree: a gate is ready
\* when there is no reason against it and every report passed.
LEMMA GateIsReasons ==
  ASSUME NEW rows, IsFiniteSet(rows), rows # {}, NEW expected, NEW required
  PROVE  GateReady(rows, expected, required) <=>
           Reasons(rows, expected, required) = {} /\ \A r \in rows : r.passed
<1>1. PICK R : R = Reasons(rows, expected, required)
  OBVIOUS
<1>2. Cardinality(RealHosts(rows)) \in Nat
  <2>1. PICK real : real = {x \in rows : x.kind = "real"}
    OBVIOUS
  <2>2. IsFiniteSet(real)
    BY <2>1, FS_Subset
  <2>3. RealHosts(rows) = Values(real, "host")
    BY <2>1 DEF RealHosts, Values
  <2> QED
    BY <2>2, <2>3, ValuesAreFinite, CountingValues
<1>3. ASSUME NEW field
      PROVE  Cardinality(Values(rows, field)) = 1 <=> ~(Cardinality(Values(rows, field)) > 1)
  <2>1. Values(rows, field) # {}
    BY DEF Values
  <2> QED
    BY <2>1, ValuesAreFinite, CountingValues
<1>4. Cardinality(RealHosts(rows)) >= 2 <=> ~(Cardinality(RealHosts(rows)) < 2)
  BY <1>2
<1>5. R = {} <=> /\ Cardinality(RealHosts(rows)) >= 2 /\ Synthetic(rows) = {}
                 /\ Cardinality(Values(rows, "sealed")) = 1
                 /\ Cardinality(Values(rows, "problem")) = 1
                 /\ Cardinality(Values(rows, "corpus")) = 1
                 /\ ~StaleCommits(rows, expected) /\ ~NoNative(rows)
                 /\ ~LacksPublic(rows, required) /\ ~LacksMoreau(rows, required)
                 /\ \A r \in rows : ~r.dirty /\ ~r.synthetic
  <2>1. UnfoundedL3(rows) <=> \E r \in rows : r.synthetic
    BY DEF UnfoundedL3
  <2> HIDE DEF UnfoundedL3, StaleCommits, NoNative, LacksPublic, LacksMoreau
  <2> QED
    BY <1>1, <1>3, <1>4, <2>1, ReasonsListed
<1> QED
  BY <1>1, <1>5 DEF GateReady

\* Whatever reports are added, what was not just missing is found again.
LEMMA ReasonsStay ==
  ASSUME NEW rows, NEW more, IsFiniteSet(rows), IsFiniteSet(more),
         \A r \in rows \cup more : IsFiniteSet(r.commit),
         NEW expected, NEW required
  PROVE  Reasons(rows, expected, required) \ Suppliable(rows) \subseteq
           Reasons(rows \cup more, expected, {})
<1>1. PICK all : all = rows \cup more
  OBVIOUS
<1>2. PICK R : R = Reasons(rows, expected, required)
  OBVIOUS
<1>3. PICK Q : Q = Reasons(all, expected, {})
  OBVIOUS
<1>4. IsFiniteSet(all) /\ rows \subseteq all
  BY <1>1, FS_Union
<1>5. ASSUME NEW field, Cardinality(Values(rows, field)) > 1
      PROVE  Cardinality(Values(all, field)) > 1
  <2>1. Values(rows, field) \subseteq Values(all, field)
    BY <1>4 DEF Values
  <2> QED
    BY <1>4, <1>5, <2>1, ValuesAreFinite, MoreValues
<1>6. Synthetic(rows) \subseteq Synthetic(all)
  BY <1>4 DEF Synthetic
<1>7. Commits(rows) \subseteq Commits(all) /\ IsFiniteSet(Commits(all))
  <2>1. Values(rows, "commit") \subseteq Values(all, "commit")
    BY <1>4 DEF Values
  <2>2. \A U \in Values(all, "commit") : IsFiniteSet(U)
    BY <1>1 DEF Values
  <2> QED
    BY <1>4, <2>1, <2>2, ValuesAreFinite, FS_UNION DEF Commits
<1>8. ASSUME StaleCommits(rows, expected), Commits(rows) # {} PROVE StaleCommits(all, expected)
  BY <1>7, <1>8, MoreValues DEF StaleCommits
<1>9. UnfoundedL3(rows) => UnfoundedL3(all)
  BY <1>4 DEF UnfoundedL3
<1>10. ASSUME NEW reason \in R, reason \notin Suppliable(rows) PROVE reason \in Q
  <2>1. CASE reason \in {"sealed_digest_mismatch", "problem_digest_mismatch", "provenance_mismatch"}
    BY <1>2, <1>3, <1>5, <1>10, <2>1, ReasonsListed
  <2>2. CASE reason = "stale_or_mismatched_commit"
    <3>1. Commits(rows) # {}
      BY <1>10, <2>2 DEF Suppliable
    <3> QED
      BY <1>2, <1>3, <1>8, <1>10, <2>2, <3>1, ReasonsListed
  <2>3. CASE reason \in {"synthetic_hosts", "dirty_worktree", "synthetic_sensitivity",
                         "missing_gradient_for_l3"}
    BY <1>2, <1>3, <1>4, <1>6, <1>9, <1>10, <2>3, ReasonsListed
  <2>4. reason \notin {"insufficient_real_hosts", "moreau_claim_without_native_host",
                       "incomplete_public_matrix", "incomplete_moreau_matrix"}
    BY <1>10 DEF Suppliable
  <2> QED
    BY <1>2, <1>10, <2>1, <2>2, <2>3, <2>4, ReasonsListed
<1> QED
  BY <1>1, <1>2, <1>3, <1>10

\* A rejection stands, however often reports are collected: a withdrawn run
\* never counts, and what a report was rejected for cannot be outvoted.
THEOREM RejectionsRemain == SoakSpec => []RejectionsStand
<1>1. AggregateInv /\ FilesInv => RejectionsStand
  <2> SUFFICES ASSUME AggregateInv, FilesInv, NEW a \in aggregate
               PROVE  /\ a.ready => {r.run : r \in a.rows} \cap revoked = {}
                      /\ ~a.invalid => (a.ready <=> a.reasons = {} /\ \A r \in a.rows : r.passed)
                      /\ \A p \in OnDisk :
                           a.reasons \ Suppliable(a.rows) \subseteq
                             Reasons(a.rows \cup files[p], a.expected, {})
    BY Zenon DEF RejectionsStand
  <2>1. PICK q \in Requests :
          /\ a.expected = q.expected /\ a.reasons = Reasons(a.rows, q.expected, q.required)
          /\ ~a.invalid => (a.ready <=> GateReady(a.rows, q.expected, q.required))
    BY Zenon DEF AggregateInv
  <2>2. /\ IsFiniteSet(a.rows) /\ a.rows # {} /\ \A r \in a.rows : Recorded(r)
        /\ a.ready => \A r \in a.rows : r.run \notin revoked
    BY Zenon DEF AggregateInv
  <2>3. a.ready => {r.run : r \in a.rows} \cap revoked = {}
    BY <2>2
  <2>4. ~a.invalid => (a.ready <=> a.reasons = {} /\ \A r \in a.rows : r.passed)
    BY <2>1, <2>2, GateIsReasons, Zenon
  <2>5. ASSUME NEW p \in OnDisk
        PROVE  a.reasons \ Suppliable(a.rows) \subseteq
                 Reasons(a.rows \cup files[p], a.expected, {})
    <3>1. p \in Paths
      BY DEF OnDisk
    <3>2. IsFiniteSet(files[p]) /\ \A r \in files[p] : Recorded(r)
      <4>1. \A r, t \in files[p] : r = t
        BY <3>1 DEF FilesInv
      <4>2. files[p] = {} \/ \E r : files[p] = {r}
        BY <4>1
      <4>3. IsFiniteSet({}) /\ \A v : IsFiniteSet({v})
        BY FS_EmptySet, FS_Singleton
      <4> QED
        BY <3>1, <4>2, <4>3, Zenon DEF FilesInv
    <3>3. ASSUME NEW r, Recorded(r) PROVE IsFiniteSet(r.commit)
      <4>1. r.commit = {} \/ \E v : r.commit = {v}
        BY <3>3 DEF Recorded
      <4>2. IsFiniteSet({}) /\ \A v : IsFiniteSet({v})
        BY FS_EmptySet, FS_Singleton
      <4> QED
        BY <4>1, <4>2, Zenon
    <3>4. \A r \in a.rows \cup files[p] : IsFiniteSet(r.commit)
      BY <2>2, <3>2, <3>3
    <3> QED
      BY <2>1, <2>2, <3>2, <3>4, ReasonsStay, Zenon
  <2> QED
    BY <2>3, <2>4, <2>5
<1> QED
  BY <1>1, FilesInvariant, AggregateInvariant, PTL
=============================================================================
