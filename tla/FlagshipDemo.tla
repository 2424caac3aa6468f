---------------------------- MODULE FlagshipDemo ----------------------------
(***************************************************************************)
(* The flagship demo (experimental/assurance/proof_carrying.py): a         *)
(* projection is solved, shadowed and differentiated, its bundle is        *)
(* written and replayed, a manifest is attested over the files, corrupted  *)
(* copies are shown to be rejected, and the promotion gate is evaluated.   *)
(* The same gate decides whether training may run                          *)
(* (training/comparison_harness.py); there the caller hands in a           *)
(* projection, the stages and the flags.                                   *)
(*                                                                         *)
(* A proof-carrying projection describes the problem with a structural     *)
(* flag of its own: its problem digest is never that of the bundle.  The   *)
(* stages of the Windows client, the sidecar and the agent batch are       *)
(* reported and decide nothing.                                            *)
(***************************************************************************)
EXTENDS EvidenceArchive

VARIABLES
  stage,       \* the stage the demo is at; "none" when it does not run
  host,        \* what holds on the host: native Moreau, the CBF check, the docs
  projection,  \* the proof-carrying projection, if any
  crossHost,   \* the status of the stage cross_host_replay
  rejected,    \* what stage corrupted_artifact_rejection demonstrated
  promoted     \* the gates that passed: the demo's, the training's

demoVars == <<stage, host, projection, crossHost, rejected, promoted>>
vars == <<archiveVars, demoVars>>

Init == /\ ArchiveInit
        /\ \/ stage = "none" /\ host = {}
           \/ stage = "solve" /\ origin = "none" /\ host \in SUBSET {"moreau", "cbf", "docs"}
        /\ projection = {} /\ crossHost = "skipped"
        /\ rejected = {} /\ promoted = {}
-----------------------------------------------------------------------------
Carried == <<"problem", "proof_carrying">>

Recomputed(p) ==
  ForwardDigest(Carried, p.action, p.residual, p.canonical, p.status)

\* assemble_proof_carrying_projection: no caller says that several hosts
\* qualified, so that the level is below 4 whatever the manifest says.
Assemble(p) == [p EXCEPT !.level = InferLevel(p, FALSE)]

\* build_verified_projection
VerifiedProjection(primary) ==
  LET status == Classify(primary)
  IN  [action |-> primary.action, residual |-> primary.residual,
       canonical |-> primary.canonical, status |-> status, problem |-> Carried,
       forward |-> ForwardDigest(Carried, primary.action, primary.residual,
                                 primary.canonical, status),
       sens |-> {}, shadow |-> {}, replay |-> "none", attested |-> FALSE, level |-> 0]

\* The evidence that the stage attaches to it.
Project(primary, args, shadow) ==
  LET p == VerifiedProjection(primary)
  IN  Assemble([p EXCEPT !.sens = {SensitivityOf(a, p.forward) : a \in args},
                         !.shadow = {ShadowOf(primary, shadow, Carried)}])

\* The sensitivity of the demo is computed, and compared with finite differences;
\* the stage writes that the active set is stable as a constant.
DemoArgs == {a \in SensitivityArgs :
               /\ a.live /\ a.synthetic = "no" /\ a.fd # "absent" /\ a.stable = "yes"
               /\ a.metric # "finite" => a.fd = "no"}

\* _stage_projection_shadow_sensitivity
SolveStage ==
  /\ stage = "solve"
  /\ \/ UNCHANGED <<archiveVars, projection>>   \* the imports or the scenario fail
     \/ \E r \in Solves, x \in Solves, args \in Optional(DemoArgs) :
          /\ x.backend # r.backend
          /\ BuildNew(BuildBundle(r, args, {x}, FALSE, "absent"))
          /\ projection' = {Project(r, args, x)}
  /\ stage' = "replay" /\ UNCHANGED <<host, crossHost, rejected, promoted>>

\* _stage_cross_host_replay: the bundle is written and replayed on this host.
ReplayStage ==
  /\ stage = "replay" /\ stage' = "sign"
  /\ IF projection = {} THEN UNCHANGED <<file, projection, crossHost>>
     ELSE \E b \in bundle, p \in projection :
            LET passed == AllPassed(Replay(b))
            IN  /\ file' = {b}
                /\ projection' = {Assemble([p EXCEPT !.replay = IF passed THEN "passed" ELSE "failed"])}
                /\ crossHost' = IF passed THEN "ok" ELSE "failed"
  /\ UNCHANGED <<bundle, origin, claimed, faults, host, rejected, promoted>>

\* _stage_signed_manifest: the hashes are of the files just written.
SignStage ==
  /\ stage = "sign" /\ stage' = "reject"
  /\ projection' = {Assemble([p EXCEPT !.attested = TRUE]) : p \in projection}
  /\ UNCHANGED <<archiveVars, host, crossHost, rejected, promoted>>

\* _stage_corrupted_rejection: without a sensitivity nothing is incomplete.
RejectStage ==
  /\ stage = "reject" /\ stage' = "gate"
  /\ rejected' =
       UNION {(IF MachineChecks([b EXCEPT !.action = Shifted(@)], {b.action}).sealed
               THEN {} ELSE {"corrupted"})
              \cup (IF b.sens # {} /\ LevelConsistent([b EXCEPT !.sens = {}, !.level = 3])
                    THEN {} ELSE {"incomplete"}) : b \in bundle}
  /\ UNCHANGED <<archiveVars, host, projection, crossHost, promoted>>

\* MUTANT of DigestsRecompute: the forward digest is taken as it stands.
DigestsRecomputeNoForward(p) ==
  /\ p.problem = Carried
  /\ \A h \in p.shadow : h.problem = p.problem /\ h.copied = "no"
  /\ \A s \in p.sens : s.forward = p.forward /\ s.synthetic = "no"

\* _recompute_projection_digest_predicates
DigestsRecompute(p) ==
  /\ p.problem = Carried /\ p.forward = Recomputed(p)
  /\ \A h \in p.shadow : h.problem = p.problem /\ h.copied = "no"
  /\ \A s \in p.sens : s.forward = p.forward /\ s.synthetic = "no"

LevelPredicates(p) ==
  /\ DigestsRecompute(p) /\ p.status = "feasible"
  /\ ShadowQualifies(p) /\ SensitivityQualifies(p)
  /\ p.replay = "passed" /\ p.attested /\ p.level \in {3, 4}

\* evaluate_flagship_promotion_gate
GatePasses(projections, replayed, demonstrated, severalHosts) ==
  /\ \E p \in projections : LevelPredicates(p)
  /\ {"moreau", "cbf", "docs"} \subseteq host
  /\ severalHosts \/ replayed = "ok"
  /\ demonstrated = {"corrupted", "incomplete"}

GateStage ==
  /\ stage = "gate" /\ stage' = "done"
  /\ promoted' = IF GatePasses(projection, crossHost, rejected, FALSE) THEN {"demo"} ELSE {}
  /\ UNCHANGED <<archiveVars, host, projection, crossHost, rejected>>

\* A field of a projection is replaced before it is handed to the gate.
Tampered(p) ==
  {[p EXCEPT !.action = Shifted(@)], [p EXCEPT !.shadow = {}], [p EXCEPT !.sens = {}],
   [p EXCEPT !.sens = {[s EXCEPT !.forward = Foreign] : s \in @}],
   [p EXCEPT !.problem = Foreign], [p EXCEPT !.forward = Foreign],
   [p EXCEPT !.replay = "passed"]}
  \cup {[p EXCEPT !.residual = r] : r \in {"none", "nan", "small", "large"}}
  \cup {[p EXCEPT !.status = s] : s \in {"feasible", "infeasible", "unverified"}}
  \cup {[p EXCEPT !.level = l] : l \in 0..4}

Tamper ==
  /\ stage = "done" /\ faults < MaxFaults /\ faults' = faults + 1
  /\ \E p \in projection : \E q \in Tampered(p) \ {p} : projection' = {q}
  /\ UNCHANGED <<file, bundle, origin, claimed, stage, host, crossHost, rejected, promoted>>

\* probe_flagship_gate_for_training: the flags are what the caller says.
TrainingProbe ==
  /\ stage = "done" /\ stage' = "probed"
  /\ \E flags \in SUBSET {"corrupted", "incomplete"}, hosts \in BOOLEAN :
       promoted' = (promoted \ {"training"})
                   \cup (IF GatePasses(projection, crossHost, flags, hosts)
                         THEN {"training"} ELSE {})
  /\ UNCHANGED <<archiveVars, host, projection, crossHost, rejected>>

\* A bundle apart from the demo, or the demo's once it has ended.
Archive == /\ \/ stage = "none" /\ (BuildAny \/ Save \/ LoadFile \/ Corrupt)
              \/ stage = "done" /\ promoted = {} /\ (Save \/ LoadFile)
           /\ UNCHANGED demoVars

Next == \/ SolveStage \/ ReplayStage \/ SignStage \/ RejectStage \/ GateStage
        \/ Tamper \/ TrainingProbe \/ Archive

Spec == Init /\ [][Next]_vars
-----------------------------------------------------------------------------
\* When the gate passes, for the demo or for training, whatever flags the
\* caller gave and whatever fields Tampered replaced in the projection, then the
\* projection is what a verified solve would be recorded as: a feasible
\* action on the declared problem, an independent shadow on the same problem,
\* a live sensitivity of the very forward solution.  The demo's own gate
\* passes only when its bundle claims what the projection does, the file on
\* disk passes its replay, and a bundle that really was stripped of its
\* sensitivity was rejected.
GateIsEarned ==
  /\ "training" \in promoted \/ ("demo" \in promoted /\ faults = 0) =>
       \A p \in projection :
         /\ p.forward = Recomputed(p) /\ Classify(p) = "feasible"
         /\ InferLevel(p, FALSE) = 3 /\ ShadowQualifies(p)
  /\ "demo" \in promoted /\ faults = 0 =>
       \A b \in bundle, p \in projection :
         /\ b.level = p.level /\ b.action = p.action /\ file = {b}
         /\ AllPassed(Replay(b)) /\ b.sens # {}
         /\ ~AllPassed(Replay([b EXCEPT !.sens = {}]))
=============================================================================
