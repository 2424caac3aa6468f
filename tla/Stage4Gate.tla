----------------------------- MODULE Stage4Gate -----------------------------
(***************************************************************************)
(* The gate in front of the receding horizon (experimental/domains/        *)
(* stage4_gate.py): six criteria, each of which runs the filters again, on *)
(* the demo scenes and on the corpus of held-out and stress cases.         *)
(***************************************************************************)
EXTENDS CbfHorizon, FiniteSetsExt

CONSTANTS Demo,          \* the scene of the demos of stages 1 and 3
          DemoBatch,     \* the rows of the demo of stage 2
          HeldOut,       \* held_out_nominal_cases
          Stress,        \* the other cases, with the filters probed on each
          Present,       \* the values of CBF_MANIFEST_PATH.is_file()
          MinHeldOut,    \* MIN_HELD_OUT_NOMINAL
          Forced         \* the values of force_pending

\* The two criteria that read the corpus may be forced, and any other.
ASSUME GateAssumption ==
  /\ HeldOut \in Seq(Cases) /\ MinHeldOut \in Nat
  /\ \A f \in Forced : f \subseteq 1..6

VARIABLE gate  \* the local variables of evaluate_stage4_gate

Checklist == <<"stage1", "stage2", "stage3", "disagreement", "held_out", "unexplained">>

NoGate == [now |-> 0, forced |-> {}, status |-> <<>>, count |-> 0,
           held |-> {}, bad |-> 0, unexplained |-> 0, verdict |-> <<>>,
           raised |-> FALSE, corpus |-> FALSE]

GateInit == gate = NoGate

Filtered(mode, case) == FilterResults(mode, case, "public_solver_filter")
Nominal == "nominal_stage1_cbf"
Robust == "soc_robust_stage3_cbf"

Ask == /\ gate = NoGate
       /\ \E f \in Forced, c \in Present :
            gate' = [NoGate EXCEPT !.now = 1, !.forced = f, !.corpus = c]

\* A criterion is decided: the next one begins with locals of its own.
Decided(g, s) ==
  [g EXCEPT !.now = @ + 1, !.status = Append(@, s), !.count = 0, !.bad = 0, !.unexplained = 0]

At(criterion) ==
  /\ gate.now \in DOMAIN Checklist /\ Checklist[gate.now] = criterion
  /\ gate.now \notin gate.forced

Mark(ok) == IF ok THEN "pass" ELSE "fail"

ForcedPending == /\ gate.now \in gate.forced
                 /\ gate' = Decided(gate, "pending")

StageOne == /\ At("stage1")
            /\ \E r \in Filtered(Nominal, Demo) : gate' = Decided(gate, Mark(Solved(r)))

\* demo_stage2_batch, which compares the rows with those solved alone.
BatchDemos ==
  {[rows |-> [k \in {1, 2} |-> BatchRow(Nominal, DemoBatch, joint, k)],
    raised |-> \E k \in {1, 2} : /\ Finite(joint[k].u) /\ Finite(alone[k].u)
                                 /\ joint[k].u # alone[k].u] :
     joint \in Joint(Nominal, DemoBatch),
     alone \in Filtered(Nominal, DemoBatch[1]) \X Filtered(Nominal, DemoBatch[2])}

Raised == [NoGate EXCEPT !.raised = TRUE]

\* What its metrics say is never negative.
StageTwo ==
  /\ At("stage2")
  /\ \E b \in BatchDemos :
       gate' = IF b.raised THEN Raised ELSE Decided(gate, Mark(Len(DemoBatch) >= 2))

\* The status of the robust filter is not asked.
StageThree == /\ At("stage3")
              /\ \E r \in Filtered(Robust, Demo) : gate' = Decided(gate, Mark(Finite(r.u)))

\* stage3_disagreement_under_perturbation: whether its distance is neither NaN
\* nor zero, which is read as none, and whether the robust control is there to
\* be validated.
FiltersApart == {[apart |-> Finite(n.u) /\ Finite(r.u) /\ n.u # r.u, validated |-> Finite(r.u)] :
                   n \in Filtered(Nominal, Demo), r \in Filtered(Robust, Demo)}

\* Both solves for the worst noise may fail, which raises.
Disagreement == /\ At("disagreement")
                /\ \E c \in FiltersApart :
                     \/ gate' = Decided(gate, Mark(c.apart))
                     \/ /\ c.validated
                        /\ gate' = Raised

Missing == /\ ~gate.corpus /\ (At("held_out") \/ At("unexplained"))
           /\ gate' = Decided(gate, "pending")

\* evaluate_held_out_nominal, one case after another; the margins of the cases
\* with a control are compared with zero.
EvaluateHeldOut ==
  /\ gate.corpus /\ At("held_out") /\ gate.count < Len(HeldOut)
  /\ LET case == HeldOut[gate.count + 1]
     IN  \E r \in Filtered(Nominal, case) :
           gate' = [gate EXCEPT !.count = @ + 1,
                      !.bad = @ + (IF Solved(r) THEN 0 ELSE 1),
                      !.held = IF Finite(r.u) THEN @ \cup {[case |-> case, result |-> r]} ELSE @]

\* What was held is kept if the criterion passes.
HeldOutMargins ==
  /\ gate.corpus /\ At("held_out") /\ gate.count = Len(HeldOut)
  /\ LET enough == Len(HeldOut) >= MinHeldOut
         good == gate.bad = 0 /\ \A h \in gate.held : Slack(h.case, h.result.u) >= 0
     IN  gate' = [Decided(gate, IF enough THEN Mark(good) ELSE "pending")
                    EXCEPT !.held = IF enough /\ good THEN @ ELSE {}]

\* probe_cbf_filter_bank: the demos, of which the batch counts as its rows, and
\* every case, the held-out ones and those near the obstacle robustly too.
Probes ==
  <<[mode |-> Nominal, case |-> Demo], [mode |-> "batch", case |-> DemoBatch],
    [mode |-> Robust, case |-> Demo]>>
  \o [i \in DOMAIN HeldOut |-> [mode |-> Nominal, case |-> HeldOut[i]]]
  \o [i \in DOMAIN HeldOut |-> [mode |-> Robust, case |-> HeldOut[i]]]
  \o Stress

\* audit_infeasibility, and then the recount of the held-out cases.
Audit ==
  /\ gate.corpus /\ At("unexplained") /\ gate.count < Len(Probes)
  /\ LET probe == Probes[gate.count + 1]
     IN  /\ probe.mode # "batch"
         /\ \E r \in Filtered(probe.mode, probe.case) :
              gate' = [gate EXCEPT !.count = @ + 1,
                         !.unexplained = @ + (IF Classify(r) = "unexplained" THEN 1 ELSE 0)]

\* The demo of the batch may raise here too.
AuditBatch ==
  /\ gate.corpus /\ At("unexplained") /\ gate.count < Len(Probes)
  /\ Probes[gate.count + 1].mode = "batch"
  /\ \E b \in BatchDemos :
       gate' = IF b.raised THEN Raised
               ELSE [gate EXCEPT !.count = @ + 1, !.unexplained =
                       @ + Cardinality({k \in DOMAIN b.rows : Classify(b.rows[k]) = "unexplained"})]

Recount ==
  /\ gate.corpus /\ At("unexplained")
  /\ gate.count \in Len(Probes)..(Len(Probes) + Len(HeldOut) - 1)
  /\ \E r \in Filtered(Nominal, HeldOut[gate.count - Len(Probes) + 1]) :
       gate' = [gate EXCEPT !.count = @ + 1,
                  !.bad = @ + (IF Solved(r) THEN 0 ELSE 1)]

\* Both rates are at most a twentieth.
Unexplained ==
  /\ gate.corpus /\ At("unexplained") /\ gate.count = Len(Probes) + Len(HeldOut)
  /\ gate' = Decided(gate, Mark(/\ 20 * gate.bad <= Max({Len(HeldOut), 1})
                                /\ 20 * gate.unexplained <= Len(Probes) - 1 + Len(DemoBatch)))

\* The evaluation: RH_IMPLEMENTED is true, and what is kept is the verdict.
Green4 == \A i \in DOMAIN gate.status : gate.status[i] = "pass"
Conclude ==
  /\ gate.now = Len(Checklist) + 1 /\ gate.verdict = <<>>
  /\ gate' = [gate EXCEPT !.verdict = <<[asked |-> TRUE, unblock_allowed |-> Green4,
                                         all_required_passed |-> Green4]>>]

GateStep == \/ Ask \/ ForcedPending \/ StageOne \/ StageTwo \/ StageThree \/ Disagreement
            \/ Missing \/ EvaluateHeldOut \/ HeldOutMargins \/ Audit \/ AuditBatch \/ Recount
            \/ Unexplained \/ Conclude

\* run_receding_horizon_filter asks the gate, if it does, before its first step.
GatedStart ==
  /\ Start
  /\ call'.verdict.asked => gate.verdict = <<call'.verdict>>
  /\ gate' = NoGate

GatedNext == \/ GateStep /\ phase = "idle" /\ UNCHANGED vars
             \/ GatedStart
             \/ Roll /\ gate' = gate
             \/ Batch /\ gate' = gate /\ gate = NoGate
             \/ Compare /\ gate' = gate
             \/ /\ Stopped \/ (gate.raised /\ UNCHANGED vars)
                /\ gate' = gate
-----------------------------------------------------------------------------
(***************************************************************************)
(* Correctness.                                                            *)
(***************************************************************************)

\* One meaning of feasible: for every result of a held-out case, of a step
\* and of a row, the loop, the taxonomy and the gate agree whether it
\* can be used, verified ones can, and the one failure without an explanation
\* is a control left by a solver's limit.  A robust control that verification
\* passed is one its independent validation confirms.  And a green gate speaks
\* for the loop: what it saw of the held-out cases the loop would have rolled, and
\* the step would have left of the barrier what it should.
GateSpeaksForLoop ==
  /\ \A r \in {steps[i].result : i \in DOMAIN steps}
             \cup {batch.results[i] : i \in DOMAIN batch.rows} \cup {h.result : h \in gate.held} :
       /\ Feasible(r) <=> Solved(r) \/ r.status = "no_filter"
       /\ Feasible(r) <=> Classify(r) \in {"feasible_optimal", "feasible_inaccurate"}
       /\ r.passed => Feasible(r)
       /\ Classify(r) = "unexplained" <=> r.status = "user_limit"
  /\ \A i \in DOMAIN steps :
       call.mode = Robust /\ steps[i].result.passed =>
         RobustnessHolds([call.scene EXCEPT !.at = steps[i].at], steps[i].result.u)
  /\ gate.verdict # <<>> =>
       (gate.verdict[1].all_required_passed =>
          /\ {h.case : h \in gate.held} = {HeldOut[i] : i \in DOMAIN HeldOut}
          /\ \A h \in gate.held :
               /\ Feasible(h.result)
               /\ Keeps(h.case, h.case.at, Plus(h.case.at, h.result.u)))
=============================================================================
