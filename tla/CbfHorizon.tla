----------------------------- MODULE CbfHorizon -----------------------------
(***************************************************************************)
(* The receding horizon of the safety filter (experimental/domains/        *)
(* cbf_rh.py) and the compiled batch of filters (cbf_2d.py).               *)
(*                                                                         *)
(* A call takes the state of the agent as observed, filters, applies the   *)
(* control and filters again, until the horizon or the first step without  *)
(* a control.  A batch solves several agents as one problem.               *)
(***************************************************************************)
EXTENDS CbfFilter, FiniteSets

CONSTANTS Scenes,      \* the cases calls are made for
          Modes, Baselines,
          Verdicts,    \* whether the stage-4 gate is asked, and what it says
          Horizons, Batches   \* the horizons, and the rows of batches

ASSUME HorizonAssumption ==
  /\ \A s \in Scenes : s \in Cases
  /\ \A h \in Horizons : h \in 1..8
  /\ \A b \in Batches : b # <<>> /\ b \in Seq(Cases)

VARIABLES
  phase,   \* "idle", "rolling", "returned", "blocked",
           \* "comparing", "batched"
  call,    \* the arguments of the call
  pos,     \* pos
  steps,   \* the RHStepRecords, each with the result of its filter
  neg,     \* RHNegativeRetention: indices of steps
  batch    \* what a batch call returned, or what made it raise

vars == <<phase, call, pos, steps, neg, batch>>

NoNegatives == [infeasible |-> {}, chatter |-> {}, violations |-> {}]

Calls == [scene : Scenes, mode : Modes, baseline : Baselines,
          horizon : Horizons, verdict : Verdicts]

NoBatch == [mode |-> "none", rows |-> <<>>, results |-> <<>>, alone |-> <<>>, raised |-> FALSE]

Init == /\ phase = "idle" /\ call = <<>> /\ pos = <<>>
        /\ steps = <<>> /\ neg = NoNegatives /\ batch = NoBatch
-----------------------------------------------------------------------------
\* The gate is not asked, or its evaluation says both.
Green(v) == v.asked => v.unblock_allowed /\ v.all_required_passed

\* run_receding_horizon_filter, up to the first step.
Start == /\ phase = "idle"
         /\ \E c \in Calls :
              /\ call' = c /\ pos' = c.scene.at
              /\ phase' = IF Green(c.verdict) THEN "rolling" ELSE "blocked"
         /\ UNCHANGED <<steps, neg, batch>>

\* MUTANT of Observed: the agent is filtered where it was when the call began.
ObservedAtStart == call.scene

\* The agent as the filter of this step sees it.
Observed == [call.scene EXCEPT !.at = pos]

\* _solve_step: a shadow solve changes no more than the name of the baseline.
StepResults == FilterResults(call.mode, Observed, call.baseline)

\* One turn of _run_trajectory.
Roll ==
  /\ phase = "rolling"
  /\ \E r \in StepResults :
       LET t == Len(steps)
           next == IF Feasible(r) THEN Plus(pos, r.u) ELSE pos
       IN  /\ steps' = Append(steps, [at |-> pos, next |-> next, result |-> r])
           /\ neg' = [infeasible |-> neg.infeasible \cup {i \in {t} : ~Feasible(r)},
                      chatter |-> neg.chatter \cup
                        {i \in {t} : t > 0 /\ r.active # steps[t].result.active},
                      violations |-> neg.violations \cup
                        {i \in {t} : ~Outside(next, call.scene)}]
           /\ pos' = next
           /\ phase' = IF ~Feasible(r) \/ t + 1 = call.horizon THEN "returned" ELSE "rolling"
  /\ UNCHANGED <<call, batch>>
-----------------------------------------------------------------------------
(***************************************************************************)
(* apply_cbf_filter_batch: one problem for all rows.  Its objective is a   *)
(* sum over the rows and no constraint joins two of them.                  *)
(***************************************************************************)

\* MUTANT of RowOf: the constraint of the first row for all.
RowOfFirst(rows, i) == [rows[i] EXCEPT !.center = rows[1].center, !.radius = rows[1].radius]

\* The row as _solve_nominal_compiled_batch and _solve_soc_compiled_batch
\* enter it into the problem.
RowOf(rows, i) == rows[i]

Joint(mode, rows) ==
  LET accurate == [i \in DOMAIN rows |-> Accurate(mode, RowOf(rows, i))]
      solved == \A i \in DOMAIN rows : accurate[i].status = "optimal"
  IN  {[i \in DOMAIN rows |-> IF solved THEN accurate[i]
                              ELSE [u |-> NaN, status |-> "infeasible"]]}
      \cup {[i \in DOMAIN rows |-> f] : f \in Failures}
      \cup {[i \in DOMAIN rows |-> [u |-> us[i], status |-> s]] :
              us \in [DOMAIN rows -> Rough], s \in {"optimal_inaccurate", "user_limit"}}

\* _row_from_batch_values: a row is verified against its own constraints, as
\* the control of one agent would be.
BatchRow(mode, rows, joint, i) == Result(mode, rows[i], joint[i])

Batch == /\ phase = "idle"
         /\ \E rows \in Batches, mode \in Modes : \E joint \in Joint(mode, rows) :
              batch' = [mode |-> mode, rows |-> rows, alone |-> <<>>, raised |-> FALSE,
                        results |-> [i \in DOMAIN rows |-> BatchRow(mode, rows, joint, i)]]
         /\ phase' = "comparing"
         /\ UNCHANGED <<call, pos, steps, neg>>

\* The rows are then filtered one after another, and compared: a row for which
\* either has no control is left out, and any other may raise.
Compare ==
  /\ phase = "comparing"
  /\ LET i == Len(batch.alone) + 1
     IN  \E r \in FilterResults(batch.mode, batch.rows[i], "public_solver_filter") :
           LET alone == Append(batch.alone, r)
               whole == Len(alone) = Len(batch.rows)
           IN  /\ batch' = [batch EXCEPT !.alone = alone, !.raised = whole /\
                   \E k \in DOMAIN alone : /\ Finite(batch.results[k].u) /\ Finite(alone[k].u)
                                           /\ batch.results[k].u # alone[k].u]
               /\ phase' = IF whole THEN "batched" ELSE "comparing"
  /\ UNCHANGED <<call, pos, steps, neg>>

Stopped == phase \in {"returned", "blocked", "batched"} /\ UNCHANGED vars

Next == Start \/ Roll \/ Batch \/ Compare \/ Stopped

Spec == Init /\ [][Next]_vars
-----------------------------------------------------------------------------
(***************************************************************************)
(* Correctness.                                                            *)
(***************************************************************************)

\* "h_dot + alpha h >= 0", "safe when h >= 0": a step by a control that passed its
\* verification leaves of the barrier what it should, at whatever place and by
\* whatever solver.  So, where alpha * dt is at most one, an agent that was
\* outside of the obstacle when the call began is outside after every step up
\* to the first whose control was rejected, however many they are, and until
\* then no violation is recorded.
BarrierKept ==
  \A i \in DOMAIN steps :
    /\ steps[i].result.passed => Keeps(call.scene, steps[i].at, steps[i].next)
    /\ /\ Num <= Den /\ Outside(call.scene.at, call.scene)
       /\ \A j \in 1..i : steps[j].result.passed
       => Outside(steps[i].next, call.scene) /\ i - 1 \notin neg.violations

\* The sufficient condition of the third stage suffices: wherever within
\* epsilon of the observed position the agent really is, a step by a control
\* that the robust filter verified leaves of the barrier there what it should;
\* from outside, where alpha * dt is at most one, it ends outside.
RobustCovers ==
  \A i \in DOMAIN steps :
    call.mode = "soc_robust_stage3_cbf" /\ steps[i].result.passed =>
      \A d \in Noise :
        LET true == Plus(steps[i].at, d) after == Plus(true, steps[i].result.u)
        IN  /\ Keeps(call.scene, true, after)
            /\ Num <= Den /\ Outside(true, call.scene) => Outside(after, call.scene)

\* "True compiled joint batch": where both were solved accurately, every row
\* has the control it gets alone and nothing raises; the rows that may be used
\* agree with those solved alone; and there is a control for each row or none.
BatchIsSequential ==
  phase = "batched" => \A i, j \in DOMAIN batch.rows :
    LET row == batch.results[i] alone == batch.alone[i]
    IN  /\ Finite(row.u) <=> Finite(batch.results[j].u)
        /\ row.status = "optimal" =>
             /\ row.passed /\ row.u = Nearest(batch.rows[i].wants, Allowed(batch.mode, batch.rows[i]))
             /\ (\A k \in DOMAIN batch.rows : batch.alone[k].status = "optimal") => ~batch.raised
        /\ row.status = "infeasible" => \E k \in DOMAIN batch.rows :
                                          Allowed(batch.mode, batch.rows[k]) = {}
        /\ ~batch.raised /\ row.passed /\ Finite(alone.u) => row.u = alone.u
=============================================================================
