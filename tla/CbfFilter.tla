------------------------------ MODULE CbfFilter ------------------------------
(***************************************************************************)
(* The safety filter of an agent that moves in the plane near a circular   *)
(* obstacle (experimental/domains/cbf_2d.py), and what is asked of its     *)
(* results elsewhere (cbf_corpus.py, infeasibility_taxonomy.py).           *)
(*                                                                         *)
(* Vectors are pairs of integers.  A control is the displacement of one    *)
(* step of the receding horizon, so alpha stands for alpha * dt, the       *)
(* fraction Num / Den, and residual tolerances are zero.  A case is an     *)
(* agent with its obstacle.  Shadow solves, norms and times are recorded   *)
(* by the code and decide nothing.                                         *)
(***************************************************************************)
EXTENDS Integers, Sequences

CONSTANTS Controls,   \* the controls an accurate solve may answer with
          Rough,      \* and those of one that is inaccurate or stops early
          Num, Den,   \* alpha * dt
          UMax2,      \* the square of u_max * dt
          Epsilon     \* the bound on the observation noise

\* validate_cbf_inputs bounds alpha, u_max and epsilon each by itself: a step of
\* the horizon may be coarser than 1 / alpha.
ASSUME CbfAssumption == /\ Controls \cup Rough \subseteq Int \X Int
                        /\ Num \in Nat /\ Den \in Nat \ {0}
                        /\ UMax2 \in Nat \ {0} /\ Epsilon \in Nat

Plane == Int \X Int
Cases == [at : Plane, wants : Plane, center : Plane, radius : Nat \ {0}]
NaN == <<>>
Finite(u) == u \in Plane
-----------------------------------------------------------------------------
Plus(v, w) == <<v[1] + w[1], v[2] + w[2]>>
Minus(v, w) == <<v[1] - w[1], v[2] - w[2]>>
Dot(v, w) == v[1] * w[1] + v[2] * w[2]

\* h(p): at least zero outside of the obstacle.
Barrier(p, case) == Dot(Minus(p, case.center), Minus(p, case.center))
                    - case.radius * case.radius
Outside(p, case) == Barrier(p, case) >= 0

\* What a step is to leave of the barrier: all but alpha * dt of it.  If that is
\* at most one, a step from outside of the obstacle ends outside.
Keeps(case, p, q) == Den * Barrier(q, case) >= (Den - Num) * Barrier(p, case)

\* cbf_affine_constraint: a.u - b, times Den.
Slack(case, u) ==
  Den * (2 * Dot(Minus(case.at, case.center), u)) + Num * Barrier(case.at, case)

\* x >= sqrt(r) + sqrt(s), and x > sqrt(r) + sqrt(s); a sum is at least twice
\* the root of the product, which keeps the squares small.
AtLeastRoots(x, r, s) ==
  LET y == x * x - r - s IN x >= 0 /\ y >= 0 /\ (y >= r + s \/ y * y >= 4 * r * s)
BeyondRoots(x, r, s) ==
  LET y == x * x - r - s IN x > 0 /\ y >= 0 /\ (y > r + s \/ y * y > 4 * r * s)

\* The squares of 2 eps |u| and alpha 2 eps |p - c|, times Den.
NoiseOfControl(u) == 4 * Den * Den * Epsilon * Epsilon * Dot(u, u)

\* MUTANT of NoiseOfBarrier: the barrier is taken at the observed position.
NoiseOfBarrierNone(case) == 0

NoiseOfBarrier(case) ==
  4 * Num * Num * Epsilon * Epsilon
    * Dot(Minus(case.at, case.center), Minus(case.at, case.center))

\* robust_cbf_soc_constants: a.u - 2 eps |u| >= b_rob.
RobustHolds(case, u) ==
  AtLeastRoots(Slack(case, u) - Num * Epsilon * Epsilon,
               NoiseOfControl(u), NoiseOfBarrier(case))
RobustLoose(case, u) ==
  BeyondRoots(Slack(case, u) - Num * Epsilon * Epsilon,
              NoiseOfControl(u), NoiseOfBarrier(case))

\* validate_robust_cbf_control, which needs no roots: the constraint at the
\* worst of all places the agent may be at.
Noise == {d \in (-Epsilon..Epsilon) \X (-Epsilon..Epsilon) : Dot(d, d) <= Epsilon * Epsilon}
RobustnessHolds(case, u) == \A d \in Noise : Slack([case EXCEPT !.at = Plus(@, d)], u) >= 0

Holds(mode, case, u) == IF mode = "soc_robust_stage3_cbf" THEN RobustHolds(case, u)
                                                         ELSE Slack(case, u) >= 0
-----------------------------------------------------------------------------
(***************************************************************************)
(* The solver, called through CVXPY: an accurate solve finds the allowed   *)
(* control nearest to the desired one, which is unique, or that there is   *)
(* none; an inaccurate one any control; it may stop at a limit with a      *)
(* control, or fail.                                                       *)
(***************************************************************************)
Allowed(mode, case) == {u \in Controls : Dot(u, u) <= UMax2 /\ Holds(mode, case, u)}

Distance2(v, w) == Dot(Minus(v, w), Minus(v, w))
Nearest(v, S) == CHOOSE u \in S : \A w \in S : Distance2(u, v) <= Distance2(w, v)

Failures == {[u |-> NaN, status |-> s] : s \in {"error", "infeasible_inaccurate"}}
Accurate(mode, case) ==
  IF Allowed(mode, case) = {} THEN [u |-> NaN, status |-> "infeasible"]
  ELSE [u |-> Nearest(case.wants, Allowed(mode, case)), status |-> "optimal"]

\* _solve_nominal_cbf_qp and _solve_soc_robust_cbf_qp
Answers(mode, case) ==
  {Accurate(mode, case)} \cup Failures
  \cup [u : Rough, status : {"optimal_inaccurate", "user_limit"}]
-----------------------------------------------------------------------------
\* _map_status
MapStatus(status) ==
  CASE status \in {"optimal", "optimal_inaccurate"} -> "optimal"
    [] status \in {"infeasible", "infeasible_inaccurate"} -> "infeasible"
    [] status = "unavailable" -> "unavailable"
    [] status = "error" -> "numerical_failure"
    [] OTHER -> "unknown"

\* verify_cbf_candidate: the affine constraint is looked at in both modes.
Passed(mode, case, u, status) ==
  /\ Finite(u) /\ MapStatus(status) = "optimal"
  /\ Dot(u, u) <= UMax2 /\ Slack(case, u) >= 0 /\ Holds(mode, case, u)

Decision(passed, u, status) ==
  IF passed THEN "experimental_only"
  ELSE IF Finite(u) /\ MapStatus(status) = "unavailable" THEN "fallback" ELSE "reject"

Active(mode, case, u) ==
  IF ~Finite(u) THEN {}
  ELSE {c \in {"cbf", "cbf_soc_robust", "u_max"} :
          \/ c = "cbf" /\ mode # "soc_robust_stage3_cbf" /\ Slack(case, u) <= 0
          \/ c = "cbf_soc_robust" /\ mode = "soc_robust_stage3_cbf" /\ ~RobustLoose(case, u)
          \/ c = "u_max" /\ Dot(u, u) = UMax2}

\* A CBFFilterResult.
Result(mode, case, ans) ==
  LET passed == Passed(mode, case, ans.u, ans.status)
  IN  [u |-> ans.u, status |-> ans.status, canonical |-> MapStatus(ans.status),
       barrier |-> Barrier(case.at, case), passed |-> passed,
       decision |-> Decision(passed, ans.u, ans.status),
       active |-> Active(mode, case, ans.u)]

\* The desired control untouched: the status "no_filter" is not one that
\* verification accepts, and the robust filter does not ask it.
Unfiltered(mode, case) ==
  [Result("nominal_stage1_cbf", case, [u |-> case.wants, status |-> "no_filter"])
     EXCEPT !.canonical = "optimal",
            !.active = IF mode = "soc_robust_stage3_cbf" THEN {} ELSE @,
            !.decision = IF mode = "soc_robust_stage3_cbf" THEN "experimental_only" ELSE @]

\* _unavailable_baseline_result: Moreau's and the smoothed filter.
Unavailable(case) ==
  [Result("nominal_stage1_cbf", case, [u |-> NaN, status |-> "unavailable"])
     EXCEPT !.decision = "fallback"]

\* apply_cbf_filter and apply_cbf_filter_soc_robust
FilterResults(mode, case, baseline) ==
  IF baseline = "no_filter" THEN {Unfiltered(mode, case)}
  ELSE IF baseline \in {"moreau_filter", "exact_vs_smoothed"} THEN {Unavailable(case)}
  ELSE {Result(mode, case, ans) : ans \in Answers(mode, case)}
-----------------------------------------------------------------------------
(* Three places that ask whether a result can be used.                     *)

\* MUTANT of Feasible: a value is enough.
FeasibleByValue(r) == Finite(r.u)

\* _run_trajectory: the verification is not asked.
Feasible(r) ==
  /\ r.canonical = "optimal" \/ r.status \in {"optimal", "optimal_inaccurate", "no_filter"}
  /\ Finite(r.u)

\* evaluate_held_out_nominal and the recount of the stage-4 gate.
Solved(r) == r.status \in {"optimal", "optimal_inaccurate"} /\ Finite(r.u)

\* classify_filter_result: all but the first two classes are failures.
Classify(r) ==
  IF Finite(r.u) /\ r.status = "optimal_inaccurate" THEN "feasible_inaccurate"
  ELSE IF Finite(r.u) /\ "optimal" \in {r.status, r.canonical} THEN "feasible_optimal"
  ELSE CASE r.canonical = "unavailable" -> "backend_unavailable"
         [] r.canonical = "infeasible" -> IF r.barrier <= 0 THEN "near_infeasible_geometry"
                                                            ELSE "declared_infeasible"
         [] r.canonical = "numerical_failure" -> "numerical_failure"
         [] OTHER -> IF Finite(r.u) THEN "unexplained"
                     ELSE IF r.barrier < 0 THEN "near_infeasible_geometry"
                     ELSE "non_finite_action"
=============================================================================
