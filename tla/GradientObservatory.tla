------------------------ MODULE GradientObservatory ------------------------
(***************************************************************************)
(* Derivatives of the projection (experimental/gradients): the observatory *)
(* that differentiates a verified solve by finite differences, by the KKT  *)
(* system and by the backends of the vendor and of the frameworks, and the *)
(* study of the agreement of the KKT derivative with finite differences.   *)
(*                                                                         *)
(* Two actions have a fixed sum, so a solution is one number, the first    *)
(* action less the second; every row of the constraints limits it on one   *)
(* side, and the projection brings the number of the proposal between the  *)
(* limits.  A derivative is what this number gains when that of the        *)
(* proposal gains one; a finite difference is kept with its denominator    *)
(* multiplied out.  The weight of the reference is its default, zero.  A   *)
(* solver may end inaccurately: its answer keeps the sum, and misses the   *)
(* number of the projection by an error.                                   *)
(***************************************************************************)
EXTENDS Integers, Sequences, FiniteSets, FiniteSetsExt

CONSTANTS Proposals,    \* the arguments of observe_proposed_action_fd
          Corpora,   \* the scenarios of the agreement study
          Hosts,     \* what a host has: "backward", "torch", "jax"
          H,         \* h, the step of the differences
          Tol,       \* _ACTIVE_TOL, the tolerance of the labels too
          Residual,  \* DEFAULT_RESIDUAL_TOLERANCE of the gate
          Weak,      \* _WEAK_BAND
          ProbeH,    \* _PROBE_H
          Grid       \* default_log_grid

ASSUME StepsAreOrdered == /\ ProbeH \in Nat \ {0} /\ Tol \in Nat /\ H \in Nat
                          /\ Residual \in Nat /\ Weak \in Nat
                          /\ ProbeH < Tol /\ Tol < H /\ H < Weak

\* An observation: the spec, the proposal and the previous action, how the
\* solvers end on it, and the targets that are asked for.  The solve of a number
\* in s.fails has no answer; one in s.stopped is ended by a limit, as
\* "user_limit"; <<t, e>> in s.errors is an "optimal_inaccurate" one, off by e.
Arguments == [at : Int, total : Int, lower : Int, upper : Int, delta : Int, previous : Int,
              masked : BOOLEAN, fails : SUBSET Int, stopped : SUBSET Int,
              errors : SUBSET (Int \X Int), weighted : BOOLEAN,
              moved : {<<<<"none", 0>>, 0>>}, pull : Int,
              targets : SUBSET {"previous_action", "box_bounds", "policy_weight",
                                "reference_action", "reference_weight"},
              native : {"ok", "raises", "not_finite"},
              newton : {"converged", "not_converged", "raises"}]

ASSUME ArgumentsAssumption == /\ Proposals \subseteq Arguments
                              /\ Corpora \subseteq Seq(Arguments)

VARIABLES scene,   \* the arguments of the observation, <<>> before
          doing,   \* what comes next: "none", then the stages in their order
          obs,     \* the ObservatoryReport as it is filled
          rows     \* the rows of the agreement study

gradVars == <<scene, doing, obs, rows>>
-----------------------------------------------------------------------------
(***************************************************************************)
(* The projection and its labels.                                          *)
(***************************************************************************)
Row(family, index, side, at) == [family |-> family, index |-> index, side |-> side, at |-> at]

\* _spec_with_box_bounds, or another previous action: the rows of a bound are
\* moved.  The bounds of one action move the number one way, of the other the
\* other way, by twice as much.
Moved(s, bound, by) ==
  [s EXCEPT !.moved = <<bound, IF bound[2] = 1 THEN 2 * by ELSE -2 * by>>]

\* The box, the rate and the mask, per action, where nothing is moved.
Declared(s) ==
  {Row("rate", i, "low", s.previous - 2 * s.delta) : i \in {1, 2}}
  \cup {Row("rate", i, "high", s.previous + 2 * s.delta) : i \in {1, 2}}
  \cup {Row("box_lower", 1, "low", 2 * s.lower - s.total), Row("box_lower", 2, "high", s.total - 2 * s.lower),
        Row("box_upper", 1, "high", 2 * s.upper - s.total), Row("box_upper", 2, "low", s.total - 2 * s.upper)}
  \cup (IF s.masked THEN {Row("turn_feasibility", 2, side, s.total) : side \in {"low", "high"}} ELSE {})

Rows(s) == {IF s.moved[1] = <<r.family, r.index>> THEN [r EXCEPT !.at = @ + s.moved[2]] ELSE r :
              r \in Declared(s)}

Lowest(s) == Max({r.at : r \in {q \in Rows(s) : q.side = "low"}})
Highest(s) == Min({r.at : r \in {q \in Rows(s) : q.side = "high"}})

\* By how much the solve of a number misses: not at all, where it is accurate.
Error(s, t) ==
  LET e == {p[2] : p \in {q \in s.errors : q[1] = t}}
  IN  IF e = {} THEN 0 ELSE CHOOSE x \in e : TRUE

\* project of a projector made for the call: no point where nothing is
\* feasible or the solver fails.
Project(s, t) ==
  IF Lowest(s) > Highest(s) \/ t \in s.fails THEN <<>>
  ELSE <<Max({Lowest(s), Min({t, Highest(s)})}) + Error(s, t)>>

Distance(r, x) == IF r.side = "low" THEN x - r.at ELSE r.at - x

\* active_constraints: families only, whichever side they limit.
ActiveSet(s, t) ==
  LET y == Project(s, t)
  IN  {r.family : r \in {q \in Rows(s) : y # <<>> /\ Distance(q, y[1]) <= Tol}}

\* The violations of all rows, added up.
ResidualOf(s, x) == MapThenSumSet(LAMBDA r : Max({0, -Distance(r, x)}), Rows(s))

\* verify_forward_projection: a finite answer that satisfies the constraints.
\* Whether it is the optimal one, or the solver was stopped, it does not ask.
Verified(s) == LET y == Project(s, s.at) IN y # <<>> /\ ResidualOf(s, y[1]) <= Residual
-----------------------------------------------------------------------------
(***************************************************************************)
(* active_set_protocol and finite_difference.                              *)
(***************************************************************************)

\* MUTANT of ClassOf: the base is compared with the plus side only.
ClassOfPlus(base, plus, minus) == IF plus = base THEN "stable" ELSE "one_sided"

\* classify_active_set_transition.
ClassOf(base, plus, minus) ==
  CASE plus = base /\ minus = base -> "stable"
    [] plus # base /\ minus # base -> IF plus = minus THEN "ambiguous" ELSE "two_sided"
    [] OTHER -> "one_sided"

\* probe_active_set_transition_all_coords: the second action, raised, lowers
\* the number, so that its class is that of the first.
Transition(s, t, h) == ClassOf(ActiveSet(s, t), ActiveSet(s, t + h), ActiveSet(s, t - h))

\* The differences of the first action and of the second, over 2h and over h.
\* One that raises the second action looks at the minus side.
Differences(s, t, h) ==
  LET base == Project(s, t) plus == Project(s, t + h) minus == Project(s, t - h)
  IN  [failed |-> <<>> \in {base, plus, minus},
       changed |-> base # <<>> /\ \E u \in {t + h, t - h} : /\ Project(s, t + h) # <<>>
                     /\ Project(s, t - h) # <<>> /\ ActiveSet(s, u) # ActiveSet(s, t),
       central |-> IF <<>> \in {base, plus, minus} THEN 0 ELSE plus[1] - minus[1],
       onesided |-> IF <<>> \in {base, plus, minus} THEN <<0, 0>>
                    ELSE <<plus[1] - base[1], base[1] - minus[1]>>]

\* run_step_size_study: a sample is stable if it agrees with the neighbour and
\* the labels are those of the base; two differences agree if their ratios do,
\* and half of the grid's geometric mean parts truncation from noise.
Neighbour(ok, i) == IF i > 1 /\ i - 1 \in ok THEN i - 1
                    ELSE IF i + 1 \in ok THEN i + 1 ELSE 0
Regime(s, i) ==
  LET d == [k \in DOMAIN Grid |-> Differences(s, s.at, Grid[k])]
      ok == {k \in DOMAIN Grid : ~d[k].failed}
      n == Neighbour(ok, i)
  IN  CASE i \notin ok -> "failed"
        [] i \in ok /\ n = 0 -> "unknown"
        [] i \in ok /\ n # 0 /\ d[i].central * Grid[n] = d[n].central * Grid[i] /\ ~d[i].changed -> "stable"
        [] OTHER -> IF 4 * Grid[i] * Grid[i] >= Grid[1] * Grid[Len(Grid)] THEN "truncation" ELSE "noise"
-----------------------------------------------------------------------------
(***************************************************************************)
(* exact_research_kkt_jacobian.                                            *)
(***************************************************************************)

\* The rows of the KKT system: a masked action has its own row and no box.
KktRows(s) == {r \in Rows(s) : ~(s.masked /\ r.index = 2 /\ r.family \in {"box_lower", "box_upper"})}
ActiveRows(s, x) ==
  {<<r.family, r.index, IF r.family = "turn_feasibility" THEN "both" ELSE r.side>> :
     r \in {q \in KktRows(s) : q.family = "turn_feasibility" \/ Distance(q, x) <= Tol}}
Degenerate(s, x) == \E r \in KktRows(s) : /\ r.family # "turn_feasibility"
                                          /\ Distance(r, x) > Tol /\ Distance(r, x) < Weak

Infeasible(s, x) == \E r \in KktRows(s) : r.family # "turn_feasibility" /\ Distance(r, x) < -Tol

\* What it refuses for, in the order of the code; a row found infeasible and one
\* found degenerate end alike, whichever comes first.  A status only has to
\* contain "optimal", as "optimal_inaccurate" does, and that of the probe is not
\* asked.  A row is independent of the sum and of nothing else; the probe
\* raises the first action.
Reason(s) ==
  LET y == Project(s, s.at)
      probe == Project(s, s.at + ProbeH)
  IN  IF ~s.weighted THEN "not_positive"
      ELSE IF y = <<>> \/ s.at \in s.stopped THEN "not_optimal"
      ELSE IF Infeasible(s, y[1]) THEN "infeasible"
      ELSE IF Degenerate(s, y[1]) THEN "degenerate"
      ELSE IF Cardinality(ActiveRows(s, y[1])) > 1 THEN "redundant"
      ELSE IF probe = <<>> THEN "probe_failed"
      ELSE IF \/ Infeasible(s, probe[1]) \/ Degenerate(s, probe[1])
              \/ ActiveRows(s, probe[1]) # ActiveRows(s, y[1])
           THEN "active_set_change" ELSE "ok"

Kkt(s) == [reason |-> Reason(s),
           jacobian |-> IF Reason(s) = "ok" /\ ActiveRows(s, Project(s, s.at)[1]) = {} THEN 1 ELSE 0]
-----------------------------------------------------------------------------
(***************************************************************************)
(* The backends.  The vendor's derivative is external; s.native is how the *)
(* vendor's solve and backward pass end, s.newton how Newton's method ends *)
(* on the softened problem.                                                *)
(***************************************************************************)

\* exact_backend_gradient.
ExactBackend(s, host) == "backward" \in host /\ s.weighted /\ s.native = "ok"

\* smoothed_backend_gradient: Newton's method must have converged.
SmoothedBackend(s, host) ==
  "backward" \in host /\ s.weighted /\ s.native # "raises" /\ s.newton = "converged"

\* _softplus_jacobian_numpy does not ask whether Newton's method converged.
Softplus(s) == s.newton # "raises"

\* run_pytorch_autograd and run_jax_autodiff, of the softened problem.
Torch(s, host) == "torch" \in host /\ Softplus(s)
Jax(s, host) == "jax" \in host /\ Softplus(s)

\* The soft solution of run_smoothed_study; its fall-back does not ask for
\* convergence either.
Softened(s, host) == SmoothedBackend(s, host) \/ Softplus(s)

\* A row of the study; the digest names the softening.
SmoothedRow(s, host) ==
  LET soft == Softened(s, host)
  IN  [available |-> soft, distinct |-> soft,
       class |-> IF soft THEN Transition(s, s.at, H) ELSE "none",
       compared |-> soft /\ Transition(s, s.at, H) = "stable"]
-----------------------------------------------------------------------------
(***************************************************************************)
(* observe_proposed_action_fd.                                             *)
(***************************************************************************)
NoReport == [host |-> {}, verified |-> FALSE, class |-> "none", differences |-> <<>>,
             targets |-> <<>>, native |-> FALSE, smoothed |-> FALSE, frameworks |-> {},
             kkt |-> <<>>, regimes |-> <<>>, study |-> <<>>, legacy |-> <<>>]

GradInit == scene = <<>> /\ doing = "none" /\ obs = NoReport /\ rows = <<>>

\* The stages in their order; the KKT derivative and two studies are optional.
After(stage) ==
  CASE stage = "probe" -> {"differences"} [] stage = "differences" -> {"targets"}
    [] stage = "targets" -> {"backends"}
    [] stage = "backends" -> {"kkt", "steps", "smooth", "legacy"}
    [] stage = "kkt" -> {"steps", "smooth", "legacy"} [] stage = "steps" -> {"smooth", "legacy"}
    [] stage = "smooth" -> {"legacy"} [] stage = "legacy" -> {"observed"}

\* The projection of the proposal and the gate: without a verified forward
\* there is nothing but the report that says so.
Observe == /\ doing = "none" /\ rows = <<>>
           /\ \E s \in Proposals, host \in Hosts :
                /\ scene' = s
                /\ obs' = [NoReport EXCEPT !.host = host, !.verified = Verified(s)]
                /\ doing' = IF Verified(s) THEN "probe" ELSE "observed"
           /\ UNCHANGED rows

Stage(name, report) == /\ doing = name /\ obs' = report /\ doing' \in After(name)
                       /\ UNCHANGED <<scene, rows>>

Probe == Stage("probe", [obs EXCEPT !.class = Transition(scene, scene.at, H)])

\* run_central_fd and run_one_sided_fd.
Differentiate == Stage("differences", [obs EXCEPT !.differences = <<Differences(scene, scene.at, H)>>])

Gain(plus, minus) == IF <<>> \in {plus, minus} THEN <<>> ELSE <<plus[1] - minus[1]>>

BoundsOf(target) == CASE target = "previous_action" -> {"rate"} \X {1, 2}
                      [] target = "box_bounds" -> {"box_lower", "box_upper"} \X {1, 2}

\* The central differences of a target, by parameter.  While the weight of the
\* reference is zero neither the reference nor the weight of the policy counts;
\* and it cannot be less, so that one side of its own difference is the base.
\* Raised by a step, it pulls the proposal by s.pull.
Columns(s, target) ==
  CASE target \in {"previous_action", "box_bounds"} ->
         [b \in BoundsOf(target) |-> Gain(Project(Moved(s, b, H), s.at), Project(Moved(s, b, -H), s.at))]
    [] target = "reference_weight" ->
         [b \in {<<target, 1>>} |-> Gain(Project(s, s.at + s.pull), Project(s, s.at))]
    [] target \in {"reference_action", "policy_weight"} -> [b \in {<<target, 1>>} |-> <<0>>]

\* differentiate_target_central_fd of the five other targets; a difference that
\* fails leaves its target without a derivative.
Differentiated(s, target) ==
  LET c == Columns(s, target)
  IN  IF (target = "policy_weight" /\ ~s.weighted) \/ \E b \in DOMAIN c : c[b] = <<>>
      THEN <<>> ELSE <<c>>

Targets == Stage("targets", [obs EXCEPT !.targets =
             [t \in scene.targets |-> Differentiated(scene, t)]])

Backends == Stage("backends", [obs EXCEPT !.native = ExactBackend(scene, obs.host),
              !.smoothed = SmoothedBackend(scene, obs.host),
              !.frameworks = {f \in {"torch"} : Torch(scene, obs.host)}
                             \cup {f \in {"jax"} : Jax(scene, obs.host)}])

ResearchKkt == Stage("kkt", [obs EXCEPT !.kkt = <<Kkt(scene)>>])

StepSizes == Stage("steps", [obs EXCEPT !.regimes = [i \in DOMAIN Grid |-> Regime(scene, i)]])

Smoothed == Stage("smooth", [obs EXCEPT !.study = <<SmoothedRow(scene, obs.host)>>])

\* The old fields are computed again, and given the digests of the forward.
Legacy == Stage("legacy", [obs EXCEPT !.legacy = <<ExactBackend(scene, obs.host),
                                                   SmoothedBackend(scene, obs.host)>>])
-----------------------------------------------------------------------------
(***************************************************************************)
(* run_agreement_study, whose rows ask for no verified forward.            *)
(***************************************************************************)

\* _classify_kkt_failure, from the words of the reason.
FailureOf(reason, changed) ==
  CASE reason = "redundant" -> "singular_kkt"
    [] reason = "active_set_change" \/ (reason # "redundant" /\ changed) -> "active_set_change"
    [] OTHER -> "kkt_unavailable"

\* _evaluate_scenario.
Evaluated(s) ==
  LET fd == Differences(s, s.at, H)
      kkt == Kkt(s)
  IN  [available |-> kkt.reason = "ok",
       mode |-> IF fd.failed THEN "undefined_fd"
                ELSE IF kkt.reason # "ok" THEN FailureOf(kkt.reason, fd.changed)
                ELSE IF fd.changed THEN "active_set_change" ELSE "ok",
       apart |-> IF fd.failed \/ kkt.reason # "ok" THEN <<>>
                 ELSE <<2 * H * kkt.jacobian - fd.central>>]

Agree == /\ doing \in {"none", "agree"} /\ obs = NoReport
         /\ \E c \in Corpora :
              /\ doing = "agree" => scene = c
              /\ Len(rows) < Len(c)
              /\ scene' = c /\ rows' = Append(rows, Evaluated(c[Len(rows) + 1]))
              /\ doing' = IF Len(rows) + 1 = Len(c) THEN "agreed" ELSE "agree"
         /\ UNCHANGED obs

GradStep == \/ Observe \/ Probe \/ Differentiate \/ Targets \/ Backends \/ ResearchKkt
            \/ StepSizes \/ Smoothed \/ Legacy \/ Agree

GradSpec == GradInit /\ [][GradStep]_gradVars
-----------------------------------------------------------------------------
(***************************************************************************)
(* Correctness.                                                            *)
(***************************************************************************)
Slope(s, t) == IF Lowest(s) < t /\ t < Highest(s) THEN 1 ELSE 0
Wide(s) == Highest(s) - Lowest(s) > 2 * H + 2 * Tol
\* A row far beyond which the proposal lies, with no other row near it.
HoldsAlone(s, r) ==
  /\ Distance(r, s.at) <= -2 * H
  /\ \A q \in Rows(s) \ {r} : Distance(q, r.at) >= 2 * H
Near(a, b) == a - b <= Tol /\ b - a <= Tol

\* The solves of a scene are accurate, or that of its proposal misses by little.
Exact(s) == s.errors = {}
OffBy(s) == LET e == Error(s, s.at) IN Max({e, -e})

\* A derivative that is not marked is one.  "At active-set transitions prefer
\* one-sided derivatives": where the solves are accurate, the labels of three of
\* them are called stable, and the feasible segment is wider than the
\* differences reach, the projection is differentiable at the proposal and the
\* preferred difference is its derivative, up to the tolerance of the labels;
\* the KKT derivative agrees with it, or refuses; and so does each row that the
\* agreement study counts as "ok".  Even at a kink, and even of a solve that
\* misses by less than the weak band, the KKT derivative is that of a place
\* next to the proposal.  The derivative with respect to a bound is zero unless
\* the bound holds the solution, and that of one that holds it alone is full.
\* Without a verified forward there is no derivative of any adapter.
UnmarkedIsDerivative ==
  /\ obs.verified /\ Exact(scene) /\ Wide(scene) /\ obs.class = "stable" =>
       /\ scene.at \notin {Lowest(scene), Highest(scene)}
       /\ \A i \in DOMAIN obs.differences : ~obs.differences[i].failed =>
            /\ ~obs.differences[i].changed
            /\ Near(obs.differences[i].central, 2 * H * Slope(scene, scene.at))
       /\ \A i \in DOMAIN obs.kkt :
            obs.kkt[i].reason = "ok" => obs.kkt[i].jacobian = Slope(scene, scene.at)
  /\ obs.verified /\ OffBy(scene) < Weak => \A i \in DOMAIN obs.kkt : obs.kkt[i].reason = "ok" =>
       LET reach == Tol + OffBy(scene) + 1
       IN  \E u \in (scene.at - reach)..(scene.at + reach) :
             obs.kkt[i].jacobian = Slope(scene, u)
  /\ doing \in {"agree", "agreed"} => \A i \in DOMAIN rows :
       Exact(scene[i]) /\ Wide(scene[i]) /\ rows[i].mode = "ok" => Near(rows[i].apart[1], 0)
  /\ \A t \in DOMAIN obs.targets \cap {"previous_action", "box_bounds"} :
       \A i \in DOMAIN obs.targets[t] : Exact(scene) =>
         LET c == obs.targets[t][i]
         IN  /\ scene.at \in (Lowest(scene) + 2 * H)..(Highest(scene) - 2 * H) =>
                  \A b \in DOMAIN c : c[b] = <<0>>
             /\ \A r \in Rows(scene) : HoldsAlone(scene, r) =>
                  \A b \in DOMAIN c :
                    c[b] = <<IF b # <<r.family, r.index>> THEN 0
                             ELSE IF r.index = 1 THEN 4 * H ELSE -4 * H>>
  /\ ~obs.verified => obs = [NoReport EXCEPT !.host = obs.host]
=============================================================================
