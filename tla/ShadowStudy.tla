---------------------------- MODULE ShadowStudy ----------------------------
(***************************************************************************)
(* Shadow solves of the research corpus (experimental/solver_assurance):   *)
(* the harness that solves every scenario with a primary backend, picks    *)
(* some by a sampling policy and solves those again with a shadow backend; *)
(* the studies built on it, which compare what a budget detects with what  *)
(* a full shadow detects; and the protocol for candidate stacks.           *)
(*                                                                         *)
(* Actions are points of the integer plane; ACTION_L2_LARGE is Large units *)
(* and the tolerances of 1e-8 and 1e-6 lie below one.                      *)
(***************************************************************************)
EXTENDS Integers, Sequences, FiniteSets, FiniteSetsExt, Functions

CONSTANTS Studies,        \* the programs that are run, with their arguments
          Rank(_, _, _),  \* ranking_value: of a seed, a scenario and a policy
          Available,      \* the backends that are not stubs on this host
          Large,          \* ACTION_L2_LARGE
          GapDominant     \* RESIDUAL_GAP_DOMINANT

\* SamplingPolicyId.
Policies == {"random", "residual", "iteration", "warm_start_rejection", "active_set_change",
             "distance_from_boundaries", "gradient_condition", "recent_failures",
             "unseen_fingerprint", "solver_platform_upgrade"}

\* NoPoint is an action of NaN, with residuals that are None.
NoPoint == <<>>
Coordinates == {1, 2}

\* The answers of a solver, by its word for how it ended.
SolverAnswers == [raw : {"optimal", "optimal_inaccurate", "infeasible", "user_limit", "error"},
                  at : (Int \X Int) \cup {NoPoint}, iterations : Int]

Scenarios == [family : STRING, total : Int, lower : Int, upper : Int, delta : Int,
              allowed : SUBSET Coordinates, previous : Int \X Int, proposed : Int \X Int,
              rejected : BOOLEAN, answers : [Available -> [{"primary", "shadow"} -> SUBSET SolverAnswers]]]

\* A study needs a seed for its baseline and, where no policy is named, takes
\* all of them; its budgets are in quarters.
ASSUME StudyAssumption ==
  \A s \in Studies :
    /\ s.program \in {"study", "promotion", "corpus"}
    /\ s.corpus \in Seq(Scenarios) /\ s.corpus # <<>>
    /\ s.seeds \in Seq(Int) /\ s.seeds # <<>>
    /\ s.policies \in Seq(Policies) /\ s.budgets \in Seq(0..4)
    /\ s.program = "study" => s.policies # <<>> /\ s.budgets # <<>>
    /\ \A i \in DOMAIN s.corpus :
         /\ \A b \in Available, role \in {"primary", "shadow"} :
              IsFiniteSet(s.corpus[i].answers[b][role])
         /\ \A k \in DOMAIN s.seeds, policy \in Policies : Rank(s.seeds[k], i, policy) \in Int

VARIABLES
  study,   \* the program that runs and its arguments, <<>> before
  stage,   \* "none", "primary", "select", "shadow", "over", "judge", "done"
  harness, \* the local variables of run_shadow_harness
  full,    \* what the baseline, at full budget, found consequential
  seen,    \* what each seed of the present cell selected and detected
  cells,   \* the PolicyBudgetResults
  report   \* the verdict of R1.H2, or what the other programs retain

studyVars == <<study, stage, harness, full, seen, cells, report>>
-----------------------------------------------------------------------------
(***************************************************************************)
(* A solve.                                                                *)
(***************************************************************************)
Size(d) == IF d < 0 THEN -d ELSE d
Excess(d) == IF d > 0 THEN d ELSE 0

\* _map_status, and the two statuses set where no solver answers.
StatusOf == [optimal |-> "optimal", optimal_inaccurate |-> "optimal",
             infeasible |-> "infeasible", user_limit |-> "iteration_limit",
             error |-> "numerical_failure", unavailable |-> "unavailable"]

\* How far one number of an action is outside.
Violation(s, x, i) == Excess(s.lower - x[i]) + Excess(x[i] - s.upper)
                      + Excess(Size(x[i] - s.previous[i]) - s.delta)
                      + (IF i \in s.allowed THEN 0 ELSE Size(x[i]))

\* _residuals: how far an action is outside, and the families it touches.
Residuals(s, x) ==
  [eq |-> Size(x[1] + x[2] - s.total),
   ineq |-> Violation(s, x, 1) + Violation(s, x, 2),
   active |-> {l \in {"box_lower"} : \E i \in Coordinates : x[i] <= s.lower}
     \cup {l \in {"box_upper"} : \E i \in Coordinates : x[i] >= s.upper}
     \cup {l \in {"rate"} : \E i \in Coordinates : Size(x[i] - s.previous[i]) >= s.delta}
     \cup {l \in {"turn_feasibility"} : s.allowed # Coordinates}
     \cup {l \in {"simplex"} : x[1] + x[2] = s.total}]

Apart2(x, y) == (x[1] - y[1]) * (x[1] - y[1]) + (x[2] - y[2]) * (x[2] - y[2])

\* What project returns for an answer of the solver.
Projection(s, a) ==
  [raw |-> a.raw, at |-> a.at, status |-> StatusOf[a.raw], iterations |-> a.iterations,
   objective |-> IF a.at = NoPoint THEN -1 ELSE Apart2(a.at, s.proposed),
   residuals |-> IF a.at = NoPoint THEN [eq |-> 0, ineq |-> 0, active |-> {}]
                 ELSE Residuals(s, a.at)]

\* create_research_projector and one project: a projector is made for each
\* scenario, so no warm start is carried.  With a limit of time, the answers
\* of a backend are several.
Projections(s, backend, role) ==
  IF backend \in Available
  THEN {Projection(s, a) : a \in s.answers[backend][role]}
  ELSE {Projection(s, [raw |-> "unavailable", at |-> NoPoint, iterations |-> 0])}
-----------------------------------------------------------------------------
(***************************************************************************)
(* compare_projections.                                                    *)
(***************************************************************************)
LimitReached(p) == p.status \in {"time_limit", "iteration_limit"}
Badness(p) == p.residuals.eq + p.residuals.ineq

\* _residual_dominance.
Dominance(p, q) ==
  IF Size(Badness(p) - Badness(q)) < GapDominant
  THEN IF Badness(p) + Badness(q) > 0 THEN "tie" ELSE "none"
  ELSE IF Badness(p) > Badness(q) THEN "primary" ELSE "shadow"

\* The square of the distance; a distance to NaN is at least nothing.
FarApart(p, q) == p.at # NoPoint /\ q.at # NoPoint /\ Apart2(p.at, q.at) >= Large * Large

StatusesDiffer(p, q) == p.status # q.status \/ p.raw # q.raw

\* is_consequential.
Consequential(p, q) ==
  \/ FarApart(p, q)
  \/ LimitReached(p) # LimitReached(q) \/ StatusesDiffer(p, q)
  \/ /\ Dominance(p, q) \in {"primary", "shadow"}
     /\ Size(p.residuals.eq - q.residuals.eq) + Size(p.residuals.ineq - q.residuals.ineq)
          >= GapDominant

\* classify_disagreement, for the labels that are material.
Material(p, q) ==
  {l \in {"timeout_asymmetry"} : LimitReached(p) # LimitReached(q)}
  \cup {l \in {"active_set_mismatch"} : p.residuals.active # q.residuals.active}
  \cup {l \in {"residual_dominance"} : Dominance(p, q) \in {"primary", "shadow"}}
  \cup {l \in {"action_diff_large"} : FarApart(p, q)}

\* The labels; that of a failure is put before those classified, and is not
\* counted among them.
Labels(p, q) ==
  Material(p, q)
  \cup {l \in {"compound"} : Cardinality(Material(p, q)) >= 2}
  \cup {l \in {"status_only"} : StatusesDiffer(p, q) /\ LimitReached(p) = LimitReached(q)}
  \cup {l \in {"objective_gap"} : p.objective >= 0 /\ q.objective >= 0 /\ p.objective # q.objective}
  \cup {l \in {"action_diff_small"} : /\ p.at # NoPoint /\ q.at # NoPoint /\ p.at # q.at
                                      /\ ~FarApart(p, q)}
  \cup {l \in {"failure_asymmetry"} :
          /\ StatusesDiffer(p, q)
          /\ LimitReached(p) # LimitReached(q) \/ "unavailable" \in {p.raw, q.raw}}
-----------------------------------------------------------------------------
(***************************************************************************)
(* The features of a primary solve and the scores of the policies.         *)
(***************************************************************************)

\* compute_boundary_features: the least slack, in parts of the width or of
\* the rate; nothing is computed of an action of NaN.
LeastSlack(s, x) ==
  LET width == s.upper - s.lower
  IN  Min(UNION {{(x[i] - s.lower) * s.delta, (s.upper - x[i]) * s.delta,
                  (s.delta - Size(x[i] - s.previous[i])) * width} : i \in Coordinates})

\* Before is the active set of the family's last primary, {} is "none".
Features(s, p, before) ==
  [finite |-> p.at # NoPoint, residual |-> Badness(p), equality |-> p.residuals.eq,
   iterations |-> p.iterations,
   slack |-> IF p.at = NoPoint THEN 0 ELSE LeastSlack(s, p.at),
   change |-> IF p.at = NoPoint \/ before = <<>> THEN 0
              ELSE Cardinality(SymDiff(p.residuals.active, before[1])),
   failed |-> p.status \in {"numerical_failure", "unavailable"},
   rejected |-> s.rejected, upgrade |-> s.family = "backend_version_changes"]

Yes(b) == IF b THEN 1 ELSE 0

\* The integer order of the scores of all_sampling_policies.  The harness
\* never says that a fingerprint was seen.
Score(policy, f, rank) ==
  CASE policy = "random" -> rank
    [] policy = "residual" -> f.residual
    [] policy = "iteration" -> f.iterations
    [] policy = "warm_start_rejection" -> Yes(f.rejected)
    [] policy = "active_set_change" -> f.change
    [] policy = "distance_from_boundaries" -> IF f.finite THEN 1000 \div (1 + Size(f.slack)) ELSE 0
    [] policy = "gradient_condition" -> IF f.finite THEN 1 + f.equality ELSE 0
    [] policy = "recent_failures" -> Yes(f.failed)
    [] policy = "unseen_fingerprint" -> 1
    [] policy = "solver_platform_upgrade" -> Yes(f.upgrade)

\* round(n * quarters / 4), where a half goes to the even neighbour.
RoundQuarters(n, quarters) ==
  LET whole == (n * quarters) \div 4 rest == (n * quarters) % 4
  IN  whole + Yes(rest > 2 \/ (rest = 2 /\ whole % 2 = 1))

\* The budget in scenarios: at least one, unless the fraction is zero.
Budget(n, quarters) == IF quarters = 0 THEN 0 ELSE Max({1, RoundQuarters(n, quarters)})

\* The order of select_for_shadow_detailed; ids are the places in the corpus.
Before(policy, seed, fs, i, j) ==
  LET si == Score(policy, fs[i], Rank(seed, i, policy))
      sj == Score(policy, fs[j], Rank(seed, j, policy))
      ri == Rank(seed, i, policy) rj == Rank(seed, j, policy)
  IN  si > sj \/ (si = sj /\ (ri > rj \/ (ri = rj /\ i < j)))

Selected(policy, seed, quarters, fs) ==
  {i \in DOMAIN fs : Cardinality({j \in DOMAIN fs : Before(policy, seed, fs, j, i)})
                       < Budget(Len(fs), quarters)}
-----------------------------------------------------------------------------
(***************************************************************************)
(* run_shadow_harness.                                                     *)
(***************************************************************************)
Families(corpus) == {corpus[i].family : i \in DOMAIN corpus}

HarnessOf(s, policy, quarters, seed) ==
  [policy |-> policy, quarters |-> quarters, seed |-> seed,
   primaries |-> <<>>, features |-> <<>>, selected |-> {}, cases |-> <<>>,
   actives |-> [f \in Families(s.corpus) |-> <<>>]]

NoHarness == <<>>

StudyInit == /\ study = <<>> /\ stage = "none" /\ harness = NoHarness
             /\ full = {} /\ seen = <<>> /\ cells = <<>> /\ report = <<>>

\* The three programs begin with a harness at full budget; the study calls it
\* its baseline.
Begin == /\ stage = "none"
         /\ \E s \in Studies :
              study' = s /\ harness' = HarnessOf(s, "random", 4, Head(s.seeds))
         /\ stage' = "primary"
         /\ UNCHANGED <<full, seen, cells, report>>

\* The first pass: a scenario is solved by the primary and its features are
\* taken, with the active set that the family's last solve left.
Primary ==
  LET i == Len(harness.primaries) + 1
      s == study.corpus[i]
  IN  /\ stage = "primary"
      /\ \E p \in Projections(s, study.primary, "primary") :
           harness' = [harness EXCEPT
             !.primaries = Append(@, p),
             !.features = Append(@, Features(s, p, harness.actives[s.family])),
             !.actives = [@ EXCEPT ![s.family] = <<p.residuals.active>>]]
      /\ stage' = IF i = Len(study.corpus) THEN "select" ELSE "primary"
      /\ UNCHANGED <<study, full, seen, cells, report>>

Select ==
  /\ stage = "select"
  /\ harness' = [harness EXCEPT !.selected =
                   Selected(harness.policy, harness.seed, harness.quarters, harness.features)]
  /\ stage' = "shadow"
  /\ UNCHANGED <<study, full, seen, cells, report>>

Skipped == [shadowed |-> FALSE, raw |-> "skipped_by_sampling", consequential |-> FALSE,
            differ |-> FALSE, labels |-> {}]

\* A case of the second pass.
CasesOf(i) ==
  LET p == harness.primaries[i]
  IN  IF i \in harness.selected
      THEN {[shadowed |-> TRUE, raw |-> q.raw, consequential |-> Consequential(p, q),
             differ |-> StatusesDiffer(p, q), labels |-> Labels(p, q)] :
              q \in Projections(study.corpus[i], study.shadow, "shadow")}
      ELSE {Skipped}

Shadow ==
  LET i == Len(harness.cases) + 1
  IN  /\ stage = "shadow"
      /\ \E c \in CasesOf(i) : harness' = [harness EXCEPT !.cases = Append(@, c)]
      /\ stage' = IF i = Len(study.corpus) THEN "over" ELSE "shadow"
      /\ UNCHANGED <<study, full, seen, cells, report>>

\* _consequential_ids of a summary, and the cases of a family.
ConsequentialIds == {i \in DOMAIN harness.cases : harness.cases[i].consequential}
ShadowedOf(family) == {i \in harness.selected : study.corpus[i].family = family}

\* summarize_by_family: the families noted as a negative result.
NegativeFamilies ==
  {f \in Families(study.corpus) :
     ShadowedOf(f) # {} /\ \A i \in ShadowedOf(f) : ~harness.cases[i].consequential}

\* The families with a rate of disagreement that is not zero.
AffectedFamilies ==
  {f \in Families(study.corpus) :
     \E i \in ShadowedOf(f) : harness.cases[i].consequential \/ harness.cases[i].differ}

\* run_candidate_stack_promotion.
Promotion ==
  [affected |-> AffectedFamilies, negative |-> NegativeFamilies,
   asymmetric |-> {i \in harness.selected :
     harness.cases[i].labels \cap {"failure_asymmetry", "timeout_asymmetry"} # {}}]

\* build_disagreement_corpus: a record for each case, shadowed or not.
Packaged ==
  [records |-> [i \in DOMAIN harness.cases |->
     [primary |-> harness.primaries[i].raw, shadow |-> harness.cases[i].raw]],
   affected |-> {}, negative |-> NegativeFamilies]
-----------------------------------------------------------------------------
(***************************************************************************)
(* run_sampling_study: a cell for each policy and budget, from a harness   *)
(* for each seed.                                                          *)
(***************************************************************************)
Planned(s) == Len(s.policies) * Len(s.budgets)

\* The n-th cell, and its policy and budget.
PolicyOf(s, n) == s.policies[((n - 1) \div Len(s.budgets)) + 1]
QuartersOf(s, n) == s.budgets[((n - 1) % Len(s.budgets)) + 1]

Detected(runs) == UNION {runs[k].detected : k \in DOMAIN runs}

\* MUTANT of Missed: of the last seed, whose summary is at hand.
MissedByLast(base, runs) == base \ runs[Len(runs)].detected

\* missed_baseline_ids.
Missed(base, runs) == base \ Detected(runs)

\* The PolicyBudgetResult, its rates as sums over the seeds.
Cell(base, runs, policy, quarters) ==
  [policy |-> policy, quarters |-> quarters, estimable |-> base # {},
   selected |-> UNION {runs[k].selected : k \in DOMAIN runs},
   shadowed |-> SumFunction([k \in DOMAIN runs |-> Cardinality(runs[k].selected)]),
   hits |-> SumFunction([k \in DOMAIN runs |-> Cardinality(base \cap runs[k].detected)]),
   skips |-> SumFunction([k \in DOMAIN runs |-> Cardinality(base \ runs[k].detected)]),
   missed |-> Missed(base, runs),
   \* _family_stratified_detection
   families |-> {f \in Families(study.corpus) :
     \E i \in base : study.corpus[i].family = f /\ i \in Detected(runs)}]

\* A harness is over: the program keeps what it retains of it, and the study
\* runs the next seed of the cell, the next cell, or is judged.
Over ==
  LET runs == Append(seen, [selected |-> harness.selected, detected |-> ConsequentialIds])
      cell == Cell(full, runs, harness.policy, harness.quarters)
      next == Len(cells) + 2
  IN  /\ stage = "over"
      /\ CASE study.program = "promotion" ->
                /\ report' = Promotion /\ stage' = "done"
                /\ UNCHANGED <<harness, full, seen, cells>>
           [] study.program = "corpus" ->
                /\ report' = Packaged /\ stage' = "done"
                /\ UNCHANGED <<harness, full, seen, cells>>
           [] study.program = "study" /\ report = <<>> ->
                \* the baseline
                /\ full' = ConsequentialIds /\ stage' = "primary"
                /\ harness' = HarnessOf(study, PolicyOf(study, 1), QuartersOf(study, 1),
                                        Head(study.seeds))
                /\ report' = [negative |-> NegativeFamilies, affected |-> AffectedFamilies]
                /\ UNCHANGED <<seen, cells>>
           [] OTHER ->
                /\ IF Len(runs) < Len(study.seeds)
                   THEN /\ seen' = runs /\ cells' = cells /\ stage' = "primary"
                        /\ harness' = HarnessOf(study, harness.policy, harness.quarters,
                                                study.seeds[Len(runs) + 1])
                   ELSE /\ seen' = <<>> /\ cells' = Append(cells, cell)
                        /\ IF next > Planned(study)
                           THEN stage' = "judge" /\ harness' = harness
                           ELSE /\ stage' = "primary"
                                /\ harness' = HarnessOf(study, PolicyOf(study, next),
                                                QuartersOf(study, next), Head(study.seeds))
                /\ UNCHANGED <<full, report>>
      /\ UNCHANGED study

\* evaluate_r1_h2_from_sampling_study, of the cells below the full budget:
\* detections at least as many and at least half, at no more cost.
Below(policy) == {n \in DOMAIN cells : cells[n].policy = policy /\ cells[n].quarters < 4}
HitsOf(policy) == SumFunction([n \in Below(policy) |-> cells[n].hits])
CostOf(policy) == SumFunction([n \in Below(policy) |-> cells[n].shadowed])

Verdict ==
  LET n == Cardinality(Below("residual")) * Cardinality(full) * Len(study.seeds)
  IN  IF Below("residual") = {} \/ Below("random") = {} \/ full = {} THEN "inconclusive"
      ELSE IF /\ HitsOf("residual") >= HitsOf("random") /\ 2 * HitsOf("residual") >= n
              /\ CostOf("residual") <= CostOf("random") THEN "pass"
      ELSE IF 20 * HitsOf("residual") + n < 20 * HitsOf("random") THEN "fail"
      ELSE "inconclusive"

Judge == /\ stage = "judge" /\ stage' = "done"
         /\ report' = [negative |-> report.negative, affected |-> report.affected,
                       verdict |-> Verdict]
         /\ UNCHANGED <<study, harness, full, seen, cells>>

StudyStep == Begin \/ Primary \/ Select \/ Shadow \/ Over \/ Judge

StudySpec == StudyInit /\ [][StudyStep]_studyVars
-----------------------------------------------------------------------------
(***************************************************************************)
(* Correctness.                                                            *)
(***************************************************************************)

\* No scenario of the study is solved under a limit of time.
Reproducible ==
  \A i \in DOMAIN study.corpus :
    /\ Cardinality(Projections(study.corpus[i], study.primary, "primary")) = 1
    /\ Cardinality(Projections(study.corpus[i], study.shadow, "shadow")) = 1

\* What a budget misses it did not look at.  "False-skip: baseline positives
\* never selected": an id that a cell reports as missed was selected under no
\* seed, and every other one was; the full budget misses nothing; under the
\* same policy a larger budget misses nothing that a smaller one found.  Even
\* where limits of time make solves differ, hits and skips are all of the
\* baseline, and a family is affected or a negative result, never both.
MissesAreSkips ==
  /\ \A n \in DOMAIN cells :
       LET c == cells[n]
       IN  /\ c.hits + c.skips = Cardinality(full) * Len(study.seeds)
           /\ Reproducible =>
                /\ c.missed = full \ c.selected
                /\ c.quarters = 4 => c.missed = {} /\ c.skips = 0
                /\ \A m \in DOMAIN cells :
                     cells[m].policy = c.policy /\ cells[m].quarters >= c.quarters =>
                       cells[m].missed \subseteq c.missed /\ cells[m].hits >= c.hits
  /\ report # <<>> => report.negative \cap report.affected = {}
=============================================================================
