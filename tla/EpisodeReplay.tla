---------------------------- MODULE EpisodeReplay ----------------------------
(***************************************************************************)
(* A benchmark bundle: the replay environment (bench/replay_graph_env.py)  *)
(* on a bank, the runner that drives it with the policy and the shield     *)
(* (bench/episode_runner.py), one episode for each arm (reference_run.py), *)
(* and the counts the bundle is validated by (artifacts/validator.py).     *)
(*                                                                         *)
(* The policy may score actions as it likes.  A shield that projects sees  *)
(* the allowed actions as bounds and answers with one of them or raises    *)
(* (InterSimShield); one that was given the passthrough projector answers  *)
(* with what the policy scores best.  Rewards are counted in halves.       *)
(***************************************************************************)
EXTENDS TransitionBank, Integers

CONSTANTS Rules,            \* the rule choices: "right", "left", "alternate"
          Arms,             \* the arms in their order; the first has no shield
          Explores,         \* whether epsilon is positive
          MaxIntersections, None

ASSUME ReplayAssumption ==
  /\ MaxIntersections \in Nat \ {0}
  /\ Rules \subseteq {"right", "left", "alternate"}
  \* The labels of arms_spec are different ones.
  /\ Arms \in Seq(Range(Arms)) /\ Len(Arms) > 0 /\ IsInjective(Arms)
  /\ None \notin Actions /\ Actions # {} /\ None \notin {"turn_left", "turn_right"}
  /\ None \notin {"out_of_bank", "no_candidates", "max_intersections"}

VARIABLES
  rule,      \* rule_choice
  passthrough, \* use_passthrough_projector
  phase,     \* "build", "step", "between", and "valid", "invalid" or "raised"
  at,        \* the current node
  prev,      \* previous_instruction
  count,     \* intersection_count
  steps,     \* the steps of the episode so far
  reason,    \* terminated_reason
  episodes   \* the finalized episodes, one for each arm that was run

episodeVars == <<at, prev, count, steps, reason>>
vars == <<bankVars, rule, passthrough, phase, episodeVars, episodes>>

Init == /\ BankInit
        /\ rule \in Rules /\ passthrough \in BOOLEAN /\ phase = "build"
        /\ at = Root /\ prev = None /\ count = 0
        /\ steps = <<>> /\ reason = None /\ episodes = <<>>
-----------------------------------------------------------------------------
(***************************************************************************)
(* The replay environment.                                                 *)
(***************************************************************************)

\* MUTANT of AllowedActions: the candidates are not asked.
AllowedActionsAll == Actions

\* _allowed_actions_from_candidates: at a dead end everything is allowed.
AllowedActions == IF graph[at] = {} THEN Actions ELSE {c.act : c \in graph[at]}

Matching(act) == {c \in graph[at] : c.act = act}

\* The destinations _canonical_candidate_sort_key puts first.
First(edges) == {c.dest : c \in {e \in edges : \A f \in edges : e.dest <= f.dest}}

\* calculate_reward, in halves; an instruction is the action chosen before.
Reward(act) ==
  LET wanted == CASE rule = "right" /\ prev = "turn_right" -> "turn_right"
                  [] rule = "left" /\ prev = "turn_left" -> "turn_left"
                  [] rule = "alternate" /\ prev = "turn_left" -> "turn_right"
                  [] rule = "alternate" /\ prev = "turn_right" -> "turn_left"
                  [] OTHER -> None
  IN  IF wanted = None THEN 0 ELSE IF act = wanted THEN 2 ELSE -1

\* MUTANT of LimitReached: one intersection too many.
LimitReachedLate(n) == n > MaxIntersections

LimitReached(n) == n >= MaxIntersections

\* The reason the runner gives for a step that ended the episode: the number
\* of candidates is asked of the node the environment is at after the step.
Reason(outOfBank, node) ==
  IF outOfBank THEN "out_of_bank"
  ELSE IF graph[node] = {} THEN "no_candidates" ELSE "max_intersections"

\* step(act): a matching edge, else the first of all, else the end.
EnvStep(act, shielded) ==
  LET edges == IF Matching(act) # {} THEN Matching(act) ELSE graph[at]
      record == [prev |-> prev, act |-> act, reward |-> Reward(act),
                 matched |-> Matching(act) # {}, fallback |-> Matching(act) = {},
                 shielded |-> shielded]
  IN  /\ steps' = Append(steps, record)
      /\ \/ /\ edges = {}
            /\ reason' = Reason(FALSE, at)
            /\ UNCHANGED <<at, prev, count>>
         \/ /\ First(edges) \cap Nodes = {} /\ edges # {}
            /\ reason' = Reason(TRUE, at)
            /\ UNCHANGED <<at, prev, count>>
         \/ \E next \in First(edges) \cap Nodes :
              /\ at' = next /\ prev' = act /\ count' = count + 1
              /\ reason' = IF LimitReached(count + 1) THEN Reason(FALSE, next) ELSE None
-----------------------------------------------------------------------------
(***************************************************************************)
(* The runner.                                                             *)
(***************************************************************************)
Arm == Len(episodes) + 1
Going == phase = "step" /\ reason = None /\ Len(steps) < MaxIntersections + 5

BuildBank == /\ phase = "build" /\ Pop
             /\ UNCHANGED <<rule, passthrough, phase, episodeVars, episodes>>

\* run_episode: a new environment on the bank.
StartEpisode ==
  /\ \/ phase = "build" /\ ~Building
     \/ phase = "between" /\ Arm <= Len(Arms)
  /\ phase' = "step"
  /\ at' = Root /\ prev' = None /\ count' = 0 /\ steps' = <<>> /\ reason' = None
  /\ UNCHANGED <<bankVars, rule, passthrough, episodes>>

\* A random action, with probability epsilon, or the best-scored of an arm
\* without a shield: any action of the action space.
FreeStep == /\ Going
            /\ Explores \/ Arm = 1
            /\ \E act \in Actions : EnvStep(act, FALSE)
            /\ UNCHANGED <<bankVars, rule, passthrough, phase, episodes>>

\* What the corrected distribution of a shield is largest at: an allowed
\* action, or any if the projector hands back what the policy proposed.
ShieldActions == IF passthrough THEN Actions ELSE AllowedActions

\* choose_action of the shield.
ShieldedStep == /\ Going /\ Arm > 1
                /\ \E act \in ShieldActions : EnvStep(act, TRUE)
                /\ UNCHANGED <<bankVars, rule, passthrough, phase, episodes>>

\* choose_action raises: nothing of the bundle is written.
ShieldRaises == /\ Going /\ Arm > 1
                /\ phase' = "raised"
                /\ UNCHANGED <<bankVars, rule, passthrough, episodeVars, episodes>>

\* MUTANT of Violates: the first alternative of "alternate" only.
ViolatesLeft(r, s) ==
  CASE r = "right" -> s.prev = "turn_right" /\ s.act # "turn_right"
    [] r = "left" -> s.prev = "turn_left" /\ s.act # "turn_left"
    [] r = "alternate" -> s.prev = "turn_left" /\ s.act # "turn_right"

\* _count_rule_violations
Violates(r, s) ==
  CASE r = "right" -> s.prev = "turn_right" /\ s.act # "turn_right"
    [] r = "left" -> s.prev = "turn_left" /\ s.act # "turn_left"
    [] r = "alternate" -> \/ s.prev = "turn_left" /\ s.act # "turn_right"
                          \/ s.prev = "turn_right" /\ s.act # "turn_left"

\* What is counted of the steps of an episode.
Violations(r, ss) == Cardinality({i \in DOMAIN ss : Violates(r, ss[i])})
MatchedSteps(ss) == Cardinality({i \in DOMAIN ss : ss[i].matched})
FallbackSteps(ss) == Cardinality({i \in DOMAIN ss : ss[i].fallback})

\* The end of the loop, and finalize().
Finalize ==
  /\ phase = "step" /\ ~Going
  /\ episodes' = Append(episodes,
       [arm |-> Arms[Arm], rule |-> rule, steps |-> steps, reason |-> reason,
        violations |-> Violations(rule, steps),
        matched |-> MatchedSteps(steps), fallback |-> FallbackSteps(steps)])
  /\ phase' = "between"
  /\ UNCHANGED <<bankVars, rule, passthrough, episodeVars>>
-----------------------------------------------------------------------------
(***************************************************************************)
(* The bundle: its summary, and what validate_run_bundle recounts.         *)
(***************************************************************************)
OfArm(label) == Restrict(episodes, {i \in DOMAIN episodes : episodes[i].arm = label})

Opportunities(e) == Cardinality({i \in DOMAIN e.steps : e.steps[i].prev # None})

\* Violations counted anew, among the opportunities.
Recounted(e) ==
  Cardinality({i \in DOMAIN e.steps : e.steps[i].prev # None /\ Violates(e.rule, e.steps[i])})

\* The sums over some episodes: of their steps, of their opportunities.
AllSteps(eps) == SumFunction([i \in DOMAIN eps |-> Len(eps[i].steps)])
AllOpportunities(eps) == SumFunction([i \in DOMAIN eps |-> Opportunities(eps[i])])

\* build_summary_records: rates are kept as pairs of what they divide.
SummaryRow(label) ==
  LET eps == OfArm(label)
  IN  [label |-> label, episodes |-> Cardinality(DOMAIN eps), steps |-> AllSteps(eps),
       violated |-> <<SumFunction([i \in DOMAIN eps |-> Recounted(eps[i])]),
                      AllOpportunities(eps)>>,
       matched |-> SumFunction([i \in DOMAIN eps |-> eps[i].matched]),
       fallback |-> SumFunction([i \in DOMAIN eps |-> eps[i].fallback])]

\* validate_episode_record
ValidEpisode(e) ==
  /\ e.violations = Recounted(e)
  /\ e.matched = MatchedSteps(e.steps)
  /\ e.fallback = FallbackSteps(e.steps)

\* a / b = c / d, where a rate over nothing is zero.
SameRate(p, q) ==
  (IF p[2] = 0 THEN 0 ELSE p[1]) * (IF q[2] = 0 THEN 1 ELSE q[2])
  = (IF q[2] = 0 THEN 0 ELSE q[1]) * (IF p[2] = 0 THEN 1 ELSE p[2])

\* validate_summary_records for one row, from the counts of the episodes.
ValidRow(row) ==
  LET eps == OfArm(row.label)
  IN  /\ row.episodes = Cardinality(DOMAIN eps)
      /\ row.steps = AllSteps(eps)
      /\ SameRate(row.violated, <<SumFunction([i \in DOMAIN eps |-> eps[i].violations]),
                                 AllOpportunities(eps)>>)
      /\ row.matched = SumFunction([i \in DOMAIN eps |-> eps[i].matched])
      /\ row.fallback = SumFunction([i \in DOMAIN eps |-> eps[i].fallback])

\* Two more summaries, which scripts and tests ask: summarize of bench/metrics.py
\* recounts everything from the steps, summary_payload of artifacts/payloads.py
\* takes the violations as the episodes have them.
MatchedActions(eps) == SumFunction([i \in DOMAIN eps |-> MatchedSteps(eps[i].steps)])
Fallbacks(eps) == SumFunction([i \in DOMAIN eps |-> FallbackSteps(eps[i].steps)])

RuleViolationRate(eps) ==
  <<SumFunction([i \in DOMAIN eps |-> Recounted(eps[i])]), AllOpportunities(eps)>>

Summarize(eps) ==
  [violated |-> RuleViolationRate(eps), matched |-> MatchedActions(eps),
   fallback |-> Fallbacks(eps),
   steps |-> SumFunction([i \in DOMAIN eps |-> Cardinality(DOMAIN eps[i].steps)])]

SummaryPayload(eps) ==
  [violated |-> <<SumFunction([i \in DOMAIN eps |-> eps[i].violations]), AllOpportunities(eps)>>,
   matched |-> MatchedActions(eps), fallback |-> Fallbacks(eps), steps |-> AllSteps(eps)]

\* run_benchmark_bundle writes the bundle and validates it.
WriteBundle ==
  /\ phase = "between" /\ Arm > Len(Arms)
  /\ LET summary == {SummaryRow(e.arm) : e \in Range(episodes)}
     IN  phase' = IF /\ \A e \in Range(episodes) : ValidEpisode(e)
                     /\ \A row \in summary : ValidRow(row)
                     /\ {e.arm : e \in Range(episodes)} = {row.label : row \in summary}
                     /\ IsInjective([i \in DOMAIN episodes |-> episodes[i].arm])
                  THEN "valid" ELSE "invalid"
  /\ UNCHANGED <<bankVars, rule, passthrough, episodeVars, episodes>>

Stopped == phase \in {"valid", "invalid", "raised"} /\ UNCHANGED vars

Next == \/ BuildBank \/ StartEpisode \/ FreeStep \/ ShieldedStep \/ ShieldRaises
        \/ Finalize \/ WriteBundle \/ Stopped

Spec == Init /\ [][Next]_vars
-----------------------------------------------------------------------------
(***************************************************************************)
(* Correctness.                                                            *)
(***************************************************************************)

\* In a bundle whose shields project, an action of the shield that no edge
\* matched was chosen at a dead end: it is the last step of its episode, which
\* records "no_candidates", so that a summary's fallback_steps owes the shield
\* at most one for each episode.  (A bundle of passthrough projectors promises
\* nothing: the policy may ask for edges that are not there at any step.)
FallsBackAtTheEnd(ss, why) ==
  \A i \in DOMAIN ss :
    ss[i].shielded /\ ss[i].fallback => i = Len(ss) /\ why = "no_candidates"

ShieldFallsBackAtDeadEnds ==
  ~passthrough =>
    /\ FallsBackAtTheEnd(steps, reason)
    /\ \A i \in DOMAIN episodes : FallsBackAtTheEnd(episodes[i].steps, episodes[i].reason)

\* The runner's loop never runs out before the environment says done, and the
\* reason it records is true of the node the episode ended at: out of bank
\* with an edge to follow, no candidates at a dead end (reached by the last
\* step or not), the limit only when it is reached.
EpisodeEndsForItsReason ==
  phase = "step" /\ ~Going =>
    /\ count <= MaxIntersections
    /\ \/ reason = "out_of_bank" /\ graph[at] # {} /\ count < MaxIntersections
       \/ reason = "no_candidates" /\ graph[at] = {}
       \/ reason = "max_intersections" /\ graph[at] # {} /\ count = MaxIntersections

\* Six counts of the same facts agree: a bundle that was run through is valid,
\* the violations an episode counts are the steps the environment punished, and
\* after every episode the three summaries of its arm show the same rates.
RecountsAgree ==
  /\ phase # "invalid"
  /\ phase = "between" => \A i \in DOMAIN episodes :
       LET eps == OfArm(episodes[i].arm)
           row == SummaryRow(episodes[i].arm)
       IN  /\ episodes[i].violations =
                Cardinality({k \in DOMAIN episodes[i].steps : episodes[i].steps[k].reward < 0})
           /\ \A other \in {Summarize(eps), SummaryPayload(eps)} :
                /\ SameRate(other.violated, row.violated)
                /\ other.matched = row.matched /\ other.fallback = row.fallback
                /\ other.steps = row.steps
=============================================================================
