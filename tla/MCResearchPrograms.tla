------------------------ MODULE MCResearchPrograms ------------------------
(* A small instance of ResearchPrograms for TLC. *)
EXTENDS ResearchPrograms
-----------------------------------------------------------------------------
\* The filter and its gate.

MCControls == (-2..2) \X (-2..2)
MCRough == {<<0, 0>>, <<2, 0>>, <<1, 1>>}

Scene(at, wants, radius) ==
  [at |-> at, wants |-> wants, center |-> <<0, 0>>, radius |-> radius]

\* Towards the obstacle, along its edge, past it, and inside of it.
MCScenes == {Scene(<<-9, 0>>, <<2, 0>>, 6), Scene(<<-7, -4>>, <<0, 1>>, 6),
             Scene(<<-7, -4>>, <<2, 1>>, 7), Scene(<<-2, -5>>, <<1, 0>>, 6)}

MCVerdicts == {[asked |-> FALSE, unblock_allowed |-> FALSE, all_required_passed |-> FALSE],
               [asked |-> TRUE, unblock_allowed |-> TRUE, all_required_passed |-> FALSE],
               [asked |-> TRUE, unblock_allowed |-> TRUE, all_required_passed |-> TRUE]}

\* Two that can be solved, and one of which a row cannot.
MCBatches == {<<Scene(<<-9, 0>>, <<2, 0>>, 6), Scene(<<-7, -4>>, <<2, 1>>, 7)>>,
              <<Scene(<<-1, 0>>, <<1, 0>>, 6), Scene(<<-7, -4>>, <<0, 1>>, 6)>>}

MCDemo == Scene(<<-9, 0>>, <<2, 0>>, 6)
MCDemoBatch == <<MCDemo, Scene(<<-7, -4>>, <<0, 1>>, 6)>>
MCHeldOut == <<Scene(<<-7, -4>>, <<2, 1>>, 7), Scene(<<-9, 0>>, <<2, 0>>, 6)>>
MCStress == <<[mode |-> "nominal_stage1_cbf", case |-> Scene(<<-1, 0>>, <<1, 0>>, 6)]>>
MCForced == {{}, {5}}
-----------------------------------------------------------------------------
\* The shadow studies.

Answer(raw, at, iterations) == [raw |-> raw, at |-> at, iterations |-> iterations]

\* A scenario, with the answers of the primary and of the shadow; either of
\* the backends may be either.
MCScenario(family, previous, primary, shadow) ==
  [family |-> family, total |-> 10, lower |-> 0, upper |-> 10, delta |-> 4,
   allowed |-> {1, 2}, previous |-> previous, proposed |-> <<6, 4>>, rejected |-> FALSE,
   answers |-> [clarabel |-> [primary |-> primary, shadow |-> primary],
                scs |-> [primary |-> shadow, shadow |-> shadow]]]

Good == Answer("optimal", <<6, 4>>, 3)

\* Alike, apart, stopped by its iterations, without a solution on both sides,
\* and outside of the constraints.
Alike == MCScenario("near_bounds", <<5, 5>>, {Good}, {Good})
Apart == MCScenario("near_bounds", <<9, 1>>, {Answer("optimal", <<6, 4>>, 4)},
                    {Answer("optimal", <<9, 1>>, 6)})
Stopped2 == MCScenario("limits", <<5, 5>>, {Good}, {Answer("user_limit", <<5, 5>>, 1)})
Empty == MCScenario("limits", <<5, 5>>, {Answer("infeasible", NoPoint, 9)},
                    {Answer("infeasible", NoPoint, 9)})
Loose == MCScenario("backend_version_changes", <<6, 4>>, {Answer("optimal_inaccurate", <<7, 4>>, 7)},
                    {Answer("optimal_inaccurate", <<6, 4>>, 7)})
Failed == [MCScenario("limits", <<5, 5>>, {Answer("error", NoPoint, 0)}, {Good})
             EXCEPT !.rejected = TRUE]

\* With a limit of time the shadow may be stopped, or not.
Timed == MCScenario("limits", <<5, 5>>, {Good}, {Good, Answer("user_limit", <<2, 8>>, 1)})

Distinct(n, set) == {c \in [1..n -> set] : \A i, j \in 1..n : i # j => c[i] # c[j]}
Fixed == {Alike, Apart, Stopped2, Empty, Loose, Failed}

MCStudy(program, corpus, primary, policies, budgets, seeds) ==
  [program |-> program, corpus |-> corpus, primary |-> primary,
   shadow |-> IF primary = "clarabel" THEN "scs" ELSE "clarabel",
   policies |-> policies, budgets |-> budgets, seeds |-> seeds]

AllPolicies == <<"random", "residual", "iteration", "warm_start_rejection", "active_set_change",
  "distance_from_boundaries", "gradient_condition", "recent_failures", "unseen_fingerprint",
  "solver_platform_upgrade">>

MCStudies ==
  {MCStudy("study", c, "clarabel", <<"residual", "random">>, <<1, 2, 4>>, <<0, 1>>) : c \in Distinct(3, Fixed)}
  \cup {MCStudy("study", c, "clarabel", AllPolicies, <<2, 3>>, <<1>>) :
          c \in {d \in Distinct(4, Fixed) : d[1] = Apart /\ d[2] = Failed}}
  \cup {MCStudy("study", c, "clarabel", <<"random", "residual">>, <<2>>, <<0, 1>>) :
          c \in {<<Alike, Timed>>, <<Timed, Apart, Empty>>}}
  \cup {MCStudy(program, c, primary, <<>>, <<>>, <<0>>) :
          program \in {"promotion", "corpus"}, primary \in {"clarabel", "scs", "moreau"},
          c \in {<<Loose, Apart, Empty>>, <<Timed, Failed, Stopped2>>}}

\* Stands for the hash: different for the scenarios, and moved by the seed.
MCRank(seed, id, policy) == (7 * id + 3 * seed + (IF policy = "random" THEN 2 ELSE 0)) % 5
-----------------------------------------------------------------------------
\* The observatory of gradients.

GScene(at, lower, upper, delta, previous) ==
  [at |-> at, total |-> 20, lower |-> lower, upper |-> upper, delta |-> delta,
   previous |-> previous, masked |-> FALSE, fails |-> {}, stopped |-> {}, errors |-> {},
   weighted |-> TRUE, moved |-> <<<<"none", 0>>, 0>>, pull |-> 4,
   targets |-> {"previous_action", "box_bounds", "policy_weight", "reference_action",
                "reference_weight"},
   native |-> "ok", newton |-> "converged"]

\* Proposals before, at and past both ends: of the box of one action, of the
\* boxes of both, of the rate, of a narrow segment, and of none.
Plain == {GScene(at, 2, 20, 20, 0) : at \in -26..26}
  \cup {GScene(at, 0, 20, 20, 0) : at \in -26..26}
  \cup {GScene(at, 0, 20, 7, 2) : at \in -22..22}
  \cup {GScene(at, 5, 20, 7, 5) : at \in -22..22}
  \cup {GScene(at, 0, 20, 2, 0) : at \in -12..12}
  \cup {GScene(0, 11, 20, 9, 0)}

Odd == {[s EXCEPT !.masked = TRUE] : s \in {t \in Plain : t.at \in {16, 20}}}
  \cup {[s EXCEPT !.fails = {f}] : s \in {t \in Plain : t.at \in {3, 18}}, f \in {3, 4, 7, 14, 19, 22}}
  \cup {[s EXCEPT !.stopped = {s.at}] : s \in {t \in Plain : t.at = 0}}
  \cup {[s EXCEPT !.errors = {<<s.at, e>>}] : s \in {t \in Plain : t.at \in {-20, 0, 16}},
          e \in {-9, -5, -1, 2, 5, 12}}
  \cup {[s EXCEPT !.errors = {<<s.at + 1, 9>>, <<s.at, -1>>}] : s \in {t \in Plain : t.at \in {0, 16}}}
  \cup {[s EXCEPT !.weighted = FALSE] : s \in {t \in Plain : t.at = 0}}
  \cup {[s EXCEPT !.native = n, !.newton = m] : s \in {t \in Plain : t.at \in {0, 16}},
          n \in {"ok", "raises", "not_finite"}, m \in {"converged", "not_converged", "raises"}}

MCGScenes == Plain \cup Odd
MCCorpora == {<<s>> : s \in MCGScenes}
  \cup {<<GScene(0, 2, 20, 20, 0), s>> : s \in Plain}
MCHosts == {{}, {"backward", "torch"}, {"backward", "jax"}}
MCGrid == <<1, 2, 4, 8>>
=============================================================================
