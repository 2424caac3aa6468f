# ConicShield, specified and checked

ConicShield puts a convex projection between a policy that proposes actions and
the simulator that carries them out. This directory holds TLA+ specifications of
the parts of it whose correctness depends on order, on reuse, on failure or on
who else is running; TLC configurations that check them on small instances; and
proofs, checked by TLAPS, that some of the results hold for every instance. Paths
below are relative to `src/`.

- [The system](#the-system)
- [Modules](#modules)
- [Runs](#runs)
- [Disagreements](#disagreements)
- [Fairness and deadlock](#fairness-and-deadlock)
- [Proofs](#proofs)
- [What is not modelled](#what-is-not-modelled)
- [Plan](#plan)

To check a run or a proof:

    tlc -config MCSharedPool.cfg MCSharedPool
    tlapm SolverPoolProofs.tla

## The system

    policy ──q-values──► InterSimConicShield ──spec──► projector cache (LRU)
                              │ previous distribution        │
                              ▼                              ▼
                         ShieldDecision ◄──release──  Moreau projector
                                                       │ template, buffers,
                                                       │ solver, setup, warm start
                                                       ▼
                              run_verified_release_pipeline (the ladder)
                                                       │ primary, cold retry,
                                                       │ public fallback, fail-safe
                              ┌────────────────────────┼──────────────────────┐
                              ▼                        ▼                      ▼
                     own CompiledSolver          SolverPool        Windows sidecar client
                     (lock or confinement)    (exclusive checkout)   │ stdin/stdout pipes
                                                                     ▼
                                                              Moreau worker process

    street graph ─► transition bank ─► replay, one episode per arm ─► summary ─► validator
                                                                                   │
    benchmark run ◄────────────────────────────────────────────────────────────────┘
         └─► finalize ─► release (family bump) ─► publish ─► CURRENT, HISTORY, registry ─► audit
         └─► runs/ ─► published_runs/ ─► index ─► metadata, READMEs ─► index ─► readers

    research   solve, shadow, sensitivity ─► bundle ─► replay checks ─► promotion gate
               soak per machine ─► reports ─► aggregate ─► status; invalidation
               stage-4 gate ─► observed place ─► CBF filter ─► control ─► next place
               corpus ─► primary ─► sampling policy ─► shadow ─► disagreements ─► studies
               proposal ─► verified forward ─► differences, KKT, backends ─► observation

**Shield adapter** (`conicshield/adapters/inter_sim_rl/shield.py`,
`conicshield/compilation/bounded_cache.py`). State: the distribution of the last
decision, an LRU cache of projectors by structural key, a second one of batch
projectors, the warm starts inside both. Operations: `choose_action`,
`project_softmax_batch`, `reset_episode`. It builds a specification out of the
context of a step and *rebinds* a cached projector to it. Hard: a projector that
was bound for another context, eviction, a step that fails half-way, a reset that
must reach everything. Correct when a decision fits the context it was made for,
nothing of an earlier episode survives a reset, and the cache keeps the recent
structures.

**Compiled Moreau projector** (`conicshield/core/moreau_compiled.py`,
`conicshield/compilation/compiled_template.py`). State: template, buffers, solver,
the settings it was built for, the fingerprint of its last setup, the warm start.
Operations: `project`, `reset_state`; its owner rebinds `spec` and `options` at any
time. Under `LOCK_PROTECTED` one lock covers a call; under
`POOLED_EXCLUSIVE_CHECKOUT` the solver comes from a pool for the time of a solve.
Hard: four things are reused independently, each with a test of its own for
whether it still fits, and a solve may raise after any of them changed. Correct
when what is reused always belongs to the present problem, settings and episode.

**Solver pool** (`conicshield/compilation/solver_pool.py`). State: per key a list of
solvers with `in_use` flags, under one condition variable. Operations: `checkout`
(idle entry, new entry, eviction of an idle key, wait with or without a timeout),
`return_handle`. Hard: waiting and waking, eviction under waiters, failing
factories, double returns. Correct when ownership is exclusive, the flags never
leak, the limits hold and no wake-up is lost.

**Verified release pipeline** (`conicshield/verification/fallback.py`,
`release_policy.py`, `feasibility.py`). State: of one call only: the rung, attempts,
deadline, history. Correct when only verified candidates are released, the ladder
is climbed down once, within limits, and it gives up only when nothing is left.

**Windows sidecar** (`conicshield/platform/windows_sidecar_client.py`,
`conicshield/workers/moreau_worker.py`, `conicshield/platform/sidecar_protocol.py`).
State: the worker process, two pipes, a restart counter, a lock, and the reader
threads that timed-out reads left behind in `readline`. Operations: `start`,
`close`, `project` with handshake, solve, fallback policies; the worker's loop.
Hard: late, torn and missing answers, deaths, restarts by several threads. Correct
when an answer is that of the request it is taken for, conversations are
serialised, workers bounded, and every call ends unless a write to the worker jams.

**Governed release** (`conicshield/governance/`: `finalize`, `release`, `publish`,
`family_bump`, policies and the command lines). State: files. A release writes
`CURRENT.json`, `HISTORY.json`, `registry.json` and `governance_status.json` one
after another; nothing makes the chain atomic. Hard: a command cut off between two
writes and retried, a run finalized again after its publication, two bumps of one
family. Correct when the files agree whenever the last command was completed, and
an arm is never published with a gate that is not green.

**Published runs** (`scripts/run_host_realistic_publish.py`,
`host_realistic_refresh_cycle.py`, `upgrade_host_realistic_vendor.py`, `finalize_community_dataset.py`
and what they start; `conicshield/published_run_index.py`, `published_runs/`, `benchmark_paths.py`;
the audit, the community metadata and the reference authority of `conicshield/governance/`).
State: a directory of a run under `runs/` and another under `published_runs/` that hides it,
its status, `COMMUNITY_METADATA.json`, `README.md`, the index with its digests, and the files of the
governed release. Hard: each of these is derived from others, which the same cycle changes before
and after, and a script may stop anywhere. Correct when, once the dataset was finalized, what each
file says of the others is so.

**Batched projector** (`conicshield/core/moreau_batched.py`). State: a solver for
batches and one for single rows, each with the settings it was built for and the
fingerprint of its last setup, and warm starts under keys joined from row ids.
Operations: `project_batch`, `reset_state`, `bind_spec`; options change at any time.
Rows that agree on the setup values are solved together, others one after
another. Hard: six things are reused under four different tests, and a key is a
text that is joined, split and searched. Correct when rows are solved as asked and
start from warm starts of the same rows that nothing has revoked.

**Episode replay** (`conicshield/bench/`: `transition_bank`, `replay_graph_env`,
`episode_runner`, `reference_run`; the counts of `artifacts/summary_builder.py`,
`artifacts/validator.py`, `artifacts/payloads.py` and `bench/metrics.py`). State: the
bank, the node of the episode, its counts. Hard: the room of the bank counts queued duplicates; what may be chosen and what a
step finds are computed apart; reasons, violations and matches are recounted
by up to six texts. Correct when the bank is a search tree of the graph, a
shield that projects falls back at dead ends only, an episode ends for the reason it gives, and the
recounts agree.

**Assurance bundles and the flagship demo** (`conicshield/experimental/assurance/`:
`builder`, `checks`, `levels`, `migration`, `replay`, `proof_carrying`;
`experimental/training/comparison_harness.py`). State: a bundle in memory and its dict
on disk, over three schemas; the stages of the demo and what each left. Hard:
the same rules are written three times, by the builder, the migration and the
checks, and a file takes any path of loads and saves through them. Correct when a
file that passes its replay claims no more than its evidence warrants, what is
intact passes, what is deprecated stays invalid, and the gate passes for genuine
evidence only.

**Platform soak** (`conicshield/experimental/assurance/platform_soak.py`,
`multi_host_soak_sim.py`, `status_report.py`). State: files, of several machines, of
whatever revision and edits their worktrees had. Hard: files of other runs under
the same names, runs cut off between two files, invalidation in place. Correct when
a ready aggregate is of real hosts at one clean revision and of nothing that was
invalidated, and a rejection cannot be outvoted.

**CBF filter, its horizon and its gate** (`conicshield/experimental/domains/`: `cbf_2d`, `cbf_rh`,
`cbf_corpus`, `infeasibility_taxonomy`, `stage4_gate`). State: the place of the agent, the steps so
far and the indices kept as negatives; the rows of a joint batch and of its
comparison; the statuses of six criteria. Hard: a property of a trajectory rests on one inequality per step, taken
where the agent was observed; a batch is one problem; verification is computed and
not asked. Correct when verified controls keep the barrier from step to step, also
under the noise the robust filter allows for: they leave of it all but `alpha * dt`; a batch answers what its rows do, and what a
green gate saw the loop would have done.

**Shadow solves and their studies** (`conicshield/experimental/solver_assurance/`:
`shadow_harness`, `sampling`, `sampling_study`, `disagreement`, `disagreement_corpus`,
`promotion_protocol`, `backends`, `hypotheses_eval`). State: the records of the primaries, what a
policy selected, the cases; per seed of a cell what was detected, and the cells. Hard: rates and
missed ids are put together out of harnesses of several seeds, and each of them is compared with a
baseline of its own solves. Correct when what a budget misses is what it did not look at, and more
budget misses no more.

**Observatory of gradients** (`conicshield/experimental/gradients/`). State: the report as its
stages fill it. Hard: the projection has kinks, and whether a derivative was taken across one
is decided by labels, by tolerances and by probes of three widths; and a solve may end inaccurately. Correct when
a derivative of accurate solves that is not marked is one.

**Specifications and what they mean** (`conicshield/specs/`, `conicshield/compilation/`,
`conicshield/verification/residuals.py`, `active_set.py`). No state. The limits a
`SafetySpec` puts on an action are written five times: rows of a compiled template
filled later for other data, a standard form, CVXPY constraints, residuals, active
constraints. Hard: each handles a missing previous action and an infinite rate in its own
way, by dropping rows, relaxing them to 1e12 or skipping them. Correct when all five ask
the same.

**The rest.** Backends, geometry
prior and context validation, the writing of run bundles, parity,
dashboards, the doctor and paths are functions of their
inputs or write their files once. The rest of `conicshield/experimental/` (frontiers,
capability matrices, corpora) is numerical research without state.

## Modules

| Module | Stands for | Uses |
|---|---|---|
| `SolverLease` | what an exclusive-checkout pool promises: leases | |
| `SolverPool` | `SolverPool.checkout`, `return_handle` | refines `SolverLease` |
| `PooledProjector` | `project` under `POOLED_EXCLUSIVE_CHECKOUT` | extends `SolverPool` |
| `ReleasePipeline` | `run_verified_release_pipeline` | |
| `CompiledProjector` | `project` and `reset_state` with a solver of its own | an instance of `ReleasePipeline` |
| `Sidecar` | client threads, pipes, stray readers, worker | |
| `ShieldQP` | specifications, their keys, and the encodings of their limits, as operators | |
| `InterSimShield` | the shield and its projector caches | extends `ShieldQP` |
| `GovernanceRelease` | finalize, release, bump, publish | |
| `PublishedRuns` | the scripts that build, publish, index and finalize bundles; audit, authority | extends `GovernanceRelease` |
| `BatchProjector` | `project_batch` and what may happen between two calls of it | |
| `TransitionBank` | `build_transition_bank` | |
| `EpisodeReplay` | environment, runner, arms, summary, validator | extends `TransitionBank` |
| `EvidenceBundle` | builder, checks, levels, migration, load, as operators | |
| `EvidenceArchive` | the life of one bundle on disk | extends `EvidenceBundle` |
| `FlagshipDemo` | the demo's stages, the gate, training's use of it | extends `EvidenceArchive` |
| `PlatformSoak` | soaks, aggregate, invalidation | |
| `CbfFilter` | one filter, its verification, its readers, as operators | |
| `CbfHorizon` | the receding horizon and the joint batch | extends `CbfFilter` |
| `Stage4Gate` | the six criteria in front of the horizon | extends `CbfHorizon` |
| `ShadowStudy` | backends, comparison, harness, sampling study, promotion protocol, corpus | |
| `GradientObservatory` | the observation of a derivative, its backends, the agreement study | |
| `ResearchPrograms` | which of the last three programs runs | extends all three |
| `SolverPoolProofs` | theorems of the pool and of its projectors | extends `PooledProjector` |
| `CompiledProjectorProofs` | of the compiled projector, of the encodings and of the shield | extends `CompiledProjector`, `InterSimShield` |
| `ReleasePipelineProofs` | of the pipeline and of the batched projector | extends `ReleasePipeline`, `BatchProjector` |
| `AssuranceProofs` | of the evidence, the flagship demo and the soak | extends `FlagshipDemo`, `PlatformSoak` |
| `ResearchProofs` | of the filter, the horizon, the batch, the gate, the observatory and the studies | extends `ResearchPrograms` |
| `SidecarProofs`, `EpisodeReplayProofs`, `GovernanceReleaseProofs` | of the component, `PublishedRuns` with the last | extend it |
| `MC...` | the instances TLC checks; `MCSharedPool` lets threads call `checkout` themselves too, `MCBatchRelease` and `MCAssurance` hold two components of which one runs | extend their components |

How state and actions correspond to the code:

**SolverPool.** `keys` and `bucket` are `_entries`; `inUse` is the set of entries
whose flag is set; `token` and `owns` are the last `SolverCheckout` of a thread and
whether it was returned; `pc`, `want` and `patience` are where a thread is in
`checkout`. Everything between two waits happens under the condition's lock, so
it is one action: `CheckoutIdle`, `CheckoutNew` (with the eviction it may need),
`FactoryRaises`, `RefuseFull`, `RefuseBusy`, `RefuseTimeout`, `Wait`; `TimeoutElapses`
and `NotifyAll` end a wait. `patience` keeps apart a wait that lasted as long as the
timeout and one that a notification ended, which the code does not. `Admitted`
leaves open *which* idle key is evicted, since that is dictionary order.

**PooledProjector.** One action per step of `_solve_compiled_pooled_template` and of
what follows it: `Project` (fill), `Checkout`, `Setup`, `Solve`, `GiveBack` (the
`finally`), `ReadInfo`, `Conclude`. The pool's variables are the pool's; `loaded`
and `info` are the vendor solver's, as this code uses it.

**ReleasePipeline.** `rung`, `attempts`, `history` are the locals of the function;
`solving` separates entering a solve from its end, so that the deadline may pass
in between. A candidate is what verification would find in it (`none`, `nonfinite`,
`violating`, `good`), a status what the release policy says of it.

**CompiledProjector.** The variables are the attributes of the class: `tmpl`,
`aLoaded`, `aValues`, `compiled`, `lastFp`, `warm`; `setup` is what the vendor solver
was really set up with. `Rebind` is the owner assigning `spec` or `options`; `Enter`
parses and syncs; `Solve` runs the steps of `_solve_with_compiled_template` up to the
one that raises, if any does; `Reset` waits for the lock. The ladder it climbs is an
INSTANCE of `ReleasePipeline`, whose actions its own conjoin. `used` keeps what the last solve ran with:
its solver, the setup, the warm start.

**Sidecar.** `inbox` and `outbox` are the pipes, as queues of messages; `strays` counts
the reader threads that a timeout left in `readline`; `torn` says that one of them
took bytes of the line a call is reading. A request, its binding digest and its
answer are the number of the call. The client's lock is held from `_ensure_running`
to the reply and *not* between a failure and the restart made for it. `_write` is two actions: `Send`
begins it, and `Sent` is its return, which waits while the pipe is `Full`; `Close` and `Closed` are the
same of the shutdown message. How many unread requests fit is `config.room`, chosen at the start.

**InterSimShield.** `previous` is `_previous_distribution`, `cache` the ordered
dictionary with the least recently used entry first; an entry holds what its
projector is bound to, the numerical digest, and the number of the episode its warm start was made in.
One call is one action, since a shield has one caller or a lock; `lent` is the warm start
its solver was given. `batches` keeps only the warm starts of the batch projectors, for rows that carry the
shield's ids and for rows of its caller's; any of them may be evicted when one is put. A projector may release any distribution that meets the rows of its
template, filled for its own bound specification, and is verified; or it raises: the
checks do not depend on the objective.

**ShieldQP.** Numbers are whole parts of one. `SafetySpecs` holds each kind of constraint at
most once; `Consistent` is the validator, `Lowered` is `parse_safety_spec_for_shield`. A row is
a pair of what it bounds and an index (`rate_pos`, 2): `Times` is its product with an
action, by the constants of `A`, and `Right` what `fill` writes into `b`. `Matches` is the
test that lets a template be filled for data it was not compiled for. `StandardRows` are the
rows of `build_moreau_standard_form`, `Admits` the constraints of the CVXPY projectors,
`Verified` and `ActiveSet` the verification. `OneMeaning` puts them side by side.

**GovernanceRelease.** The variables are the files. A command is a chain of actions,
one per write, and `Crash` may cut it off before any of them. `health` remembers
whether the update of a family was ever cut off and whether it was completed since.

**PublishedRuns.** `config`, `status` and `build` describe the directory a run resolves to, `work`
what a published directory hides. `script` is the script in progress and its next step; where
it releases, the chain of `GovernanceRelease` runs in between. A refresh cycle is `Remove` (with `--force`), `Build`, `Scaffold`,
`Clear`, `Copy`, `RefreshIndex`, `ReleaseRefreshed`, `Audit`, `SyncMetadata`, `SyncReadmes`,
`RefreshAgain`, `CheckProfile`, `CheckAuthority`, each with its refusal; shorter scripts take part of
it. `CutOff` may end any of them. `SyncReadmes` writes of a run what the table of its README says of "current", yes or
no, and what its first sentence says, which is not the same (disagreement 17). The instance starts from the committed tree (`TreeInit`); a tree
without a release (`Init`) is the proofs'.

**BatchProjector.** `slot`, `key`, `lastFp` and `warm` are the attributes; `built` and
`setup` say what each solver object was really built for and set up with, and `used`
keeps the last solve for the properties. `BeginBatch` is a call up to its first solver,
with every refusal; `Ensure`, `SetUp`, `Solve`, `Verify` are the steps after it, once for
a batch or once per row. Texts are sequences of characters, because `Join`, `Split` and
`InScope` are what goes wrong with them. A failure may raise at any step.

**TransitionBank and EpisodeReplay.** `BuildBank` pops one entry of the queue. A step is
`FreeStep` (the policy's or a random choice), `ShieldedStep` (one of
`AllowedActions`, or whatever the policy proposed where the bundle was made with `--passthrough-projector`) or `ShieldRaises`; each is the whole of `env.step` with its reward in
halves and its reason. `Finalize` ends an episode, `WriteBundle` sums up and validates.
`SummaryRow`, `Summarize` and `SummaryPayload` are the three texts that sum up an arm.
`graph` is chosen once, so every graph of the instance is replayed.

**EvidenceBundle, EvidenceArchive, FlagshipDemo.** A bundle and its dict are one kind of
record, whose fields may be absent. `MachineChecks` has one operator per check;
`Normalize`, `MigrateLegacy` and `Load` are the migration; `InferLevel` is `levels.py`.
`BuildAny`, `Save`, `LoadFile` and `Corrupt` (each corruption the checks have a helper
for) may come in any order and number. A sensitivity carries `active_set_stable` as its caller recorded it; the demo
writes a constant there. The demo's actions are its stages in their
order; `TrainingProbe` is the second caller of the gate, `Tamper` a projection changed
by whoever holds it.

**PlatformSoak.** `files` maps a path to a set of at most one report, as two runs of a
machine overwrite one another. `RunSoak` writes one report or two; `Aggregate` takes
*any* set of the files there; `Invalidate` annotates all of them, or some, when it is
cut off. `runs` and `revoked` are history for the properties.

**CbfFilter and CbfHorizon.** Points and controls are pairs of integers and a control is
the displacement of one step, so `alpha * dt` is the one fraction `Num / Den`, of any size. `Keeps` is what
a step is to leave of the barrier: `1 - alpha * dt` of it. `Result`
is a `CBFFilterResult` with its verification; `Answers` is the solver: an accurate one,
an inaccurate one, one that stopped, and failures. Comparisons of roots are made exact
by squaring (`AtLeastRoots`), so `RobustHolds` is the inequality of the code and not an
estimate of it. `RobustnessHolds` is the independent validation, which looks for the worst
noise instead. `Roll` is one turn of `_run_trajectory`; `Batch` the joint problem,
`Compare` one row of the sequential one it is compared with.

**Stage4Gate.** `gate` is the locals of `evaluate_stage4_gate`. A criterion is an action, or one
per case where it goes through a corpus (`EvaluateHeldOut`, `Audit`, `Recount`), since each case is a
solve; a batch that differs from its rows and a validation that finds no worst noise raise
(`Raised`) and end the evaluation. `ForcedPending` and `Missing` are its two ways to be skipped. `GatedStart` starts a
horizon that either does not ask or has the verdict just concluded. `held` keeps what a criterion
saw, for the property.

**ShadowStudy.** Actions are points of the integer plane. What a backend answers is data of a
scenario, one answer or, under a limit of time, several. `Begin`, `Primary`, `Select`, `Shadow` are the
two passes of `run_shadow_harness`, a scenario at a time; `Over` is what the caller does with the
report: the next seed, the next cell, the verdict of R1.H2, or what the other programs keep. A
ranking value, which is a hash, is the constant `Rank`.

**GradientObservatory.** Two actions have a fixed sum, so a solution is one number and every row of the
constraints limits it on one side. `Project` brings the proposal between `Lowest` and `Highest`, and
a difference quotient is kept multiplied out. The actions are the stages of
`observe_proposed_action_fd` in their order, two of which may be turned off; `Agree` is one row of the
agreement study, which asks for no verified forward. A solve is accurate, fails, is stopped by a limit, or ends as
`optimal_inaccurate` and misses the solution by an error (its sum is kept); `Verified`, the gate, asks only that the answer
satisfies the constraints. `Kkt` has each refusal of `exact_research_kkt_jacobian`. Of the derivatives of the vendor and of
the frameworks only whether there is one is modelled.

**ResearchPrograms.** The three are started on their own and share nothing; one run checks them
together.

## Runs

| Run | Instance | Shows |
|---|---|---|
| `pool` | 2 threads, 2 keys, room for 1 key and 1 solver, `checkout` called without a bound and then 2 calls of `project`, fair | exclusive ownership, leases, flags of exactly the solvers in use, whose keys are never evicted; timed checkouts conclude, waiters are woken; each project verifies the solution of its own problem, and every call ends |
| `compiled_projector` | 2 threads, 2 topologies, 2 settings, 2 weights, 1 reset | what a solve uses fits problem, episode and the settings of the moment |
| `release` | the ladder: 4 rungs, 3 attempts, a deadline; the batches: 1 owner, 1 or 2 rows, 2 names of which one is in the other and holds the separator, 2 topologies, settings and weights, 3 solver objects | only verified releases, ladder in order, no rung passed over without cause or entered after the deadline; rows solved as asked; warm starts of rows with the same key, none revoked |
| `sidecar` | 2 threads, 2 calls, budgets of 0 and 1 restarts, a pipe with room for one unread request or for part of one, 1 start or close, fair | paired replies, no foreign reply, every call ends unless a write jams |
| `shield` | 2 actions, quarters of probability, 3 caps, 2 rates, cache of 2, 1 reset | decisions fit their context; the encodings agree |
| `shield_episodes` | 2 actions, no caps, cache of 2, rows of 2 owners, 2 resets | no solver is started from an earlier episode |
| `replay` | the graphs of 4 addresses with 4 kinds of crossing, 2 rules, 2 arms, 2 intersections, with and without the passthrough projector | the bank is a search tree; a shield that projects falls back at dead ends only; reasons and recounts |
| `assurance` | the evidence: 7 solves, 8 sensitivities, deprecated files of every level and flag and those relabelled, 2 fields gone wrong; the soaks: 2 machines, one without git; 3 revisions, 2 corpora, 2 runs, 1 change | levels warranted by what the checks look at, intact bundles pass, deprecated ones stay invalid, the gate is earned; ready means one revision; what was revoked or rejected stays so |
| `evidence_stability` | the same | *violation* of `LevelThreeIsStable` (disagreement 21) |
| `research` | 4 scenes, 25 controls, horizons 1 and 4, 2 batches of 2, 2 held-out cases; studies of up to 4 scenarios out of 7 with 2 or 10 policies, 3 budgets, 2 seeds; proposals in 6 specifications and odd variants of them, accurate and not | verified steps leave of the barrier what they should, noise covered, batch is sequential, a green gate speaks for the loop; what a budget misses it skipped; an unmarked derivative of accurate solves is one |
| `governance` | 2 runs, 2 task surfaces, 2 families, 2 finalizations, 2 releases after the committed one, all scripts | native arm has green gates, files agree, history alternates, compatible replacement; a finalized dataset is aligned: its index is what a new one would be, and after a refresh metadata and the tables of READMEs show what is current |
| `published_readmes` | the same | *violation* of `ReadmesAreAligned` (disagreement 17) |

Why these bounds are enough to meet the hazards:

- *pool*: with one solver for a key every second checkout contends, and with room for
  one of two keys every change of key evicts, waits or is refused; a failing factory
  can strike after an eviction. What two threads cannot show, several waiters of one
  return, is covered by the proof, which is for any number. The projectors find the pool
  in any state that callers of `checkout` left it in, some of whom still hold or wait. That
  nobody calls `checkout` anew once a projector is used bounds the wait of `project`, which has no timeout.
- *release*: the two share nothing, and one run checks them together. Three attempts cut the ladder off before its last rung when all of
  them were tried and not when a cold retry did not apply. The parameters are
  general in the proof. Of the batches,
  what is reused is what the last batch of its size, the last single row or the
  last setup left, so two values of everything suffice. Names of which one is part of
  the other tell `in` from equality, and one with the separator in it is what a joined key may be taken
  for. Calls are not bounded.
- *compiled_projector*: what is reused depends on the last solve only, so two values
  of everything suffice for a stale one; a reset on the second thread meets every
  state of a call. Four attempts never limit, so that all rungs are reached.
- *sidecar*: two calls let a late answer of the first meet the second; a budget of no
  restart is spent by the second call; one start or close is a user's intervention at any
  moment. With room for one request the second of a worker that does not read jams, with none the
  first does.
- *shield*: two actions give three sets of allowed ones and one that is empty, over a
  cache of two, so every third structure evicts. Quarters distinguish a cap of one half
  from a rate of one quarter or three. The episodes' run needs no numbers but more of them: with three episodes
  a warm start can be older than the last reset. `BoundedLRUCache` for batches has at least four
  places in the code, hence the abstraction above. The encodings are compared on all actions
from minus one quarter to five quarters, so one step beyond each bound, for every
specification a projector is ever bound to, with and without a previous distribution; other
specifications (no box, no rate, rates of which some are infinite) are the proof's.
- *replay*: the crossings hold a dead end, a way back, two edges to one address and an
  edge that is shared by two nodes; four addresses and a depth of two put some out of
  the bank, and two intersections let the limit, the edge of the bank and a dead end
  compete for the reason. Queued duplicates use up the room for four nodes, so that
  edges are left out although there are no more addresses than that.
- *assurance*: the evidence and the soaks share no file, and one run checks them together. Every combination of evidence a level or a check tells apart is among the
  solves and arguments; a migration is applied at most twice, and loads and saves are
  not bounded. Two faults allow one that hides another. Three revisions give a change of code and a change of corpus; two runs are the
  least that an aggregate can join, on one machine or two, and with the leftovers of a
  run cut off and the clone of a simulation there are up to six files to choose from.
- *research*: the scenes approach the obstacle head on, skirt it along a tangent, start on
  its edge and inside of it; four steps cover the distance. The proofs are for any
  plane. Every order of three of the six scenarios that have one answer, and some with one that has two,
  meets every budget below, at and above half, so that a policy may rank any of them first. The proposals go step by step from
  beyond one end of the feasible segment to beyond the other, and the tolerance, the step, the weak band
  and the probe are ordered as in the code; one specification is narrower than the differences
  reach, one has no point. Errors of inaccurate solves range from below what the gate lets through to beyond the
  weak band, of the proposal's solve and of those next to it.
- *governance*: two runs are enough for one to supersede the other, in a compatible
  way or not; a second finalization may come after the publication. The tree holds a
  release already, so two more are one that is cut off and its retry, or a bump and the
  release after it. Scripts that only derive files are not bounded. Gates are all green, or
  parity is red: what a gate may hold beside that is the proof's.

Every property was seen to fail when the code it is about is changed in a way a
mistake could: the definitions marked `MUTANT` in the modules are those changes.

## Disagreements

Places where the code does what a document, a comment, a test or a neighbouring text of
it says otherwise, or what nobody seems to have decided. They came up while the
modules were written or when a property was stated too strongly at first; each can be
seen again by stating the stronger property. Two of them are stated as properties, as a text of the
repository says them, and refuted by a run (`published_readmes`, `evidence_stability`). Where a property of a passing run would
stumble over one, it leaves the case out and says so.

*Pool and projectors*

1. `checkout` with a timeout waits once and then sets `deadline_remaining = 0.0`
   (`solver_pool.py:128`). A waiter that a return woke, and that another thread beats to the
   solver, raises "timeout waiting for solver checkout" although its time has
   hardly begun.
2. `_primary_solve` reads `solver.info` after the pooled solver was returned
   (`moreau_compiled.py:617`, after line 319): the status that verification sees may be
   another thread's.
3. Batch keys are joined with `|`: the rows `1` and `2` have the key of a row named
   `1|2` (`moreau_batched.py:528`), and start from its solution.
4. A `solver_pool` makes the batched projector declare `POOLED_EXCLUSIVE_CHECKOUT`
   (`moreau_batched.py:160`), but `project_batch` takes no solver from it. Likewise,
   `interfaces.py` neither allows nor forbids that threads share one pooled projector,
   whose buffers no lock protects (`moreau_compiled.py:309`).

*Sidecar and shield*

5. `_apply_fallback` restarts whatever worker it finds (`windows_sidecar_client.py:512`): of
   two calls that failed on one dead worker the second kills the healthy replacement.
   And `max_restarts` admits one restart more than it says (`WorkersBounded` states
   the bound that holds).
6. An empty set of admissible actions becomes the set of all actions (`shield.py:403`).
   The test that says it fails closed (`tests/test_shield_spec_edge_contexts.py:84`) also
   caps every action at zero, which is the only case that does.
7. `_write` writes and flushes under the client's lock and without a timeout (`windows_sidecar_client.py:277`),
   and so does `close`. A worker that neither reads nor dies keeps the writer once its pipe is full,
   and with it every thread that waits for the lock: the timeouts of answers do not help.
   `EveryCallEnds` assumes that no write stays jammed.

*Governance*

8. Two runs that bump the same family are both given the next version (`release.py:98`):
   the second enters it in the registry again, which `audit.py:203` calls an error, and
   empties its history.
9. A publication cut off after `CURRENT.json` and retried records the run as
   superseded by itself (`publish.py:85`).
10. READMEs are rendered from the catalog of the index before the release: after a cycle that
   released they say "review-locked" where status and index say "published", and
   `sync_published_run_readmes.py --check` fails.
11. A new milestone with `--promote-release` is not in the first index of its own cycle, because
   nothing names it yet: no metadata is written for it and the validation of the profile
   fails. The snapshot of the authority names the flagship, so the cycle of another
   run is never aligned.
12. A refresh of the current run with another task surface is refused, but has overwritten
   the published bundle by then; a second one compares the new configuration with itself and
   releases it. The refused cycle leaves CURRENT with green gates for a bundle whose own status
   is "candidate", and the audit passes.
13. `--promote-release` "requires approved governance_decision.md" (`host_realistic_refresh_cycle.py:81`);
   the word it looks for is in the template as well, and the approval of an old bundle is
   carried over to the rebuilt one.
14. A cycle without `--force` leaves a rebuilt bundle under `runs/`. A later refresh of the
   governance alone copies the status of that bundle onto the published one.
15. `_copy_to_published` removes a bundle before it copies the new one: cut off in between, the
   published bundle is gone.
16. `refresh_published_bundle_readmes.py:6` says that `finalize_community_dataset` leaves metadata, READMEs
   and index aligned. It syncs those of the runs the *old* index lists (`finalize_community_dataset.py:30`)
   and then makes a new index: a run that is governed again in between is listed with the metadata
   it had before. It takes two releases cut off between `CURRENT.json` and the deprecation of the
   previous run, more than the bounds of `governance` allow (TLC shows it with 4 releases, 2
   finalizations and one version per family, in 28 states); `DatasetIsAligned` claims it of
   refresh cycles, where it is proved.
17. `_render_readme` makes the flag of the current run a text, `yes` or `no`
   (`scripts/sync_published_run_readmes.py:50`), and hands the text to a sentence that tests it as a flag (lines 80 and
   31): the README of every governed run calls it the family's current run in its first sentence, also where its
   table says no (run `published_readmes`).

*Assurance bundles*

18. A bundle with a live sensitivity and no independent shadow is level 3 to `levels.py`
   and fails the checks of `checks.py` (lines 162 and 175). One with residuals that are
   not numbers never passes its own replay, and one of level 4 fails it because the
   manifest it was built with is not among its extras.
19. A live sensitivity with a metric and no finite-difference verdict counts as compared
    (`builder.py`, near line 260). The machine checks never recompute the forward digest.
    The stage that shows that incomplete evidence is rejected passes vacuously when there
    was no sensitivity to strip (`proof_carrying.py:1297`).
20. The gate accepts a projection that claims level 4 without several hosts, and a replay
    on the same host counts as one on another where Moreau is installed.
21. `ASSURANCE_SEMANTICS.md:52` and `levels.py:18` ask for active-set stability at level 3. `is_live_validated`
   (`evidence.py:183`) does not read `active_set_stable`, nor does any machine check (run `evidence_stability`).
22. A verified feasible bundle has its residuals within tolerance (`ASSURANCE_SEMANTICS.md:30`). The migration takes a
   deprecated file's flag for it, and no check compares a residual with a tolerance. Nor does
   a check see that the residuals of a built bundle are small, which only its builder did.

*Soak*

23. A report without a commit slips through the rule of one revision, and the rejection for
    a missing commit is lifted by adding a report that has one.
24. A host id contains the role, so a machine that ran two roles counts as two hosts.
25. A second invalidation overwrites the verdict kept by the first as historical with
    `False`. The status report, as it runs by default, invalidates a fresh and genuine
    aggregate before it renders it; only `--skip-invalidate` shows it as ready. An
    invalidation cut off leaves files that still count.

*CBF filter*

26. `verify_cbf_candidate` is to decide "never value-only"; the loop of `cbf_rh.py:383`
    applies any finite control whose status is optimal or nearly so, and never asks the
    verification: an inaccurate one that was rejected moves the agent.
27. `alpha` and `dt` are validated apart. With `alpha * dt` above one the inequality of a
    step still leaves `1 - alpha * dt` of the barrier, which is less than none: with `Num = 2`, `Den = 1` TLC takes
    an agent with a verified control into the obstacle in one step. `BarrierKept`, `RobustCovers` and `GateSpeaksForLoop`
    say what is left; that an agent stays outside they say only where `Num <= Den`. No text of the repository says that it does
    for any `alpha` and `dt`.
28. The status `no_filter` is unknown to `_map_status`, so that the branch of
    `cbf_2d.py:628` for a passthrough that passed is never entered: nominally it is always
    rejected. The robust filter releases the same control unverified.
29. A batch of which one row is infeasible answers with no control for any row, and the
    comparison with the sequential solution passes over such rows: "batch equals
    sequential" is not so then, and nothing raises.
30. A run of the horizon with an unavailable baseline applies nothing and reports that it
    ran.
31. The gate's criterion of disagreement fails when the filters agree exactly, since
    `float(l2 or nan)` reads a distance of zero as none; that of stage 3 accepts any finite
    control without asking its status; up to a twentieth of unexplained failures pass.

*Shadow studies*

32. `disagreement.py` adds the label of a one-sided failure after `classify_disagreement`, so it never
    counts towards `COMPOUND`. `expected_regime` of a corpus entry is always empty.
33. "False-skip: baseline positives never selected" (`sampling_study.py`): under a limit of time a
    selected scenario whose shadow does not fail again counts as skipped.
34. No caller sets `fingerprint_seen`, so `UNSEEN_FINGERPRINT` ranks by the tie-break of the hash
    alone; a primary without a point has the lowest score under `RESIDUAL`.

*Gradients*

35. `kkt_research.py:7` is to fail closed when the set of active rows is degenerate or changes under a
    micro probe. The probe of 1e-8 moves a solution by half of the tolerance by which a row is
    active, so that after an accurate solve it can never change the set; "degenerate" is a distance
    to a row, never a multiplier near zero.
36. `active_set_protocol.py` compares families of constraints: both ends of a segment narrower than the
    differences reach carry the same labels, and the transition across them is "stable". A step
    of the grid below the tolerance of the labels takes a kink for stable too, with half the derivative.
37. The reference weight is clamped at zero while it is lowered: its central difference at less than one
    step is half of what it should be. A "forward" difference of the second action is one to the other side.
38. `run_pytorch_autograd`, `run_jax_autodiff` and the fall-back of `run_smoothed_study` do not ask whether
    Newton's method converged, which `smoothed_backend.py` refuses. The old fields of the observation
    solve again, and are stamped with the digests of the verified forward.
39. `kkt_research.py:6` is to fail closed when the "forward solve is infeasible / non-optimal". Line 186 asks only that
    the status contains "optimal", as `optimal_inaccurate` does, and the gate of `forward_gate.py` only that the answer
    is feasible; the agreement study has no gate. A derivative is then that of a place the solution is not at,
    where `kkt_research.py:6` says "Fail closed".

*Bundles*

40. The failure rate of solves is over steps with a solve time in `summary_builder.py:88` and over
    steps with a solver status in `metrics.py` and `payloads.py`: with steps that have one and
    not the other the summaries of one bundle differ. (The rates in `RecountsAgree` do not.)

## Fairness and deadlock

Safety runs use `Spec` (`PoolSpec`, `SoakSpec`, `ShieldSpec`, `BatchSpec`, `TreeSpec` and `ResearchSpec`
where several modules meet in one; `SharedSpec`, `BothSpec` and `AssuranceSpec` in the `MC` modules). `FairSpec`,
`PoolFairSpec` and `SharedSpec`, which has the fairness of the pool and that of its projectors, add, and only where a liveness
property needs it:

- *SolverPool*: weak fairness of a running thread's attempt, of the end of a wait with
  a timeout, and of returning a solver, which the projectors do in a `finally` block.
  Nothing is assumed of who wins a race: a `forever` checkout may starve, and the code
  promises nothing else, so the property is that waiters are *woken*.
- *PooledProjector*: weak fairness of the steps of a call in progress. Starting calls is not
  fair. Calls are bounded by `MaxCalls`, and nobody else calls `checkout` anew once there was one, which is why even an
  untimed checkout gets its turn.
- *Sidecar*: weak fairness of the steps of client threads, whose waits for answers all have
  timeouts. Nothing of the worker: it may never answer, and never read. A write that it does not take has no
  timeout (disagreement 7), so `EveryCallEnds` is conditional: it says of each behaviour in which no write
  stays jammed that every call ends.

`CHECK_DEADLOCK FALSE` is set where a bound on calls or commands lets the system
stop (`pool`, once projectors were used, `sidecar`, `governance`) and where the demo is over and nothing is left
to corrupt (`assurance`). Elsewhere deadlock is checked. The replay, the evidence, the soak
and the research programs are sequential programs that loop over bounded data: their modules state
no fairness, because that they end is not in question.

## Proofs

The theorems hold for every value of the constants that satisfies the named
assumptions, which are what constructors enforce or plain distinctness.

**SolverPoolProofs**, from `LimitsAssumption`, `NoSolverAssumption` and
`NoThreadAssumption`. `OwnershipInv` joins exclusivity, flags and wake-ups, because none
is inductive alone: exclusivity of a new grant needs that a solver outside `in_use` is
owned by nobody, which is what the flags say; that flags survive an eviction needs
that an owner's key is present; that a waiter's key survives needs that a waiter's
bucket is all in use. A thread that owns is idle, so that the key of its handle
does not change under it. `LimitsInv` adds finiteness, which cardinalities need.
`PoolImplementsLease` maps each solver to the thread that owns an unreturned handle of
it: a grant is an `Acquire`, a return a `Release`, everything else a stutter.
Exclusivity makes the `CHOOSE` in that mapping unique (`HolderIsOwner`).
The second part is about the projectors that share the pool, from `CallsAssumption`. `UsesPool`
comes first: every action of the projectors is a step of the pool or leaves it alone, so
the pool's ownership invariant may be used as a lemma. `HoldInv` then says that a thread owns a solver in
exactly the stages between checkout and `finally`, and that a solver past its setup is loaded with
the call of its holder (`SetUpForCall`): another thread's setup cannot reach it because
ownership is exclusive. What the loaded call says is not protected after the return,
and no theorem is about the status read then (disagreement 2).

**ReleasePipelineProofs**, from `PipelineAssumption`. The properties speak mostly of
finished calls; `LadderInv` says what makes them true of a call in progress:
`HistoryIsAbove` (what was tried ranks above the present rung, and was not accepted),
`NoneLeftOut` (while time and attempts last, no configured rung above was left
out), `SolvingIsAllowed` (a rung in progress applies and has an attempt to spend).
`Verified`, `InOrder` and `Exhausted` follow from it; `NothingAfterDeadline` is a
property of single steps.

The second part is about the batched projector, from `BatchAssumption` (ids are texts and not empty;
None is no value; there is an object besides any two, so that a solver can be built) and
`Confined`, the one owner that `INSTANCE_CONFINED` asks for: with two threads
`RowsSolvedAsAsked` is false (disagreement 4). `BatchInv` says of each slot that its solver was built for
the slot's key and, when a fingerprint is remembered, set up with it (`SlotsFit`: the two slots never
share a solver, or the setup of one path would undo that of the other), and of the call under way
that from `_ensure` on its slot's key is that of its rows and options and from `_setup` on the
fingerprint is that of its row (`Underway`). For the warm starts `WarmInv` adds that each is kept under
the joined key of its own rows, of the present topology. `WarmStartsFitRows` follows for any names; where
none of them holds the separator (`Plain`) a joined key tells its rows apart (`PlainKeysTellRowsApart`), and a warm start is of the very
same rows, which disagreement 3 breaks otherwise. `VoidWarmStartsAreForgotten`: a key holds each of its
names (`KeyHoldsRows`), so `in` finds it. `Join` is recursive, over any number of rows:
`FlattenedHolds` is an induction made without the library's theorems, by the least position at which
it would fail.

**SidecarProofs**, from `ConfigAssumption`. `OneConversation` comes first: every step of
a thread either takes the free lock, or gives its own back, or stays on its side
(`Moves`), and the other arguments use that only one thread is in a conversation.
`Matched` needs nothing else, since the digest is compared where the answer is taken.
`Bounded` needs that a worker about to be spawned was counted already, or a thread is about to close the present one (`BoundInv`);
`Paired` that a live worker owes one reply per reader, counted with a reader of at
most one conversation (`OwedInv`); `NothingForeign` that a handshake is alone on new
pipes, that a started worker's pipes hold neither hello nor ack, and that a thread in a
call has a request (`HandshakeInv`, `CallInv`). `EveryCallEnds` rests on
fairness and is TLC's.

**ResearchProofs**, from `CbfAssumption`, `HorizonAssumption` (scenes and the rows of a batch are cases, a
batch has a row) and `GateAssumption` (so are the held-out cases): any plane of integer
points, obstacle, noise and solver, and any `alpha * dt`. Two lemmas carry
the mathematics. `AffineKeeps`: h after a step is h before it, plus the first-order term, of which the
constraint says that it takes at most alpha dt of h, plus the square of the displacement. `RobustKeeps`: with X what is
left of the constraint once its two roots are
spent, h at the unknown place after the step is (1 - alpha dt) h there plus X plus two products of the noise, each of
which Cauchy and Schwarz bound by one of the roots (`Scaled`, `RootsSuffice`), plus terms
that are not negative. Where alpha dt is at most one, outside stays outside (`KeepsOutside`). `BarrierKept` speaks of a prefix of verified steps and is not
inductive alone: `HInv` adds that each step begins where the one before ended (`Chained`),
that its result is the filter's answer for the agent *at that place* (`Recorded`), which
is what a filter that sees a stale place would break, and that a recorded violation is one
(`Violated`). That a passed result meets its constraints is `VerifiedControl`, by the
endings of a filter.

The second part is about the joint batch and the gate. Since all research programs run side by side,
`ResearchImplementsHorizon` comes first: `ResearchSpec` implements `Spec`, and what was proved of the
horizon holds there. Of the batch `BatchInv` says which rows its results are of and which rows were
solved alone so far; that the solver's one answer is each row's own nearest control rests
on there being a nearest one (`NearestIsAllowed`: distances are numbers, and a set of numbers has a
least), and on `JointIsOne`, that one problem has a control for all rows or for none. `GateInv`
says of an evaluation in progress which criteria it has been through (`InOrder`), that a held-out case
it kept was answered as the filter would (`HeldOutAsked`, `HeldPassed`) and what its verdict follows from
(`Concluded`). `GateAndLoopAgree` joins it with `HInv`: what the gate saw of a case and what the loop did at
the same place are the same control where both were solved accurately, and a robust control the
loop applied is one the gate's independent search for the worst noise confirms
(`NoiseOutweighed`, `RobustIsConfirmed`).

The third part is about gradients, from `ArgumentsAssumption` and `StepsAreOrdered` (the probe is
smaller than the tolerance, and that than the step). A scene is a segment whose ends are a greatest and a
least row (`Ends`), and an answer is the target, moved to the end it lies beyond, plus the error of its solve
(`AnswerClamps`); where the solves are accurate that is the projection (`ProjectionClamps`). What
the backends mean by a derivative is then a number, `Slope`, at every point but the two ends. Where the segment is
wider than the differences reach, labels that agree at three solves put all three on one side of every
end (`StableIsSmooth`), so that the difference, the multipliers' answer (`KktIsDerivative`) and the class of a transition
speak of the same slope (`BoundDerivative`); on a narrower one they need not (disagreement 36), and the
property does not say so. Of a solve that misses by less than the weak band, what the KKT system finds of the rows is true of the
place it landed at: none is closer than the band unless it is active (`KktIsClear`), so the derivative is that of a place
nearby (`KktIsNearby`). `GradInv` says what each stage of an observation filled in, and that an unverified
report is empty.

The fourth part is about the shadow studies, from `StudyAssumption` (cases and answers are finite and typed; a baseline
takes the first seed, so there is one; a study without a named policy takes all; budgets are quarters).
`StudyInv` says how far the passes of a harness are (`HarnessFits`), what each holds where the
backends are reproducible (`HarnessSolves`: the features a selection sees are a function of the corpus,
including the active set its family left), and the same of each seed's run and of each cell (`RunFits`,
`ResultFits`). `MissesAreSkips` follows for every pair of cells: a greater budget selects no less (`RoundingGrows`,
`BudgetGrows`, `SelectionGrows`), the whole budget selects all (`FullSelectsAll`), and what the seeds found and skipped adds
up (`SumsAddUp`, `SumsOrdered`). The sums are folds over sets of seeds; `SumIsReached` is an induction over subsets,
made by the smallest one on which it would fail.

**CompiledProjectorProofs**, from `ProjectorAssumption` and `NoneAssumption`. `ReuseInv` gives
each of the independent tests for reuse its reason: a loaded `A` is the template's
(`FilledForTemplate`) and a remembered fingerprint is that of what the solver is set up
with (`FingerprintIsTrue`), also after a solve that raised between the two.
`SettingsAreObeyed` is about
single steps: a step that changes what a solve ran with either leaves no solver in it or goes through the test that
rebuilds one whose settings are not the options' any more. The second part of the module is
about what a topology stands for, from `QPAssumption`: `EncodingsMeanTheSame` holds for
any integer data, not only for what a shield asks, and for a template compiled for other data
(`RateRowsCover`: `Matches` leaves no limited action without its rows). It assumes that the numbers
at hand stay below the 1e12 of a relaxed row (`Moderate`), without which a relaxed row
is a limit. The sum of an action is a fold over a set; `TotalIsInt` is an induction over its size, made by
the least size at which it would fail. The third part is about the shield, from `ShieldAssumption` and
`AbsentAssumption` (Absent is no number and no limit). `CacheInv`: every entry of the cache is bound to the
specification of some context, under that specification's key and digest, and every warm start is of the present
episode, there and in the batch projectors, whoever named the rows. A reset, an eviction and a rebind keep it in any
order, hence `WarmStartsOfEpisode` and `CachedEncodingsAgree`; `DecisionsFitContexts` is about a
step: what a projector that was found, made or rebound may release is within the bounds of the context
asked for, not of the one it was made for.

**EpisodeReplayProofs**, from `BankAssumption` and `ReplayAssumption`. A shield that projects answers with an edge where there
is one, and where there is none the step it takes ends the episode: `ShieldIsFollowed`. That the recorded reason is
the true one needs a statement of a step in progress: while no
reason is recorded, every step so far has passed one intersection and their number is
below the limit (`Progressing`). So the environment ends every episode, and the
runner's own bound on its loop never does. That the bank is a search tree needs what keeps a breadth-first search
honest (`BankInv`): the queue is in the order of depths and holds two of them at most (`InOrder`), a node and its edge
are one apart (`Rooted`), what is queued is as near as it says (`Reached`), and, unless the limit of nodes cut some off,
the neighbours of every node are in the bank or queued no deeper (`Followed`). The nodes within a distance are
a recursive function of it, which exists and is one (`ReachesExist`), again by a least counterexample. `CountInv`
says that a step was punished where it broke the rule of its arm, and that the counts of an episode are those of its steps; an arm's
row adds functions that agree point by point (`SumsAgree`), so that the validator finds nothing
(`BundleIsValid`).

**AssuranceProofs**, from `ActionAssumption`, `OldDictsAssumption` and `PlatformSoakAssumption`. A dict
found on disk is of schema v0, with any flag and any residual (`OldDictsAssumption`). Every step of the demo is one of the archive
(`StepOfArchive`), by which the archive's properties are proved once. `DictsInv`: whatever was
built, migrated, loaded, saved or corrupted has the shape of a dict, and, unless it began as a deprecated file, a flag
that is only set where the residual is small. The first is all the checks need to tell a level warranted by what they look at,
the second what the builder owes: `LevelsAreWarranted`. What the document asks beyond that is false of the code
(disagreements 21 and 22). `DeprecatedInv` and `IntactInv` follow
one origin through any number of loads and saves. For the gate `DemoInv` says that while the demo's bundle can be
trusted the file, the bundle and the projection are twins made of one solve (`Twins`), and `GateInv` which caller was
let through on what. Of the soak (finite sets of machines and roles; a request names one corpus)
`FilesInv` says that every report tells what was the case when its run ended and that whoever an
invalidation covered says so in every copy, and `AggregateInv` that an aggregate's verdict
is that of its rows. Both are needed at once: an aggregate takes any set of files, at any time
between the annotations of an invalidation.

**GovernanceReleaseProofs**, from `GovernanceAssumption` and `NoneAssumption`, for any number of
commands and crashes. `NativeInv`: also a status that is not published is green where it is native,
since any of them may be released or synced next. `CompatInv`: between the check and the
write of `CURRENT.json` nothing changes what was checked, as one command runs at a time,
and only a chain that leaves the family of its run goes through the steps of a bump. `FilesInv` says for each step of
the chain which files are written by then (`Progress`): this is what a crash leaves
behind, and why a retried command mends it. `HistoryInv` follows one history through
the chain (`Telling`); it speaks of families that were never cut off, because a retry after a crash
does write a run twice (disagreement 9). The second part lifts all four to `TreeSpec`, from
`PublishedAssumption`: by `TreeStep` every step of the scripts is a step of the governed release
or happens beside it (`Aside`: no release is in progress, and only configurations and statuses change,
to such that `finalize_run` wrote). That needs to know what is hidden under `runs/`, since a script may
copy it over a published bundle later (`TreeInv`). `DatasetsAreAligned` rests on two more: the family of the
flagship always has a current run (`HeldInv`), and `RefreshInv` says for each step of a refresh cycle what it
can rely on: nothing releases meanwhile (`QuietInv`), the metadata of a run outside the index are those of
before or none (`MetaInv`), a bundle the cycle rebuilt has the status that was finalized for it (`RebuiltInv`),
and its release is either in progress or shown (`ReleasingInv`, `ReleasedInv`, `ShownInv`).

| Theorem | Run that checks its property |
|---|---|
| `SolverPoolProofs!Exclusive`, `Flags`, `PoolImplementsLease` | `pool` |
| `SolverPoolProofs!TypeCorrect`, `NoWakeupIsLost`, `Bounded` | none: proved only |
| `SolverPoolProofs!OwnProblem` | `pool` |
| `SolverPoolProofs!UsesPool`, `HeldWhileSolving` | none: proved only |
| `ReleasePipelineProofs!Verified`, `InOrder`, `Exhausted`, together `LadderSound`; `NothingAfterDeadline` | `release` |
| `ReleasePipelineProofs!RowsAreSolvedAsAsked`, `WarmStartsFitRows`, together `RowsAreServed`; `VoidWarmStartsAreForgotten` | `release` |
| `ReleasePipelineProofs!TypeCorrect` | none: proved only |
| `SidecarProofs!Paired`, `NothingForeign` | `sidecar` |
| `SidecarProofs!TypeCorrect`, `Matched`, `Serialised`, `Bounded` | none: proved only |
| `CompiledProjectorProofs!SolverMatches`, `WarmStartOfEpisode`, `SettingsAreObeyed` | `compiled_projector` |
| `CompiledProjectorProofs!CachedEncodingsAgree`, `DecisionsFitContexts` | `shield` |
| `CompiledProjectorProofs!WarmStartsOfEpisode` | `shield_episodes` |
| `CompiledProjectorProofs!EncodingsMeanTheSame` | none as such; `EncodingsAgree` of `shield` checks `OneMeaning` |
| `EpisodeReplayProofs!ShieldIsFollowed`, `EndsForItsReason`, `BanksAreSearchTrees`, `CountsAgree` | `replay` |
| `AssuranceProofs!LevelsAreWarranted`, `DeprecatedRemains`, `IntactBundlesReplay`, `GatesAreEarned` | `assurance` |
| `AssuranceProofs!ReadyAggregatesAgree`, `RejectionsRemain` | `assurance` |
| `ResearchProofs!BarrierIsKept`, `NoiseIsCovered` | `research` |
| `ResearchProofs!BatchesAreSequential`, `GateAndLoopAgree`, `UnmarkedAreDerivatives`, `MissedIsUnlooked` | `research` |
| `ResearchProofs!ResearchImplementsHorizon`, `HorizonInvariant`, `ObservationInvariant`, `StudyInvariant` | none: proved only |
| `GovernanceReleaseProofs!NativeArmsAreGreen`, `ReplacementIsCompatible`, `FilesAgree`, `HistoriesAlternate`, and the same of `TreeSpec`: `TreeNativeArmsAreGreen`, `TreeReplacementIsCompatible`, `TreeFilesAgree`, `TreeHistoriesAlternate`; `DatasetsAreAligned` | `governance` |

Every safety invariant and action property that a passing run checks is a theorem. Only model-checked, since they are out of
the prover's reach: liveness under fairness (`EveryCallEnds`, `NobodyIsStranded`, `ProjectConcludes`) and `ENABLED`.
Induction over data cannot be instantiated from the library; where a theorem needed it (`TotalIsInt`, `FlattenedHolds`,
`NearestIsAllowed`, `ReachesExist`, `SumIsReached`) it is made by a least counterexample, which takes one lemma for each
operator and does not extend to operators that take operators.

## What is not modelled

- *Arithmetic.* Objectives and their residual, tolerances, softmax and the geometry prior are
  floating point. The models take a verdict, or a set of outcomes, instead; limits and their
  residuals are exact.
- *Specifications.* The places of rows in arrays and of entries in CSR, constraints declared
  twice or of a wrong length (refused), the order of constraints in the structural key, and
  names, versions, policies and options in both digests.
- *Vendor solver.* What it does is modelled by how this code uses it. `setup` is all or
  nothing, since the state it leaves when it raises is not visible here.
- *Projector.* The legacy `Solver` path and the CSR entry point; several threads that
  share a pooled projector with its unprotected buffers, which
  `interfaces.py` neither allows nor forbids.
- *Sidecar.* How many bytes a pipe holds (it holds so many unread requests), a worker whose own answers jam,
  the layout of messages, `ping` and `cancel`, which this client never sends,
  overhead samples, and the contents of stderr.
- *Shield.* Two callers of an `INSTANCE_CONFINED` shield; metrics; the LRU order of the
  batch cache.
- *Governance.* Gate evaluation (an input), versions of the registry's fixtures,
  a single write torn in the middle, two operators at once. An
  unknown gate counts as red. Of published runs: evidence tiers, the wording of READMEs beyond what they say of the current run, the
  state they show, the snapshot file, the digests of single files; the dashboard and the runbook,
  which only display.
- *Batch.* Two threads on one batched projector (see the disagreements); metrics.
- *Replay.* The policy network and its scores: it may choose anything. Rewards in floats,
  JSON of banks and bundles, solver times.
- *Evidence.* What a digest is computed by (digests are tuples of what they digest), dual
  values, active sets (but whether one was recorded as stable); the stages of the demo that only report.
- *Soak.* The rendering of the status page, the digests of governed files, level 4.
- *CBF filter.* Floating point and its tolerances; metrics and sampled studies; shadow
  solves, which are recorded only.
- *Shadow studies.* Confidence intervals, percentiles, timings and files; the hypotheses other than R1.H2,
  which are correlations of finished reports.
- *Gradients.* More than two actions; the values of the vendor's and the frameworks'
  derivatives; `smoothed_research.py`, `dual_pressure.py` and `metrics.py`, whose
  numbers nothing else reads.
- The components listed under *The rest* above.

## Plan

Next modules, in order of weight:

1. The choice of backends and fallbacks in `solver_factory`; the objective in `ShieldQP`, to
   state that the objective residual accepts both conventions and no other.
2. The gates that the benchmark scripts (`scripts/decision_grade_benchmark.py`,
   `performance_benchmark.py`) derive from their reports.

Next theorems:

1. Shield: the objective residual, once the objective is in `ShieldQP`.
2. Pipeline: that the ladder of `solver_factory` gives every configuration a rung it may run, once it is modelled.
3. Gradients: what the backends mean on a segment narrower than the differences, should the
   labels of `active_set_protocol.py` come to tell both ends apart (disagreement 36).
