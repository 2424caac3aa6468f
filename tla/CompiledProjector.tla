-------------------------- MODULE CompiledProjector --------------------------
(***************************************************************************)
(* NativeMoreauCompiledProjector (conicshield/core/moreau_compiled.py)     *)
(* with CompiledSolver, under LOCK_PROTECTED, or INSTANCE_CONFINED when    *)
(* there is one thread: the reuse of template, buffers, solver, setup and  *)
(* warm start from call to call, inside the release pipeline.              *)
(*                                                                         *)
(* One solve is one action: the lock keeps other calls out, and what the   *)
(* solve leaves behind depends on the step that raised.  P depends on the  *)
(* objective weights, A on the topology, as in CompiledShieldTemplate.     *)
(***************************************************************************)
EXTENDS Naturals, Sequences

CONSTANTS Threads, NoThread,
          Topologies,  \* structural fingerprints a spec can have
          Settings,    \* settings fingerprints the options can give
          Weights,     \* the sums of policy and reference weight used
          Persist,     \* persist_warm_start
          MaxAttempts, ColdRetry, FailSafe, HasDeadline, Acceptable,
          MaxEpisodes, \* bound: calls of reset_state
          None

ASSUME ProjectorAssumption == NoThread \notin Threads /\ MaxEpisodes \in Nat
ASSUME NoneAssumption == None \notin [a : Topologies, p : Weights]

VARIABLES
  rung, solving, attempts, spent, warmed, history, released, \* of the pipeline
  lock,     \* the holder of _lock: the thread in project
  spec,     \* the topology of self.spec, which the owner may rebind
  settings, \* the settings fingerprint of self.options
  data,     \* the topology of data, parsed at the start of the call
  weight,   \* the weights of the call
  tmpl,     \* the topology of _template
  aLoaded,  \* _a_constants_loaded
  aValues,  \* the topology whose A constants _buffers hold
  compiled, \* the topology and settings _compiled was built for
  lastFp,   \* _last_setup_values_fp: the A and P values it stands for
  setup,    \* the A and P values the compiled solver was set up with
  warm,     \* _warm: the episode and topology of the solution it came from
  episode,  \* history: how often reset_state was called
  used      \* history: the last solve: what it used

projectorVars == <<tmpl, aLoaded, aValues, compiled, lastFp, setup, warm>>
pipeVars == <<rung, solving, attempts, spent, warmed, history, released>>
vars == <<rung, solving, attempts, spent, warmed, history, released, lock, spec,
          settings, data, weight, tmpl, aLoaded, aValues, compiled, lastFp,
          setup, warm, episode, used>>

Pipe == INSTANCE ReleasePipeline WITH PublicFallback <- FALSE

Values == [a : Topologies, p : Weights]
Warms == [episode : 0..MaxEpisodes, topo : Topologies]
NotUsed == [warm |-> None, setup |-> None, compiled |-> None]

TypeOK == /\ Pipe!TypeOK
          /\ lock \in Threads \cup {NoThread}
          /\ {spec, data, tmpl, aValues} \subseteq Topologies \cup {None}
          /\ settings \in Settings
          /\ weight \in Weights
          /\ aLoaded \in BOOLEAN
          /\ compiled \in [topo : Topologies, set : Settings] \cup {None}
          /\ {lastFp, setup} \subseteq Values \cup {None}
          /\ warm \in Warms \cup {None}
          /\ episode \in 0..MaxEpisodes
          /\ used.warm \in Warms \cup {None}

\* __init__ compiles the template of the spec it is given.
Init == /\ Pipe!Init
        /\ lock = NoThread
        /\ spec \in Topologies /\ settings \in Settings
        /\ data = None /\ weight \in Weights
        /\ tmpl = spec /\ aLoaded = FALSE /\ aValues = None
        /\ compiled = None /\ lastFp = None /\ setup = None
        /\ warm = None /\ episode = 0
        /\ used = NotUsed
-----------------------------------------------------------------------------
Held == lock # NoThread

\* project(): the lock is taken and the spec parsed.
Project(t) ==
  /\ ~Held
  /\ lock' = t
  /\ data' = spec
  /\ weight' \in Weights
  /\ Pipe!Begin
  /\ used' = NotUsed
  /\ UNCHANGED <<spec, settings, projectorVars, episode>>

\* _sync_template_from_spec: another topology forgets everything.
SyncTemplate(topo) ==
  IF topo = tmpl THEN UNCHANGED projectorVars
  ELSE /\ tmpl' = topo /\ aLoaded' = FALSE /\ aValues' = None
       /\ compiled' = None /\ lastFp' = None /\ warm' = None
       /\ UNCHANGED setup

\* It parses self.spec once more, before the first attempt.
Enter == /\ Held /\ rung = "primary" /\ ~solving
         /\ Pipe!Try("primary")
         /\ SyncTemplate(spec)
         /\ UNCHANGED <<lock, spec, settings, data, weight, episode, used>>

Refused == /\ Held /\ rung = "primary" /\ ~solving
           /\ Pipe!Skip("primary")
           /\ SyncTemplate(spec)
           /\ UNCHANGED <<lock, spec, settings, data, weight, episode, used>>

\* The steps of a solve at which it can raise.
Steps == {"fill", "build", "setup", "solve", "none"}
Key == [topo |-> tmpl, set |-> settings]

\* MUTANT of Rebuild: only another topology asks for another solver.
RebuildForTopology == IF compiled = None THEN TRUE ELSE compiled.topo # tmpl

\* need_build
Rebuild == compiled # Key

\* MUTANT of SetupKnown: a rebuilt solver keeps the fingerprint.
SetupKnownStale(built) == lastFp

\* _last_setup_values_fp once the solver is there.
SetupKnown(built) == IF built THEN None ELSE lastFp

\* _primary_solve: fill, build if need be, setup unless its values are known,
\* solve with the warm start captured at the beginning, keep the new one.  The
\* vendor's setup is taken to leave the solver as it was when it raises.
Solve(kind, failing) ==
  LET arg == IF kind = "primary" /\ Persist THEN warm ELSE None
      filled == failing # "fill"
      built == Rebuild /\ failing \notin {"fill", "build"}
      values == [a |-> aValues', p |-> weight]
      known == SetupKnown(built)
      isSetUp == failing \in {"solve", "none"}
  IN  /\ rung = kind
      /\ filled => data = tmpl    \* assert_data_matches_topology
      /\ failing = "build" => Rebuild
      /\ aLoaded' = (aLoaded \/ filled)
      /\ aValues' = IF filled /\ ~aLoaded THEN tmpl ELSE aValues
      /\ compiled' = IF built THEN Key ELSE compiled
      /\ lastFp' = IF isSetUp THEN values ELSE IF filled /\ built THEN known ELSE lastFp
      /\ setup' = IF isSetUp /\ known # values THEN values
                  ELSE IF built THEN None ELSE setup
      /\ used' = IF isSetUp THEN [warm |-> arg, setup |-> setup', compiled |-> compiled']
                            ELSE NotUsed
      /\ failing = "setup" => known # values
      /\ IF failing = "none" /\ Persist
         THEN warm' \in {None, [episode |-> episode, topo |-> tmpl]}
         ELSE warm' = None
      /\ \E a \in Pipe!Attempts : /\ a.raised = (failing # "none")
                                  /\ a.warm = (arg # None)
                                  /\ Pipe!Finish(kind, a)
      /\ UNCHANGED <<tmpl, lock, spec, settings, data, weight, episode>>

\* clear_warm_start, then the cold solve.
EnterColdRetry ==
  /\ Pipe!Try("cold_retry")
  /\ warm' = None
  /\ UNCHANGED <<lock, spec, settings, data, weight, tmpl, aLoaded, aValues,
                 compiled, lastFp, setup, episode, used>>

\* The rest of the pipeline does not touch the projector.
OtherRungs ==
  /\ \/ \E kind \in {"cold_retry", "fallback", "fail_safe"} : Pipe!Skip(kind)
     \/ Pipe!Try("fail_safe")
     \/ Pipe!FinishFailSafe \/ Pipe!NoFailSafe
     \/ Pipe!Expire
  /\ UNCHANGED <<lock, spec, settings, data, weight, projectorVars, episode, used>>

\* project returns or raises.
Leave == /\ Held /\ rung \in {"released", "raised"}
         /\ lock' = NoThread
         /\ UNCHANGED <<pipeVars, spec, settings, data, weight, projectorVars,
                        episode, used>>

\* MUTANT of Reset: the lock is not taken.
ResetUnlocked ==
  /\ episode < MaxEpisodes
  /\ episode' = episode + 1
  /\ warm' = None
  /\ UNCHANGED <<pipeVars, lock, spec, settings, data, weight, tmpl, aLoaded,
                 aValues, compiled, lastFp, setup, used>>

\* reset_state()
Reset ==
  /\ ~Held /\ episode < MaxEpisodes
  /\ episode' = episode + 1
  /\ warm' = None
  /\ UNCHANGED <<pipeVars, lock, spec, settings, data, weight, tmpl, aLoaded,
                 aValues, compiled, lastFp, setup, used>>

\* The owner rebinds spec (as the shield does) or changes the options, at any
\* time: neither takes the lock.
Rebind ==
  /\ \/ spec' \in Topologies \ {spec} /\ UNCHANGED settings
     \/ settings' \in Settings \ {settings} /\ UNCHANGED spec
  /\ UNCHANGED <<pipeVars, lock, data, weight, projectorVars, episode, used>>

InCall == \/ Enter \/ Refused
          \/ \E kind \in {"primary", "cold_retry"}, failing \in Steps : Solve(kind, failing)
          \/ EnterColdRetry \/ OtherRungs \/ Leave

Next == (\E t \in Threads : Project(t)) \/ InCall \/ Reset \/ Rebind

Spec == Init /\ [][Next]_vars
-----------------------------------------------------------------------------
(***************************************************************************)
(* Correctness.                                                            *)
(***************************************************************************)

\* "setup-value fingerprints used to skip redundant CompiledSolver.setup
\* calls": whatever was skipped, rebuilt or failed before, a solve runs on a
\* solver built for the problem's topology and set up with its A and P values.
SolverMatchesProblem ==
  used.compiled # None =>
    /\ used.setup = [a |-> data, p |-> weight]
    /\ used.compiled.topo = data

\* A solver compiled for settings that the owner has changed since, between two
\* calls, during one, or before the cold retry of the same call, is not used
\* again: a solve that ends ran with the options' settings of the moment.
RebuiltForSettings ==
  [][used' # used /\ used'.compiled # None => used'.compiled.set = settings]_vars

\* "Episode reset clears warm starts": what is kept for the next solve, and
\* what a solve was started from, belongs to the present episode and fits the
\* solver it is given to.
WarmStartIsOfEpisode ==
  /\ warm # None => warm.episode = episode /\ warm.topo = tmpl
  /\ Held /\ used.warm # None => /\ used.warm.episode = episode
                                 /\ used.warm.topo = used.compiled.topo
=============================================================================
