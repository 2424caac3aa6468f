--------------------------- MODULE BatchProjector ---------------------------
(***************************************************************************)
(* NativeMoreauCompiledBatchProjector (conicshield/core/moreau_batched.py):*)
(* batches of rows over one template.  Rows that agree on the setup values *)
(* are solved together on the batch solver, others one after another on    *)
(* the single solver; setups are skipped and warm starts kept per row ids. *)
(*                                                                         *)
(* A row id is a text, here a sequence of characters, because keys are     *)
(* joined from ids, split again and searched for a scope.  A solver object *)
(* is a member of Objects: a rebuild takes one nobody refers to.           *)
(***************************************************************************)
EXTENDS Naturals, Sequences, SequencesExt

CONSTANTS Threads,     \* callers of project_batch
          Confined,    \* the owner keeps to INSTANCE_CONFINED
          Ids,         \* the row ids callers give, each a sequence of characters
          Bar,         \* the separator of joined keys
          Anonymous,   \* "__anonymous_row__:i" for each position i of a batch
          Topologies, Settings, Weights, Objects, None

ASSUME BatchAssumption ==
  /\ Ids \subseteq Seq(STRING)
  /\ Anonymous \in Seq(Seq(STRING)) /\ Len(Anonymous) > 0
  /\ None \notin Topologies \cup Settings \cup Weights \cup Objects
  /\ \A a \in Topologies : \A w \in Weights : None # [a |-> a, p |-> w]
  /\ \A x, y \in Objects \cup {None} : \E o \in Objects : o \notin {x, y}

VARIABLES
  tmpl,     \* the topology of _template and _base_data
  settings, \* the settings the options give, batch size apart
  aValues,  \* the topology whose A constants _buffers hold, None if not loaded
  slot,     \* _compiled_batch and _compiled_single
  key,      \* _batch_settings_key and _single_settings_key
  lastFp,   \* _last_setup_fp_batch and _last_setup_fp_single
  built,    \* what each solver object was built for
  setup,    \* the A and P values each solver object was set up with
  warm,     \* _warm_by_row: joined ids to warm starts
  call,     \* where each thread is in project_batch
  used      \* history: the last solve, what it was given and what it ran on

solverVars == <<aValues, slot, key, lastFp, built, setup>>
batchVars == <<tmpl, settings, solverVars, warm, call, used>>

MaxBatch == Len(Anonymous)
Modes == {"batch", "single"}
Values == [a : Topologies, p : Weights]
Built == [size : 1..MaxBatch, set : Settings, topo : Topologies]
Idle == [step |-> "idle", rows |-> <<>>, values |-> <<>>, topo |-> None,
         mode |-> "batch", row |-> 0, solver |-> None]
NotUsed == [rows |-> <<>>]

BatchInit ==
  /\ tmpl \in Topologies /\ settings \in Settings
  /\ aValues = None
  /\ slot = [m \in Modes |-> None]
  /\ key = [m \in Modes |-> None]
  /\ lastFp = [m \in Modes |-> None]
  /\ built = [o \in Objects |-> None]
  /\ setup = [o \in Objects |-> None]
  /\ warm = <<>>
  /\ call = [t \in Threads |-> Idle]
  /\ used = NotUsed
-----------------------------------------------------------------------------
(***************************************************************************)
(* Row ids and their keys.                                                 *)
(***************************************************************************)

\* _row_ids: unique and one per row, or anonymous.
RowIds == UNION {{s \in [1..k -> Ids] : IsInjective(s)} \cup {SubSeq(Anonymous, 1, k)}
                   : k \in 1..MaxBatch}

\* "|".join(ids)
Join(ids) == FlattenSeq([i \in 1..Len(ids) |->
                           IF i = 1 THEN ids[i] ELSE <<Bar>> \o ids[i]])

\* The members of text.split("|"): what lies between two separators.
Split(text) ==
  {s \in SubSeqs(text) :
     /\ ~Contains(s, Bar)
     /\ <<Bar>> \o s \o <<Bar>> \in SubSeqs(<<Bar>> \o text \o <<Bar>>)}

\* MUTANT of InScope: the scope must be one of the joined ids.
InScopeWhole(scope, k) == scope \in Split(k) /\ Len(scope) = 1

\* scope_id in k: any part of the joined text.
InScope(scope, k) == scope \in SubSeqs(k)

\* No id holds the separator: nothing asks the callers for this.
Plain(ids) == \A i \in 1..Len(ids) : ~Contains(ids[i], Bar)

Without(f, keys) == [k \in DOMAIN f \ keys |-> f[k]]
\* Warm starts that must not be used any more are marked, should they be kept.
Void(f, keys) == [k \in DOMAIN f |-> IF k \in keys THEN [f[k] EXCEPT !.void = TRUE] ELSE f[k]]
With(f, k, v) == [x \in DOMAIN f \cup {k} |-> IF x = k THEN v ELSE f[x]]
-----------------------------------------------------------------------------
(***************************************************************************)
(* project_batch.                                                          *)
(***************************************************************************)
Calling(t, step) == call[t].step = step
Others(t) == {u \in Threads \ {t} : call[u].step # "idle"}

\* The A constants the buffers hold once a row is filled.
Filled == IF aValues = None THEN tmpl ELSE aValues

\* Rows are filled one by one into the buffers and their values kept apart;
\* the setup values depend on the topology and on the weights of the row.
BeginBatch(t) ==
  /\ Calling(t, "idle")
  /\ Confined => Others(t) = {}
  /\ \E rows \in RowIds : \E w \in [DOMAIN rows -> Weights] :
       LET values == [k \in DOMAIN rows |-> [a |-> Filled, p |-> w[k]]]
           shared == \A k \in DOMAIN rows : values[k] = values[1]
       IN  call' = [call EXCEPT ![t] =
                      [Idle EXCEPT !.step = "ensure", !.rows = rows, !.values = values,
                                   !.topo = tmpl, !.row = 1,
                                   !.mode = IF shared THEN "batch" ELSE "single"]]
  /\ aValues' = Filled
  /\ used' = NotUsed
  /\ UNCHANGED <<tmpl, settings, slot, key, lastFp, built, setup, warm>>

Size(t) == IF call[t].mode = "batch" THEN Len(call[t].rows) ELSE 1

\* _settings_fingerprint, which includes the batch size and the topology.
Key(t) == [size |-> Size(t), set |-> settings, topo |-> tmpl]

Referred == {slot[m] : m \in Modes} \cup {call[u].solver : u \in Threads}
Kept(f, o, v) ==
  [x \in Objects |-> IF x = o THEN v ELSE IF x \in Referred' THEN f[x] ELSE None]

\* CompiledSolver(...): a new object in the slot, its setup not known.
Build(t, m) ==
  LET o == CHOOSE x \in Objects : x \notin Referred
  IN  /\ slot' = [slot EXCEPT ![m] = o]
      /\ call' = [call EXCEPT ![t].step = "setup", ![t].solver = o]
      /\ key' = [key EXCEPT ![m] = Key(t)]
      /\ lastFp' = [lastFp EXCEPT ![m] = None]
      /\ built' = Kept(built, o, [size |-> Size(t), set |-> settings, topo |-> tmpl])
      /\ setup' = Kept(setup, o, None)

\* _ensure_batch_solver, _ensure_single_solver: a hit, or a new solver.  The
\* construction may raise, which leaves all as it was.
Ensure(t) ==
  LET m == call[t].mode
      hit == slot[m] # None /\ key[m] = Key(t)
  IN  /\ Calling(t, "ensure")
      /\ \/ /\ hit
            /\ call' = [call EXCEPT ![t].step = "setup", ![t].solver = slot[m]]
            /\ UNCHANGED <<slot, key, lastFp, built, setup>>
         \/ ~hit /\ Build(t, m)
         \/ ~hit /\ call' = [call EXCEPT ![t] = Idle]
            /\ UNCHANGED <<slot, key, lastFp, built, setup>>
      /\ UNCHANGED <<tmpl, settings, aValues, warm, used>>

\* MUTANT of SameSetup: only the first row of a batch is asked.
SameSetupFirst(t) == lastFp[call[t].mode] # None

\* _setup is skipped when the last setup had the row's values.
SameSetup(t) == lastFp[call[t].mode] = call[t].values[call[t].row]

\* _setup; the vendor's setup is taken to change nothing when it raises.
SetUp(t) ==
  LET m == call[t].mode
      v == call[t].values[call[t].row]
  IN  /\ Calling(t, "setup")
      /\ \/ /\ SameSetup(t)
            /\ call' = [call EXCEPT ![t].step = "solve"]
            /\ UNCHANGED <<lastFp, setup>>
         \/ /\ ~SameSetup(t)
            /\ lastFp' = [lastFp EXCEPT ![m] = v]
            /\ setup' = [setup EXCEPT ![call[t].solver] = v]
            /\ call' = [call EXCEPT ![t].step = "solve"]
         \/ /\ ~SameSetup(t)
            /\ call' = [call EXCEPT ![t] = Idle]
            /\ UNCHANGED <<lastFp, setup>>
      /\ UNCHANGED <<tmpl, settings, aValues, slot, key, built, warm, used>>

\* The rows the next solve of the call is about: all of them, or the present.
Rows(t) == IF call[t].mode = "batch" THEN call[t].rows
           ELSE <<call[t].rows[call[t].row]>>

\* The keys a batch without a warm start of its own drops: those that name one
\* of its rows.
Overlapping(t, k) ==
  IF call[t].mode = "single" \/ k \in DOMAIN warm THEN {}
  ELSE {x \in DOMAIN warm \ {k} : Range(Rows(t)) \cap Split(x) # {}}

\* A solve that raises one of the caught errors takes its warm start along.
AfterFailure(t, k) == Without(warm, Overlapping(t, k) \cup {k})

\* The solve with the warm start of its rows, and the new one saved, if
\* to_warm_start gives one, before any row is verified.
Solve(t) ==
  LET k == Join(Rows(t))
      given == IF k \in DOMAIN warm THEN warm[k] ELSE None
  IN  /\ Calling(t, "solve")
      /\ used' = [rows |-> Rows(t), topo |-> call[t].topo, warm |-> given,
                  built |-> built[call[t].solver], setup |-> setup[call[t].solver],
                  values |-> IF call[t].mode = "batch" THEN Range(call[t].values)
                             ELSE {call[t].values[call[t].row]}]
      /\ \/ /\ warm' = Void(AfterFailure(t, k), {k})
            /\ call' = [call EXCEPT ![t] = Idle]
         \/ /\ \/ warm' = With(Without(warm, Overlapping(t, k)), k,
                               [rows |-> Rows(t), topo |-> tmpl, void |-> FALSE])
               \/ warm' = Without(warm, Overlapping(t, k) \cup {k})
            /\ call' = [call EXCEPT ![t].step = "verify"]
      /\ UNCHANGED <<tmpl, settings, solverVars>>

\* _build_row_result for each row of the solve: the call goes on to its next
\* row, returns, or raises (require_verified_release) and returns none of them.
Verify(t) ==
  /\ Calling(t, "verify")
  /\ \/ LET last == call[t].mode = "batch" \/ call[t].row = Len(call[t].rows)
         IN  call' = [call EXCEPT ![t].step = IF last THEN "return" ELSE "setup",
                                  ![t].row = IF last THEN @ ELSE @ + 1]
     \/ call' = [call EXCEPT ![t] = Idle]
  /\ used' = NotUsed
  /\ UNCHANGED <<tmpl, settings, solverVars, warm>>

Return(t) == /\ Calling(t, "return")
             /\ call' = [call EXCEPT ![t] = Idle]
             /\ UNCHANGED <<tmpl, settings, solverVars, warm, used>>
-----------------------------------------------------------------------------
(***************************************************************************)
(* The owner's other calls.                                                *)
(***************************************************************************)
Free == Confined => \A t \in Threads : Calling(t, "idle")

\* reset_state, for all rows or for those in a scope.
ResetState ==
  /\ Free
  /\ \/ warm' = <<>>
     \/ \E scope \in Ids :
          LET rest == Without(warm, {k \in DOMAIN warm : InScope(scope, k)})
          IN  warm' = Void(rest, {k \in DOMAIN rest : scope \in Range(rest[k].rows)})
  /\ used' = NotUsed
  /\ UNCHANGED <<tmpl, settings, solverVars, call>>

\* MUTANT of Forgotten: a new topology keeps the warm starts.
ForgottenSolvers == warm

\* What bind_spec leaves of _warm_by_row when it rebuilds.
Forgotten == <<>>

\* bind_spec: the same topology keeps everything, another forgets everything.
BindSpec ==
  /\ Free
  /\ tmpl' \in Topologies \ {tmpl}
  /\ aValues' = None
  /\ slot' = [m \in Modes |-> None] /\ key' = [m \in Modes |-> None]
  /\ lastFp' = [m \in Modes |-> None]
  /\ warm' = Forgotten
  /\ used' = NotUsed
  /\ UNCHANGED <<settings, call>>
  /\ built' = Kept(built, None, None) /\ setup' = Kept(setup, None, None)

\* The owner changes the options.
ChangeOptions ==
  /\ Free
  /\ settings' \in Settings \ {settings}
  /\ used' = NotUsed
  /\ UNCHANGED <<tmpl, solverVars, warm, call>>

ProjectBatch(t) == BeginBatch(t) \/ Ensure(t) \/ SetUp(t) \/ Solve(t) \/ Verify(t) \/ Return(t)

BatchNext == (\E t \in Threads : ProjectBatch(t)) \/ ResetState \/ BindSpec \/ ChangeOptions

BatchSpec == BatchInit /\ [][BatchNext]_batchVars
-----------------------------------------------------------------------------
(***************************************************************************)
(* Correctness.                                                            *)
(***************************************************************************)

\* Whatever setups and builds were skipped, failed or left over from other
\* batches, a solve runs on a solver built for as many rows as it has, for
\* their topology and the options, and set up with the values of every one of
\* them and the constraints of that topology.
RowsSolvedAsAsked ==
  used # NotUsed => /\ used.built.size = Len(used.rows)
                    /\ used.built.topo = used.topo
                    /\ used.built.set = settings
                    /\ used.values = {used.setup} /\ used.setup.a = used.topo

\* A solve starts, under the present topology, from a solution of rows with the
\* same joined key: of the very same rows, unless an id holds the separator.
WarmStartFitsRows ==
  used # NotUsed /\ used.warm # None =>
    /\ used.warm.topo = used.topo
    /\ Join(used.warm.rows) = Join(used.rows)
    /\ Plain(used.rows) /\ Plain(used.warm.rows) => used.warm.rows = used.rows

\* What a solve is given is right in every respect, whatever batches of other
\* rows, sizes and settings the projector has kept something of: the solver, what
\* it was set up with, and what it starts from.
RowsAndStartsFit == RowsSolvedAsAsked /\ WarmStartFitsRows

\* reset_state(scope_id) forgets every row it names, under whatever joined key
\* it is kept, and a solve that fails forgets the warm start it was given: no
\* later solve starts from either.
VoidIsForgotten == \A k \in DOMAIN warm : ~warm[k].void

=============================================================================
