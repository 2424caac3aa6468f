---------------------------- MODULE InterSimShield ----------------------------
(***************************************************************************)
(* InterSimConicShield (conicshield/adapters/inter_sim_rl/shield.py): from *)
(* the context of a step to a specification, from the specification to a   *)
(* cached projector, from its answer to the action of the step and to the  *)
(* distribution the next step is limited by.                               *)
(*                                                                         *)
(* A shield is confined to one caller or takes its lock around a whole     *)
(* call, so one action is one call.  Probabilities are whole numbers of    *)
(* 1/Units.  A projector releases some distribution its own specification  *)
(* allows, or raises; which one is the solver's business.                  *)
(***************************************************************************)
EXTENDS ShieldQP, Sequences, SequencesExt

CONSTANTS Caps,        \* the action_upper_bounds a context may give
          Rates,       \* what _adaptive_probability_delta makes of hazard scores
          MaxSize,     \* projector_cache_max_size
          Owners,      \* whose ids batch rows carry: the "episode"'s or a "caller"'s
          MaxResets,   \* bounds the calls of reset_episode
          NoContext

\* CANONICAL_ACTION_SPACE, by the places of the actions in it.
Actions == Index
NoDist == Absent
Mass == 0..Units
Distributions == {x \in [Actions -> Mass] : TotalOf(x) = Units}

ASSUME ShieldAssumption ==
  /\ MaxSize \in Nat \ {0} /\ Huge > 2 * Units
  /\ Owners \subseteq {"episode", "caller"} /\ MaxResets \in Nat
  /\ Caps \subseteq [Actions -> Mass] /\ Rates \subseteq Mass
  /\ NoDist \notin Distributions

\* open: allowed_actions without the blocked_actions.
Contexts == [open : SUBSET Actions, caps : Caps, rate : Rates]

\* "if not allowed_set: allowed_set = set(CANONICAL_ACTION_SPACE)"
Admitted(ctx) == IF ctx.open = {} THEN Actions ELSE ctx.open

UpperBounds(ctx) == [a \in Actions |-> IF a \in Admitted(ctx) THEN ctx.caps[a] ELSE 0]

SpecOf == [ctx \in Contexts |->
  LET upper == UpperBounds(ctx)
  IN  [simplex |-> Units,
       turn    |-> {a \in Actions : upper[a] > 0},
       box     |-> [lower |-> [a \in Actions |-> 0], upper |-> upper],
       rate    |-> [a \in Actions |-> ctx.rate],
       others  |-> {}]]

\* No action is left, or the bounds leave less than one: SafetySpec refuses.
Inconsistent == {ctx \in Contexts : ~Consistent(SpecOf[ctx])}
Inadmissible(ctx) == ctx \in Inconsistent

Keys == {StructuralKey(SpecOf[ctx]) : ctx \in Contexts}

VARIABLES
  previous,  \* _previous_distribution
  cache,     \* _projector_cache, the least recently used entry first
  batches,   \* the warm starts of the batch projectors, per key and owner of rows
  asked,     \* the context the last call returned a decision for, if it did
  episodeNo, \* the episode that runs
  lent       \* the warm start the solver of the last call was given

shieldVars == <<previous, cache, batches, asked, episodeNo, lent>>

\* A warm start is known by the episode it was made in; NoStart is none.
NoStart == 0
Warmth == 0..MaxResets + 1

ShieldTypeOK ==
  /\ previous \in Distributions \cup {NoDist}
  /\ cache \in Seq([key : Keys, spec : {SpecOf[ctx] : ctx \in Contexts},
                   digest : {Signature(SpecOf[ctx]) : ctx \in Contexts}, warm : Warmth])
  /\ \A i, j \in DOMAIN cache : cache[i].key = cache[j].key => i = j
  /\ batches \in [Keys -> [Owners -> Warmth]]
  /\ episodeNo \in Warmth \ {NoStart} /\ lent \in Warmth
  /\ asked \in Contexts \cup {NoContext}

ShieldInit ==
  /\ previous = NoDist
  /\ cache = <<>> /\ batches = [k \in Keys |-> [o \in Owners |-> NoStart]]
  /\ episodeNo = 1 /\ lent = NoStart
  /\ asked = NoContext
-----------------------------------------------------------------------------
\* What a projector bound to spec may release: its solver meets the rows of the
\* template, and the release is verified against the data.
Projections(spec) ==
  LET d == Lowered(spec)
  IN  {x \in [Actions -> Mass] : /\ Meets(x, Topology(d), d, previous)
                                 /\ Verified(x, d, previous)}
-----------------------------------------------------------------------------
(***************************************************************************)
(* The bounded caches.                                                     *)
(***************************************************************************)
Cached(k) == \E i \in DOMAIN cache : cache[i].key = k
Place(k) == CHOOSE i \in DOMAIN cache : cache[i].key = k
Entry(k) == cache[Place(k)]

\* move_to_end, or a new last item.
MostRecent(e) ==
  Append(IF Cached(e.key) THEN RemoveAt(cache, Place(e.key)) ELSE cache, e)

\* What put leaves: the least recently used entry goes, after its projector's
\* reset_state.
Evicted(c) == IF Len(c) > MaxSize THEN Tail(c) ELSE c

\* MUTANT of Bound: the digest of the first specification is kept.
BoundDigestKept(e, spec) ==
  IF e.digest # Signature(spec) THEN [e EXCEPT !.spec = spec] ELSE e

\* "refresh parametric fills": the entry of a cached projector for spec.
Bound(e, spec) ==
  IF e.digest # Signature(spec)
  THEN [e EXCEPT !.spec = spec, !.digest = Signature(spec)] ELSE e

\* The entry _get_or_create_projector finds or makes.
EntryFor(spec) ==
  LET k == StructuralKey(spec)
  IN  IF Cached(k) THEN Bound(Entry(k), spec)
      ELSE [key |-> k, spec |-> spec, digest |-> Signature(spec), warm |-> NoStart]

\* The entry e is the last used one.  Its projector may have given its warm start
\* to the solver; it keeps it, drops it or has a new one, after an answer as after
\* an error.
Touch(e) ==
  /\ lent' \in {NoStart, e.warm}
  /\ \E w \in {e.warm, NoStart, episodeNo} :
       cache' = Evicted(MostRecent([e EXCEPT !.warm = w]))

\* Likewise for the batch projector of k and the rows of o; putting a new one in
\* its cache may evict, and so cool, another.
TouchBatch(k, o) ==
  /\ lent' \in {NoStart, batches[k][o]}
  /\ \E w \in {batches[k][o], NoStart, episodeNo}, evicted \in SUBSET (Keys \ {k}) :
       /\ Cardinality(evicted) <= 1
       /\ batches' = [u \in Keys |-> IF u \in evicted THEN [p \in Owners |-> NoStart]
                                     ELSE IF u = k THEN [batches[k] EXCEPT ![o] = w]
                                     ELSE batches[u]]
-----------------------------------------------------------------------------
(***************************************************************************)
(* The calls.                                                              *)
(***************************************************************************)
\* choose_action returns a decision; its distribution is remembered.
Decide(ctx) ==
  /\ ~Inadmissible(ctx)
  /\ LET e == EntryFor(SpecOf[ctx]) IN previous' \in Projections(e.spec) /\ Touch(e)
  /\ asked' = ctx
  /\ UNCHANGED <<batches, episodeNo>>

\* The projector raises: the entry was found, bound and moved all the same.
ProjectRaises(ctx) ==
  /\ ~Inadmissible(ctx)
  /\ Touch(EntryFor(SpecOf[ctx]))
  /\ asked' = NoContext
  /\ UNCHANGED <<previous, batches, episodeNo>>

\* The specification, or the factory of a projector, raises.
Refuse(ctx) ==
  /\ Inadmissible(ctx) \/ ~Cached(StructuralKey(SpecOf[ctx]))
  /\ asked' = NoContext /\ lent' = NoStart
  /\ UNCHANGED <<previous, cache, batches, episodeNo>>

\* project_softmax_batch: limited by the previous distribution, which it leaves
\* alone whether it returns or raises.
ProjectBatch(ctx, o) ==
  /\ ~Inadmissible(ctx)
  /\ TouchBatch(StructuralKey(SpecOf[ctx]), o)
  /\ asked' = NoContext
  /\ UNCHANGED <<previous, cache, episodeNo>>

\* MUTANT of ResetBatches: only the rows of the episode's scope are forgotten.
ResetScopeOnly ==
  batches' = [k \in Keys |->
    [o \in Owners |-> IF o = "episode" THEN NoStart ELSE batches[k][o]]]

\* reset_state of every batch projector, for the episode's scope and for all rows.
ResetBatches == batches' = [k \in Keys |-> [o \in Owners |-> NoStart]]

\* reset_episode
ResetEpisode ==
  /\ episodeNo <= MaxResets
  /\ episodeNo' = episodeNo + 1
  /\ previous' = NoDist
  /\ cache' = [i \in DOMAIN cache |-> [cache[i] EXCEPT !.warm = NoStart]]
  /\ ResetBatches
  /\ asked' = NoContext /\ lent' = NoStart

ShieldNext ==
  \/ \E ctx \in Contexts : \/ Decide(ctx) \/ ProjectRaises(ctx)
                           \/ Refuse(ctx) \/ \E o \in Owners : ProjectBatch(ctx, o)
  \/ ResetEpisode

ShieldSpec == ShieldInit /\ [][ShieldNext]_shieldVars
-----------------------------------------------------------------------------
(***************************************************************************)
(* Correctness.                                                            *)
(***************************************************************************)

\* A decision fits the context it was made for, whatever the cached projector
\* was bound to by earlier contexts: nothing on an action that is blocked or
\* above its cap, and within the rate of this context of the distribution of
\* the episode's previous decision.
DecisionFitsContext ==
  [][asked' # NoContext =>
       \A a \in Actions :
         /\ asked'.open # {} /\ a \notin asked'.open => previous'[a] = 0
         /\ previous'[a] <= asked'.caps[a]
         /\ previous # NoDist => Near(previous'[a], previous[a], asked'.rate)]_shieldVars

\* "Clear previous action and all episode/projector warm-start state": whichever
\* cached or rebuilt projector a call reaches, in whichever cache and for rows named by the
\* shield or by its caller, the solver is started from nothing of an earlier
\* episode.
WarmStartsAreOfEpisode == lent \in {NoStart, episodeNo}

\* Whatever projectors are bound to and whether or not there is a previous
\* distribution: the rows of the template, the standard form, the constraints
\* of CVXPY and the verification ask the same of an action, and the rows that
\* are tight are those reported as active.
EncodingsAgree ==
  \A i \in DOMAIN cache : LET d == Lowered(cache[i].spec)
                         IN  \A x \in [Actions -> -1..Units + 1] :
                               OneMeaning(x, Topology(d), d, previous)
=============================================================================
