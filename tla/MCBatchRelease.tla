--------------------------- MODULE MCBatchRelease ---------------------------
(* Small instances for TLC of the ladder every projector climbs to release  *)
(* a candidate and of the projector of batches, which climbs none: they     *)
(* share no state, and either is called.                                    *)
EXTENDS ReleasePipeline, BatchProjector

bothVars == <<vars, batchVars>>

BothInit == Init /\ BatchInit

NoCall == rung = "idle"
NoBatch == used = NotUsed /\ \A o \in Objects : built[o] = None

BothNext == \/ NoBatch /\ Next /\ UNCHANGED batchVars
            \/ NoCall /\ BatchNext /\ UNCHANGED vars

BothSpec == BothInit /\ [][BothNext]_bothVars
-----------------------------------------------------------------------------
\* Topologies, settings and weights are told apart, never compared otherwise.
Symmetry == Permutations(Topologies) \cup Permutations(Settings)
            \cup Permutations(Weights)

\* Two names, one of which is a part of the other and holds the separator: the
\* two rows have the same joined key in either order.
MCIds == {<<"1">>, <<"1", "|", "1">>}

MCAnonymous == <<<<"_", "0">>, <<"_", "1">>>>
=============================================================================
