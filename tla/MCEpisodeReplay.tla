--------------------------- MODULE MCEpisodeReplay ---------------------------
(* A small instance of EpisodeReplay for TLC. *)
EXTENDS EpisodeReplay

MCActions == {"turn_left", "turn_right", "go_straight"}
MCArms == <<"baseline-unshielded", "shielded-rules-only">>

Edge(a, d) == [act |-> a, dest |-> d]

\* What may lead away from an address: nothing, two edges to different or to
\* the same addresses, three with a way back to the root.
Crossings == {{}, {Edge("turn_left", 1), Edge("turn_right", 2)},
            {Edge("turn_left", 3), Edge("turn_right", 3)},
            {Edge("turn_right", 3), Edge("turn_left", 2), Edge("go_straight", 0)}}
MCGraphs == [0..3 -> Crossings]
=============================================================================
