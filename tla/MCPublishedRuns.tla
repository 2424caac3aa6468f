--------------------------- MODULE MCPublishedRuns ---------------------------
(* Small instances of PublishedRuns for TLC. *)
EXTENDS PublishedRuns

\* All gates green, or parity red: the arm that may be published without the
\* native one.
MCOutcomes == {Green, [Green EXCEPT !.parity = "red"]}
=============================================================================
