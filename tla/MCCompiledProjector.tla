------------------------- MODULE MCCompiledProjector -------------------------
(* A small instance of CompiledProjector for TLC. *)
EXTENDS CompiledProjector
=============================================================================
