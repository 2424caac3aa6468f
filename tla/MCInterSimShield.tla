--------------------------- MODULE MCInterSimShield ---------------------------
(* Small instances of InterSimShield for TLC. *)
EXTENDS InterSimShield

\* No caps, no admissible action, and one action capped at half.
MCCaps == {[a \in Actions |-> Units], [a \in Actions |-> 0],
           [a \in Actions |-> IF a = 2 THEN Units \div 2 ELSE Units]}

\* No action is capped: what tells contexts apart is which actions are open.
MCNoCaps == {[a \in Actions |-> Units]}
=============================================================================
