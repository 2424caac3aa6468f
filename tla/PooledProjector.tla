--------------------------- MODULE PooledProjector ---------------------------
(***************************************************************************)
(* NativeMoreauCompiledProjector.project under POOLED_EXCLUSIVE_CHECKOUT   *)
(* (conicshield/core/moreau_compiled.py), composed with the SolverPool its *)
(* solvers come from: fill the buffers, check a solver out, setup, solve,  *)
(* return the solver, read its info, verify.                               *)
(*                                                                         *)
(* Every thread has a projector, and buffers, of its own; the pool is      *)
(* shared.  The problem data of a call is the number of the call.  A       *)
(* pooled projector never passes a warm start, so the release pipeline     *)
(* makes no cold retry: one solve for each call.                           *)
(***************************************************************************)
EXTENDS SolverPool

CONSTANT MaxCalls  \* bound: calls of project made in all

ASSUME CallsAssumption == MaxCalls \in Nat

VARIABLES
  calls,    \* how many calls were made
  call,     \* call[t]: the call t is in
  stage,    \* stage[t]: what project does next
  loaded,   \* loaded[s]: the call whose P and A values s was set up with
  info,     \* info[s]: the call whose solve s.info describes
  solution, \* solution[t]: the call whose P and A values t's solve used
  raw       \* raw[t]: the call whose solver_status t read

vars == <<poolVars, calls, call, stage, loaded, info, solution, raw>>

Stages == {"idle", "checkout", "setup", "solve", "return", "raising",
           "telemetry", "verify", "failed"}
CallIds == 0..MaxCalls

TypeOK == /\ PoolTypeOK
          /\ calls \in CallIds
          /\ call \in [Threads -> CallIds]
          /\ stage \in [Threads -> Stages]
          /\ loaded \in [Solvers -> CallIds]
          /\ info \in [Solvers -> CallIds]
          /\ solution \in [Threads -> CallIds]
          /\ raw \in [Threads -> CallIds]

Init == /\ PoolInit
        /\ calls = 0
        /\ call = [t \in Threads |-> 0]
        /\ stage = [t \in Threads |-> "idle"]
        /\ loaded = [s \in Solvers |-> 0]
        /\ info = [s \in Solvers |-> 0]
        /\ solution = [t \in Threads |-> 0]
        /\ raw = [t \in Threads |-> 0]
-----------------------------------------------------------------------------
Goto(t, s) == stage' = [stage EXCEPT ![t] = s]

\* project(): the template fills the buffers, then checkout (which blocks
\* without a timeout) is called for the key of the template.
Project(t, k) ==
  /\ stage[t] = "idle" /\ calls < MaxCalls
  /\ calls' = calls + 1
  /\ call' = [call EXCEPT ![t] = calls + 1]
  /\ Begin(t, k, "forever")
  /\ Goto(t, "checkout")
  /\ UNCHANGED <<loaded, info, solution, raw>>

\* checkout gives a solver, waits, or raises a RuntimeError, which is recorded
\* as a backend error.
Checkout(t) ==
  /\ stage[t] = "checkout"
  /\ Attempt(t)
  /\ Goto(t, IF owns'[t] THEN "setup"
             ELSE IF pc'[t] = "idle" THEN "failed" ELSE "checkout")
  /\ UNCHANGED <<calls, call, loaded, info, solution, raw>>

\* solver.setup(P values, A values)
Setup(t) ==
  /\ stage[t] = "setup"
  /\ \/ /\ loaded' = [loaded EXCEPT ![token[t]] = call[t]]
        /\ Goto(t, "solve")
     \/ Goto(t, "raising") /\ UNCHANGED loaded
  /\ UNCHANGED <<poolVars, calls, call, info, solution, raw>>

\* solver.solve(qs, bs): its info describes this solve from now on.
Solve(t) ==
  /\ stage[t] = "solve"
  /\ \/ /\ solution' = [solution EXCEPT ![t] = loaded[token[t]]]
        /\ info' = [info EXCEPT ![token[t]] = call[t]]
        /\ Goto(t, "return")
     \/ Goto(t, "raising") /\ UNCHANGED <<solution, info>>
  /\ UNCHANGED <<poolVars, calls, call, loaded, raw>>

\* MUTANT of GiveBack: the return is not in a finally block.
GiveBackOnSuccess(t) ==
  /\ \/ stage[t] = "return" /\ Return(t) /\ Goto(t, "telemetry")
     \/ stage[t] = "raising" /\ UNCHANGED poolVars /\ Goto(t, "failed")
  /\ UNCHANGED <<calls, call, loaded, info, solution, raw>>

\* finally: checkout.return_to_pool()
GiveBack(t) ==
  /\ stage[t] \in {"return", "raising"}
  /\ Return(t)
  /\ Goto(t, IF stage[t] = "return" THEN "telemetry" ELSE "failed")
  /\ UNCHANGED <<calls, call, loaded, info, solution, raw>>

\* info = getattr(solver, "info", None), once the solver has been returned.
ReadInfo(t) ==
  /\ stage[t] = "telemetry"
  /\ raw' = [raw EXCEPT ![t] = info[token[t]]]
  /\ Goto(t, "verify")
  /\ UNCHANGED <<poolVars, calls, call, loaded, info, solution>>

\* The pipeline releases the candidate, or raises, and project ends.
Conclude(t) ==
  /\ stage[t] \in {"verify", "failed"}
  /\ Goto(t, "idle")
  /\ UNCHANGED <<poolVars, calls, call, loaded, info, solution, raw>>

Step(t) == \/ Checkout(t) \/ Setup(t) \/ Solve(t) \/ GiveBack(t)
           \/ ReadInfo(t) \/ Conclude(t)

Next == \E t \in Threads : Step(t) \/ \E k \in Keys : Project(t, k)

Spec == Init /\ [][Next]_vars

\* A thread inside project is scheduled.
FairSpec == Spec /\ \A t \in Threads : WF_vars(Step(t))
-----------------------------------------------------------------------------
(***************************************************************************)
(* Correctness.                                                            *)
(***************************************************************************)

\* The candidate that project verifies is the solution of that call's own
\* problem: nobody else set the solver up between its setup and its solve.
SolvesOwnProblem ==
  \A t \in Threads : stage[t] \in {"return", "telemetry", "verify"} =>
    solution[t] = call[t]

\* A solver is held exactly from its checkout to the finally block, whatever
\* raised in between: no call ends with a solver still marked in use.
HeldOnlyWhileSolving ==
  \A t \in Threads :
    owns[t] <=> stage[t] \in {"setup", "solve", "return", "raising"}

\* Every call of project ends, although checkout waits without a timeout.
ProjectConcludes == \A t \in Threads : (stage[t] # "idle") ~> (stage[t] = "idle")

=============================================================================
