---------------------------- MODULE MCSharedPool ----------------------------
(* A small pool for TLC that is used both ways there are: by callers of     *)
(* checkout, with and without timeouts, and by projectors.                  *)
EXTENDS PooledProjector

\* Bound: no thread begins a checkout of its own once a projector was used, so
\* that project need not wait for ever while others come and go.
CallCheckout(t) == /\ \A u \in Threads : call[u] = 0
                   /\ \E k \in Keys, p \in Given : Begin(t, k, p)

\* A thread without a projector yet calls checkout, and returns what it got.
Direct(t, A(_)) == call[t] = 0 /\ A(t)
                   /\ UNCHANGED <<calls, call, stage, loaded, info, solution, raw>>

SharedNext == \/ Next
              \/ \E t \in Threads : \/ Direct(t, CallCheckout) \/ Direct(t, Attempt)
                                    \/ Direct(t, TimeoutElapses) \/ Direct(t, Return)

\* PoolFairness and that of FairSpec.
SharedFairness == \A t \in Threads : /\ WF_vars(Step(t))
                                     /\ WF_vars(Direct(t, Attempt))
                                     /\ WF_vars(Direct(t, TimeoutElapses))
                                     /\ WF_vars(Direct(t, Return))

SharedSpec == Init /\ [][SharedNext]_vars /\ SharedFairness
=============================================================================
