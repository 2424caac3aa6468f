----------------------------- MODULE SolverLease -----------------------------
(***************************************************************************)
(* What an exclusive-checkout pool promises, with nothing of how it does   *)
(* it: every native solver object is leased to at most one thread, a lease *)
(* starts only on a solver nobody leases and only its holder ends it.      *)
(* "a checked-out handle is owned by exactly one caller until              *)
(* return_handle" (conicshield/compilation/solver_pool.py, module doc).    *)
(***************************************************************************)
CONSTANTS Threads,   \* the callers of checkout
          Solvers,   \* the native solver objects a factory can build
          NoThread   \* stands for "not leased"

VARIABLE holder      \* holder[s]: the thread that leases solver s

LeaseInit == holder = [s \in Solvers |-> NoThread]

Acquire(t, s) == /\ holder[s] = NoThread
                 /\ \A r \in Solvers : holder[r] # t
                 /\ holder' = [holder EXCEPT ![s] = t]

Release(t, s) == /\ holder[s] = t
                 /\ holder' = [holder EXCEPT ![s] = NoThread]

LeaseNext == \E t \in Threads, s \in Solvers : Acquire(t, s) \/ Release(t, s)

LeaseSpec == LeaseInit /\ [][LeaseNext]_holder
=============================================================================
