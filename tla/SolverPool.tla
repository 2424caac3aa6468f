------------------------------ MODULE SolverPool ------------------------------
(***************************************************************************)
(* The exclusive-checkout pool of native solver objects,                   *)
(* conicshield/compilation/solver_pool.py.                                 *)
(*                                                                         *)
(* Every public operation runs under one Condition, so one action is one   *)
(* critical section: an iteration of the loop of checkout (up to its       *)
(* return, its raise or its _cv.wait) or a whole return_handle.  A         *)
(* _PoolEntry is identified with the solver object it wraps.  The order of *)
(* the dict and of the buckets, which decides only WHICH idle entry is     *)
(* handed out and WHICH idle key is evicted, is left open.                 *)
(***************************************************************************)
EXTENDS Naturals, FiniteSets

CONSTANTS Threads,    \* the callers of checkout
          Keys,       \* the structural keys they ask for
          Solvers,    \* the solver objects factory() can build
          MaxPerKey,  \* max_per_key
          MaxKeys,    \* max_keys
          NoSolver, NoThread

\* __post_init__ rejects smaller limits.
ASSUME LimitsAssumption == MaxPerKey \in Nat \ {0} /\ MaxKeys \in Nat \ {0}
ASSUME NoSolverAssumption == NoSolver \notin Solvers
ASSUME NoThreadAssumption == NoThread \notin Threads

VARIABLES
  keys,      \* the keys of _entries
  bucket,    \* bucket[k]: the entries pooled under k, {} when k is no key
  inUse,     \* the entries whose in_use flag is set
  token,     \* token[t]: the solver of the last SolverCheckout t received
  owns,      \* owns[t]: that SolverCheckout is not _returned
  pc,        \* where t is in checkout: "idle", "contending" or "waiting"
  want,      \* want[t]: the key t asked for last
  patience   \* patience[t]: how long the checkout of t may still wait

poolVars == <<keys, bucket, inUse, token, owns, pc, want, patience>>

\* block=False; no timeout_sec; a timeout_sec.
Given == {"nonblocking", "forever", "timed"}
\* deadline_remaining = 0.0, after a wait that a notification ended, or that
\* lasted as long as the timeout (the code does not tell them apart).
Spent == {"notified", "elapsed"}

PoolTypeOK == /\ keys \subseteq Keys
              /\ bucket \in [Keys -> SUBSET Solvers]
              /\ inUse \subseteq Solvers
              /\ token \in [Threads -> Solvers \cup {NoSolver}]
              /\ owns \in [Threads -> BOOLEAN]
              /\ pc \in [Threads -> {"idle", "contending", "waiting"}]
              /\ want \in [Threads -> Keys]
              /\ patience \in [Threads -> Given \cup Spent]

PoolInit == /\ keys = {}
            /\ bucket = [k \in Keys |-> {}]
            /\ inUse = {}
            /\ token = [t \in Threads |-> NoSolver]
            /\ owns = [t \in Threads |-> FALSE]
            /\ pc = [t \in Threads |-> "idle"]
            /\ want \in [Threads -> Keys]
            /\ patience = [t \in Threads |-> "forever"]
-----------------------------------------------------------------------------
Pooled == UNION {bucket[k] : k \in Keys}

\* MUTANT of IdleKey: the flags of the entries are not looked at.
IdleKeyAny(v) == v \in keys

\* No entry of the key is in use: what _evict_idle_key_locked looks for.
IdleKey(v) == bucket[v] \cap inUse = {}

AllBusy(k) == /\ k \in keys
              /\ bucket[k] \subseteq inUse
              /\ ~(Cardinality(bucket[k]) < MaxPerKey)

\* Thread t calls checkout(k, block = ..., timeout_sec = ...).  A projector
\* returns its handle before it checks out again.
Begin(t, k, p) ==
  /\ pc[t] = "idle" /\ ~owns[t]
  /\ pc' = [pc EXCEPT ![t] = "contending"]
  /\ want' = [want EXCEPT ![t] = k]
  /\ patience' = [patience EXCEPT ![t] = p]
  /\ UNCHANGED <<keys, bucket, inUse, token, owns>>

\* checkout returns or raises; its deadline_remaining is gone.
Finish(t) == /\ pc' = [pc EXCEPT ![t] = "idle"]
             /\ patience' = [patience EXCEPT ![t] = "forever"]
             /\ UNCHANGED want

\* checkout raises without touching the table.
Refuse(t) == Finish(t) /\ UNCHANGED <<keys, bucket, inUse, token, owns>>

\* t gets a fresh SolverCheckout for s.
Grant(t, s) == /\ inUse' = inUse \cup {s}
               /\ token' = [token EXCEPT ![t] = s]
               /\ owns' = [owns EXCEPT ![t] = TRUE]
               /\ Finish(t)

\* The table once k has a bucket: ks are its keys, bs its buckets.
Admitted(k, ks, bs) ==
  \/ /\ k \in keys
     /\ ks = keys /\ bs = bucket
  \/ /\ k \notin keys /\ Cardinality(keys) < MaxKeys
     /\ ks = keys \cup {k} /\ bs = bucket
  \/ /\ k \notin keys /\ Cardinality(keys) >= MaxKeys
     /\ \E v \in keys : /\ IdleKey(v)
                        /\ ks = (keys \ {v}) \cup {k}
                        /\ bs = [bucket EXCEPT ![v] = {}]

\* MUTANT of CheckoutIdle: the first entry is handed out, in use or not.
CheckoutAnyEntry(t) ==
  /\ pc[t] = "contending"
  /\ want[t] \in keys
  /\ \E s \in bucket[want[t]] : Grant(t, s)
  /\ UNCHANGED <<keys, bucket>>

CheckoutIdle(t) ==
  /\ pc[t] = "contending"
  /\ want[t] \in keys
  /\ \E s \in bucket[want[t]] \ inUse : Grant(t, s)
  /\ UNCHANGED <<keys, bucket>>

\* Capacity remains for the key, so factory() is called, under the lock.
MustBuild(t) == /\ pc[t] = "contending"
                /\ bucket[want[t]] \subseteq inUse
                /\ Cardinality(bucket[want[t]]) < MaxPerKey

\* A new object is one that neither the pool nor any checkout token refers to.
Fresh == Solvers \ (Pooled \cup inUse \cup {token[t] : t \in Threads})

CheckoutNew(t) ==
  /\ MustBuild(t)
  /\ \E s \in Fresh, ks \in SUBSET Keys, bs \in {bucket} \cup
                          {[bucket EXCEPT ![v] = {}] : v \in keys} :
       /\ Admitted(want[t], ks, bs)
       /\ keys' = ks
       /\ bucket' = [bs EXCEPT ![want[t]] = @ \cup {s}]
       /\ Grant(t, s)

\* factory() raises: the (empty) bucket and the eviction it cost remain.
FactoryRaises(t) ==
  /\ MustBuild(t)
  /\ \E ks \in SUBSET Keys, bs \in {bucket} \cup
                          {[bucket EXCEPT ![v] = {}] : v \in keys} :
       /\ Admitted(want[t], ks, bs)
       /\ keys' = ks
       /\ bucket' = bs
  /\ Finish(t)
  /\ UNCHANGED <<inUse, token, owns>>

\* "solver pool at max_keys=...; no idle key to evict", whatever block says.
RefuseFull(t) ==
  /\ pc[t] = "contending"
  /\ want[t] \notin keys /\ Cardinality(keys) >= MaxKeys
  /\ \A v \in keys : ~IdleKey(v)
  /\ Refuse(t)

RefuseBusy(t) ==
  /\ pc[t] = "contending" /\ AllBusy(want[t])
  /\ patience[t] = "nonblocking"
  /\ Refuse(t)

RefuseTimeout(t) ==
  /\ pc[t] = "contending" /\ AllBusy(want[t])
  /\ patience[t] \in Spent
  /\ Refuse(t)

\* _cv.wait(): t releases the lock and parks on the condition.
Wait(t) ==
  /\ pc[t] = "contending" /\ AllBusy(want[t])
  /\ patience[t] \in {"forever", "timed"}
  /\ pc' = [pc EXCEPT ![t] = "waiting"]
  /\ UNCHANGED <<keys, bucket, inUse, token, owns, want, patience>>

\* _cv.wait(timeout=...) returns because the time is over.
TimeoutElapses(t) ==
  /\ pc[t] = "waiting" /\ patience[t] = "timed"
  /\ pc' = [pc EXCEPT ![t] = "contending"]
  /\ patience' = [patience EXCEPT ![t] = "elapsed"]
  /\ UNCHANGED <<keys, bucket, inUse, token, owns, want>>

\* MUTANT of NotifyAll: every wait starts with the whole timeout again.
NotifyRearmed ==
  /\ pc' = [u \in Threads |-> IF pc[u] = "waiting" THEN "contending" ELSE pc[u]]
  /\ UNCHANGED patience

\* A wait(timeout=...) is followed by deadline_remaining = 0.0 even when it
\* was a notification that ended it.
NotifyAll ==
  /\ pc' = [u \in Threads |-> IF pc[u] = "waiting" THEN "contending" ELSE pc[u]]
  /\ patience' = [u \in Threads |-> IF pc[u] = "waiting" /\ patience[u] = "timed"
                                    THEN "notified" ELSE patience[u]]

\* MUTANT of Return: the _returned flag is not looked at.
ReturnTwice(t) ==
  /\ pc[t] = "idle" /\ token[t] # NoSolver
  /\ inUse' = inUse \ {token[t]}
  /\ owns' = [owns EXCEPT ![t] = FALSE]
  /\ NotifyAll
  /\ UNCHANGED <<keys, bucket, token, want>>

\* return_handle on a handle not yet returned.  (On a returned one, and when
\* clear_state raises, it raises before it changes anything.)
Return(t) ==
  /\ pc[t] = "idle" /\ owns[t]
  /\ inUse' = inUse \ {token[t]}
  /\ owns' = [owns EXCEPT ![t] = FALSE]
  /\ NotifyAll
  /\ UNCHANGED <<keys, bucket, token, want>>

Attempt(t) == \/ CheckoutIdle(t) \/ CheckoutNew(t) \/ FactoryRaises(t)
              \/ RefuseFull(t) \/ RefuseBusy(t) \/ RefuseTimeout(t) \/ Wait(t)

PoolNext == \E t \in Threads :
          \/ \E k \in Keys, p \in Given : Begin(t, k, p)
          \/ Attempt(t)
          \/ TimeoutElapses(t)
          \/ Return(t)

PoolSpec == PoolInit /\ [][PoolNext]_poolVars

\* A thread that runs is scheduled, a wait with a timeout ends, and every
\* caller returns its handle (the projectors do so in a finally block).
PoolFairness == \A t \in Threads : /\ WF_poolVars(Attempt(t))
                                   /\ WF_poolVars(TimeoutElapses(t))
                                   /\ WF_poolVars(Return(t))

PoolFairSpec == PoolSpec /\ PoolFairness
-----------------------------------------------------------------------------
(***************************************************************************)
(* Correctness.                                                            *)
(***************************************************************************)

\* Two unreturned handles never share a solver: the exclusive checkout the
\* module doc of solver_pool.py declares, also after double returns, evictions
\* and failing factories.
ExclusiveOwnership ==
  \A t, u \in Threads : owns[t] /\ owns[u] /\ token[t] = token[u] => t = u

\* An in_use flag is set exactly for the solvers some unreturned handle holds,
\* and those are still pooled under the key they were checked out for: no flag
\* leaks (which would shrink the pool for ever) and eviction (lines 154-164)
\* never drops a solver that is being used.
FlagsMatchOwners ==
  /\ inUse = {token[t] : t \in {u \in Threads : owns[u]}}
  /\ \A t \in Threads : owns[t] => /\ want[t] \in keys
                                   /\ token[t] \in bucket[want[t]]

\* "Bounded per-key pool": neither limit is ever exceeded, not even by the
\* eviction and the re-admission that follow a wait.
WithinLimits == /\ Cardinality(keys) <= MaxKeys
                /\ \A k \in Keys : Cardinality(bucket[k]) <= MaxPerKey

\* A thread parked on the condition waits for something that can still be
\* notified: its key is present, its bucket full and every entry in use.  A
\* return that failed to wake a waiter (of any key) would break it.
NoLostWakeup == \A t \in Threads : pc[t] = "waiting" => AllBusy(want[t])

\* The solvers' leases as an observer of the handles sees them.
Holder == [s \in Solvers |->
             IF \E t \in Threads : owns[t] /\ token[t] = s
             THEN CHOOSE t \in Threads : owns[t] /\ token[t] = s
             ELSE NoThread]

Lease == INSTANCE SolverLease WITH holder <- Holder

\* The pool implements exclusive leases: every step of checkout, eviction,
\* waiting and return is a lease, a release or invisible.
ImplementsLease == Lease!LeaseSpec

\* Nobody is left behind.  A checkout that gave a timeout ends, with a solver
\* or with an error, even when others keep taking the solver first; and every
\* wait, timed or not, is ended by some return: waiters of different keys share
\* one condition.
NobodyIsStranded ==
  \A t \in Threads :
    /\ (pc[t] # "idle" /\ patience[t] \in {"timed"} \cup Spent) ~> (pc[t] = "idle")
    /\ (pc[t] = "waiting") ~> (pc[t] # "waiting")

=============================================================================
