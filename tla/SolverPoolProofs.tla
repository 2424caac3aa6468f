--------------------------- MODULE SolverPoolProofs ---------------------------
(***************************************************************************)
(* Proofs about SolverPool, and about the projectors that share it, for    *)
(* every set of threads, keys and solvers and every value of the limits.   *)
(***************************************************************************)
EXTENDS PooledProjector, FiniteSetTheorems, TLAPS

\* Every step keeps the variables in their types.
LEMMA TypeCorrect == PoolSpec => []PoolTypeOK
<1>1. PoolInit => PoolTypeOK
  BY DEF PoolInit, PoolTypeOK, Given
<1>2. PoolTypeOK /\ [PoolNext]_poolVars => PoolTypeOK'
  <2> SUFFICES ASSUME PoolTypeOK, [PoolNext]_poolVars PROVE PoolTypeOK'
    OBVIOUS
  <2> USE DEF PoolTypeOK, Given, Spent
  <2>1. ASSUME NEW t \in Threads, NEW k \in Keys, NEW p \in Given, Begin(t, k, p)
        PROVE  PoolTypeOK'
    BY <2>1 DEF Begin
  <2>2. ASSUME NEW t \in Threads, CheckoutIdle(t) PROVE PoolTypeOK'
    BY <2>2 DEF CheckoutIdle, Grant, Finish
  <2>3. ASSUME NEW t \in Threads, CheckoutNew(t) PROVE PoolTypeOK'
    BY <2>3 DEF CheckoutNew, MustBuild, Fresh, Grant, Finish
  <2>4. ASSUME NEW t \in Threads, FactoryRaises(t) PROVE PoolTypeOK'
    BY <2>4 DEF FactoryRaises, MustBuild, Finish
  <2>5. ASSUME NEW t \in Threads, RefuseFull(t) \/ RefuseBusy(t) \/ RefuseTimeout(t)
        PROVE  PoolTypeOK'
    BY <2>5 DEF RefuseFull, RefuseBusy, RefuseTimeout, Refuse, Finish
  <2>6. ASSUME NEW t \in Threads, Wait(t) \/ TimeoutElapses(t) PROVE PoolTypeOK'
    BY <2>6 DEF Wait, TimeoutElapses
  <2>7. ASSUME NEW t \in Threads, Return(t) PROVE PoolTypeOK'
    BY <2>7 DEF Return, NotifyAll
  <2>8. CASE UNCHANGED poolVars
    BY <2>8 DEF poolVars
  <2> QED
    BY <2>1, <2>2, <2>3, <2>4, <2>5, <2>6, <2>7, <2>8 DEF PoolNext, Attempt
<1> QED
  BY <1>1, <1>2, PTL DEF PoolSpec
-----------------------------------------------------------------------------
\* The invariant that is inductive: ownership, flags and parked threads
\* depend on one another, so they are proved together.
OwnershipInv == /\ PoolTypeOK /\ ExclusiveOwnership /\ FlagsMatchOwners /\ NoLostWakeup
                /\ \A t \in Threads : owns[t] => pc[t] = "idle"

\* Admitting key k leaves its bucket and every bucket in use as they are.
LEMMA AdmittedKeepsBusyKeys ==
  ASSUME PoolTypeOK, NEW k \in Keys, NEW ks, NEW bs, Admitted(k, ks, bs)
  PROVE  /\ k \in ks /\ ks \subseteq Keys
         /\ bs \in [Keys -> SUBSET Solvers]
         /\ bs[k] = bucket[k]
         /\ \A l \in keys : ~IdleKey(l) => l \in ks /\ bs[l] = bucket[l]
  BY DEF Admitted, PoolTypeOK, IdleKey

\* A key whose entries are all in use, up to the limit, is not idle.
LEMMA BusyKeyIsNotIdle ==
  ASSUME NEW k \in Keys, AllBusy(k)
  PROVE  ~IdleKey(k)
<1>1. ~(Cardinality(bucket[k]) < MaxPerKey) /\ bucket[k] \subseteq inUse
  BY DEF AllBusy
<1>2. Cardinality({}) = 0
  BY FS_EmptySet
<1>3. bucket[k] # {}
  <2> SUFFICES ASSUME bucket[k] = {} PROVE FALSE
    OBVIOUS
  <2>1. ~(Cardinality({}) < MaxPerKey)
    BY <1>1
  <2> QED
    BY <2>1, <1>2, LimitsAssumption
<1> QED
  BY <1>1, <1>3 DEF IdleKey

\* A solver granted to t becomes t's, and stays out of the others' hands.
LEMMA GrantKeepsOwnership ==
  ASSUME OwnershipInv, NEW t \in Threads, NEW s \in Solvers,
         s \notin inUse, ~owns[t], pc[t] = "contending",
         Grant(t, s),
         PoolTypeOK',
         want[t] \in keys', s \in bucket'[want[t]],
         \A l \in keys : ~IdleKey(l) => l \in keys' /\ bucket[l] \subseteq bucket'[l],
         \A l \in Keys : AllBusy(l) => bucket'[l] = bucket[l]
  PROVE  OwnershipInv'
<1> USE DEF OwnershipInv, PoolTypeOK
<1>1. \A u \in Threads : owns'[u] <=> (u = t \/ owns[u])
  BY DEF Grant, Finish
<1>2. \A u \in Threads : token'[u] = IF u = t THEN s ELSE token[u]
  BY DEF Grant, Finish
<1>3. want' = want /\ inUse' = inUse \cup {s}
  BY DEF Grant, Finish
<1>4. \A u \in Threads : owns[u] => token[u] \in inUse
  BY DEF FlagsMatchOwners
<1>5. ExclusiveOwnership'
  BY <1>1, <1>2, <1>4 DEF ExclusiveOwnership
<1>6. FlagsMatchOwners'
  <2>1. inUse' = {token'[u] : u \in {w \in Threads : owns'[w]}}
    BY <1>1, <1>2, <1>3 DEF FlagsMatchOwners
  <2>2. ASSUME NEW u \in Threads, owns'[u]
        PROVE  want'[u] \in keys' /\ token'[u] \in bucket'[want'[u]]
    <3>1. CASE u = t
      BY <3>1, <1>2, <1>3
    <3>2. CASE u # t
      <4>1. want[u] \in keys /\ token[u] \in bucket[want[u]] /\ token[u] \in inUse
        BY <3>2, <2>2, <1>1, <1>4 DEF FlagsMatchOwners
      <4>2. ~IdleKey(want[u])
        BY <4>1 DEF IdleKey
      <4> QED
        BY <4>1, <4>2, <3>2, <1>2, <1>3
    <3> QED
      BY <3>1, <3>2
  <2> QED
    BY <2>1, <2>2 DEF FlagsMatchOwners
<1>7. NoLostWakeup'
  <2> SUFFICES ASSUME NEW u \in Threads, pc'[u] = "waiting"
               PROVE  AllBusy(want[u])'
    BY DEF NoLostWakeup
  <2>1. pc[u] = "waiting" /\ AllBusy(want[u]) /\ want[u] \in Keys
    BY DEF Grant, Finish, NoLostWakeup
  <2>2. ~IdleKey(want[u])
    BY <2>1, BusyKeyIsNotIdle
  <2> QED
    BY <2>1, <2>2, <1>3 DEF AllBusy
<1>8. \A u \in Threads : owns'[u] => pc'[u] = "idle"
  BY <1>1 DEF Grant, Finish
<1> QED
  BY <1>5, <1>6, <1>7, <1>8

\* The inductive invariant of the pool.
THEOREM OwnershipInvariant == PoolSpec => []OwnershipInv
<1>1. PoolInit => OwnershipInv
  <2> SUFFICES ASSUME PoolInit PROVE OwnershipInv
    OBVIOUS
  <2>1. PoolTypeOK
    BY DEF PoolInit, PoolTypeOK, Given
  <2>2. \A t \in Threads : ~owns[t] /\ pc[t] = "idle"
    BY DEF PoolInit
  <2>3. {token[t] : t \in {u \in Threads : owns[u]}} = {}
    BY <2>2
  <2> QED
    BY <2>1, <2>2, <2>3
       DEF PoolInit, OwnershipInv, ExclusiveOwnership, FlagsMatchOwners, NoLostWakeup
<1>2. OwnershipInv /\ PoolTypeOK' /\ [PoolNext]_poolVars => OwnershipInv'
  <2> SUFFICES ASSUME OwnershipInv, PoolTypeOK', [PoolNext]_poolVars PROVE OwnershipInv'
    OBVIOUS
  <2> USE DEF OwnershipInv
  <2>1. ASSUME NEW t \in Threads, NEW k \in Keys, NEW p \in Given, Begin(t, k, p)
        PROVE  OwnershipInv'
    <3>1. \A u \in Threads : owns[u] => u # t /\ want'[u] = want[u]
      BY <2>1 DEF Begin, PoolTypeOK
    <3>2. \A u \in Threads : pc'[u] = "waiting" => pc[u] = "waiting" /\ want'[u] = want[u]
      BY <2>1 DEF Begin, PoolTypeOK
    <3>3. UNCHANGED <<keys, bucket, inUse, token, owns>>
      BY <2>1 DEF Begin
    <3>4. ExclusiveOwnership' /\ FlagsMatchOwners'
      BY <3>1, <3>3 DEF ExclusiveOwnership, FlagsMatchOwners
    <3>5. NoLostWakeup'
      BY <3>2, <3>3 DEF NoLostWakeup, AllBusy
    <3>6. \A u \in Threads : owns'[u] => pc'[u] = "idle"
      BY <2>1, <3>1, <3>3 DEF Begin, PoolTypeOK
    <3> QED
      BY <3>4, <3>5, <3>6
  <2>2. ASSUME NEW t \in Threads, CheckoutIdle(t) PROVE OwnershipInv'
    <3>1. PICK s \in bucket[want[t]] \ inUse : Grant(t, s)
      BY <2>2 DEF CheckoutIdle
    <3>2. want[t] \in keys /\ keys' = keys /\ bucket' = bucket /\ pc[t] = "contending"
      BY <2>2 DEF CheckoutIdle
    <3>3. s \in Solvers
      BY <3>1 DEF PoolTypeOK
    <3>4. ~owns[t]
      BY <3>2
    <3> QED
      BY <3>1, <3>2, <3>3, <3>4, GrantKeepsOwnership
  <2>3. ASSUME NEW t \in Threads, CheckoutNew(t) PROVE OwnershipInv'
    <3>1. PICK s \in Fresh, ks \in SUBSET Keys,
               bs \in {bucket} \cup {[bucket EXCEPT ![v] = {}] : v \in keys} :
            /\ Admitted(want[t], ks, bs)
            /\ keys' = ks
            /\ bucket' = [bs EXCEPT ![want[t]] = @ \cup {s}]
            /\ Grant(t, s)
      BY <2>3 DEF CheckoutNew
    <3>2. /\ pc[t] = "contending" /\ ~owns[t] /\ want[t] \in Keys
          /\ bucket[want[t]] \subseteq inUse /\ Cardinality(bucket[want[t]]) < MaxPerKey
      BY <2>3 DEF CheckoutNew, MustBuild, PoolTypeOK
    <3>3. s \in Solvers /\ s \notin inUse
      BY DEF Fresh
    <3>4. /\ want[t] \in ks /\ bs \in [Keys -> SUBSET Solvers]
          /\ bs[want[t]] = bucket[want[t]]
          /\ \A l \in keys : ~IdleKey(l) => l \in ks /\ bs[l] = bucket[l]
      BY <3>1, <3>2, AdmittedKeepsBusyKeys
    <3>5. \A l \in keys : ~IdleKey(l) => l \in keys' /\ bucket[l] \subseteq bucket'[l]
      BY <3>1, <3>4 DEF PoolTypeOK
    <3>6. ~AllBusy(want[t])
      BY <3>2, LimitsAssumption DEF AllBusy
    <3>7. \A l \in Keys : AllBusy(l) => l \in keys /\ l # want[t] /\ ~IdleKey(l)
      BY <3>6, BusyKeyIsNotIdle DEF AllBusy
    <3>8. \A l \in Keys : AllBusy(l) => bucket'[l] = bucket[l]
      BY <3>1, <3>4, <3>7
    <3> QED
      BY <3>1, <3>2, <3>3, <3>4, <3>5, <3>8, GrantKeepsOwnership
  <2>4. ASSUME NEW t \in Threads, FactoryRaises(t) PROVE OwnershipInv'
    <3>1. PICK ks \in SUBSET Keys,
               bs \in {bucket} \cup {[bucket EXCEPT ![v] = {}] : v \in keys} :
            /\ Admitted(want[t], ks, bs)
            /\ keys' = ks
            /\ bucket' = bs
      BY <2>4 DEF FactoryRaises
    <3>2. /\ pc' = [pc EXCEPT ![t] = "idle"]
          /\ UNCHANGED <<want, inUse, token, owns>>
          /\ want[t] \in Keys
      BY <2>4 DEF FactoryRaises, Finish, PoolTypeOK
    <3>3. \A l \in keys : ~IdleKey(l) => l \in keys' /\ bucket'[l] = bucket[l]
      BY <3>1, <3>2, AdmittedKeepsBusyKeys
    <3>4. FlagsMatchOwners'
      <4>1. \A u \in Threads : owns[u] => want[u] \in keys /\ ~IdleKey(want[u])
        BY DEF FlagsMatchOwners, IdleKey
      <4> QED
        BY <3>2, <3>3, <4>1 DEF FlagsMatchOwners
    <3>5. NoLostWakeup'
      <4>1. \A l \in Keys : AllBusy(l) => AllBusy(l)'
        BY <3>2, <3>3, BusyKeyIsNotIdle DEF AllBusy
      <4> QED
        BY <3>2, <4>1 DEF NoLostWakeup, PoolTypeOK
    <3> QED
      BY <3>2, <3>4, <3>5 DEF ExclusiveOwnership, PoolTypeOK
  <2>5. ASSUME NEW t \in Threads, RefuseFull(t) \/ RefuseBusy(t) \/ RefuseTimeout(t)
        PROVE  OwnershipInv'
    BY <2>5 DEF RefuseFull, RefuseBusy, RefuseTimeout, Refuse, Finish, PoolTypeOK,
                ExclusiveOwnership, FlagsMatchOwners, NoLostWakeup, AllBusy
  <2>6. ASSUME NEW t \in Threads, Wait(t) \/ TimeoutElapses(t)
        PROVE  OwnershipInv'
    <3>1. UNCHANGED <<keys, bucket, inUse, token, owns, want>>
      BY <2>6 DEF Wait, TimeoutElapses
    <3>2. \A u \in Threads : /\ owns'[u] => pc'[u] = "idle"
                             /\ pc'[u] = "waiting" => AllBusy(want[u])
      BY <2>6 DEF Wait, TimeoutElapses, PoolTypeOK, NoLostWakeup
    <3>3. ExclusiveOwnership' /\ FlagsMatchOwners'
      BY <3>1 DEF ExclusiveOwnership, FlagsMatchOwners
    <3>4. NoLostWakeup'
      BY <3>1, <3>2 DEF NoLostWakeup, AllBusy
    <3> QED
      BY <3>2, <3>3, <3>4
  <2>7. ASSUME NEW t \in Threads, Return(t) PROVE OwnershipInv'
    <3>1. /\ owns[t] /\ inUse' = inUse \ {token[t]}
          /\ UNCHANGED <<keys, bucket, token, want>>
      BY <2>7 DEF Return
    <3>2. \A u \in Threads : owns'[u] <=> (owns[u] /\ u # t)
      BY <2>7 DEF Return, PoolTypeOK
    <3>3. \A u \in Threads : owns[u] /\ u # t => token[u] # token[t]
      BY <3>1 DEF ExclusiveOwnership
    <3>4. FlagsMatchOwners'
      BY <3>1, <3>2, <3>3 DEF FlagsMatchOwners
    <3>5. NoLostWakeup'
      BY <2>7 DEF Return, NotifyAll, NoLostWakeup, PoolTypeOK
    <3>6. \A u \in Threads : owns'[u] => pc'[u] = "idle"
      BY <2>7, <3>2 DEF Return, NotifyAll
    <3> QED
      BY <3>1, <3>2, <3>4, <3>5, <3>6 DEF ExclusiveOwnership
  <2>8. CASE UNCHANGED poolVars
    BY <2>8 DEF poolVars, ExclusiveOwnership, FlagsMatchOwners, NoLostWakeup, AllBusy
  <2> QED
    BY <2>1, <2>2, <2>3, <2>4, <2>5, <2>6, <2>7, <2>8 DEF PoolNext, Attempt
<1> QED
  BY <1>1, <1>2, TypeCorrect, PTL DEF PoolSpec

\* Two threads never own the same solver: the exclusive checkout that the
\* module doc of solver_pool.py promises.
THEOREM Exclusive == PoolSpec => []ExclusiveOwnership
  BY OwnershipInvariant, PTL DEF OwnershipInv

\* The in_use flags are exact, and no solver in use is evicted.
THEOREM Flags == PoolSpec => []FlagsMatchOwners
  BY OwnershipInvariant, PTL DEF OwnershipInv

\* A parked thread can still be notified.
THEOREM NoWakeupIsLost == PoolSpec => []NoLostWakeup
  BY OwnershipInvariant, PTL DEF OwnershipInv
-----------------------------------------------------------------------------
\* The limits, with the finiteness that makes Cardinality a number.
LimitsInv == /\ PoolTypeOK /\ WithinLimits
             /\ IsFiniteSet(keys)
             /\ \A k \in Keys : IsFiniteSet(bucket[k])

\* Admission keeps both limits: it evicts before it exceeds max_keys.
LEMMA AdmittedWithinLimits ==
  ASSUME LimitsInv, NEW k \in Keys, NEW ks, NEW bs, Admitted(k, ks, bs)
  PROVE  /\ IsFiniteSet(ks) /\ Cardinality(ks) <= MaxKeys
         /\ bs \in [Keys -> SUBSET Solvers]
         /\ \A l \in Keys : IsFiniteSet(bs[l]) /\ Cardinality(bs[l]) <= MaxPerKey
         /\ bs[k] = bucket[k]
<1> USE DEF LimitsInv, WithinLimits
<1>1. IsFiniteSet({}) /\ Cardinality({}) = 0
  BY FS_EmptySet
<1>2. Cardinality(keys) \in Nat
  BY FS_CardinalityType
<1>3. \A l \in Keys : bs[l] = bucket[l] \/ bs[l] = {}
  BY DEF Admitted, PoolTypeOK
<1>4. bs \in [Keys -> SUBSET Solvers] /\ bs[k] = bucket[k]
  BY DEF Admitted, PoolTypeOK
<1>5. \A l \in Keys : IsFiniteSet(bs[l]) /\ Cardinality(bs[l]) <= MaxPerKey
  <2> TAKE l \in Keys
  <2>1. CASE bs[l] = bucket[l]
    BY <2>1
  <2>2. CASE bs[l] = {}
    BY <2>2, <1>1, LimitsAssumption
  <2> QED
    BY <2>1, <2>2, <1>3
<1>6. IsFiniteSet(ks) /\ Cardinality(ks) <= MaxKeys
  <2>1. CASE ks = keys
    BY <2>1
  <2>2. CASE k \notin keys /\ Cardinality(keys) < MaxKeys /\ ks = keys \cup {k}
    <3>1. IsFiniteSet(keys \cup {k}) /\ Cardinality(keys \cup {k}) = Cardinality(keys) + 1
      BY <2>2, FS_AddElement
    <3> QED
      BY <3>1, <2>2, <1>2, LimitsAssumption
  <2>3. ASSUME NEW v \in keys, k \notin keys, ks = (keys \ {v}) \cup {k}
        PROVE  IsFiniteSet(ks) /\ Cardinality(ks) <= MaxKeys
    <3>1. IsFiniteSet(keys \ {v}) /\ Cardinality(keys \ {v}) = Cardinality(keys) - 1
      BY FS_RemoveElement
    <3>2. /\ IsFiniteSet((keys \ {v}) \cup {k})
          /\ Cardinality((keys \ {v}) \cup {k}) = Cardinality(keys \ {v}) + 1
      BY <3>1, <2>3, FS_AddElement
    <3> QED
      BY <3>1, <3>2, <2>3, <1>2, LimitsAssumption
  <2> QED
    BY <2>1, <2>2, <2>3 DEF Admitted
<1> QED
  BY <1>4, <1>5, <1>6

\* "Bounded per-key pool": neither limit is ever exceeded.
THEOREM Bounded == PoolSpec => []WithinLimits
<1>1. PoolInit => LimitsInv
  <2> SUFFICES ASSUME PoolInit PROVE LimitsInv
    OBVIOUS
  <2>1. IsFiniteSet({}) /\ Cardinality({}) = 0
    BY FS_EmptySet
  <2>2. PoolTypeOK
    BY DEF PoolInit, PoolTypeOK, Given
  <2>3. keys = {} /\ \A k \in Keys : bucket[k] = {}
    BY DEF PoolInit
  <2>4. Cardinality(keys) = 0 /\ \A k \in Keys : Cardinality(bucket[k]) = 0
    BY <2>1, <2>3, Zenon
  <2>5. IsFiniteSet(keys) /\ \A k \in Keys : IsFiniteSet(bucket[k])
    BY <2>1, <2>3, Zenon
  <2> QED
    BY <2>2, <2>4, <2>5, LimitsAssumption DEF LimitsInv, WithinLimits
<1>2. LimitsInv /\ PoolTypeOK' /\ [PoolNext]_poolVars => LimitsInv'
  <2> SUFFICES ASSUME LimitsInv, PoolTypeOK', [PoolNext]_poolVars PROVE LimitsInv'
    OBVIOUS
  <2>1. ASSUME NEW t \in Threads, CheckoutNew(t) PROVE LimitsInv'
    <3>1. PICK s \in Fresh, ks \in SUBSET Keys,
               bs \in {bucket} \cup {[bucket EXCEPT ![v] = {}] : v \in keys} :
            /\ Admitted(want[t], ks, bs)
            /\ keys' = ks
            /\ bucket' = [bs EXCEPT ![want[t]] = @ \cup {s}]
      BY <2>1 DEF CheckoutNew
    <3>2. want[t] \in Keys /\ Cardinality(bucket[want[t]]) < MaxPerKey
      BY <2>1 DEF CheckoutNew, MustBuild, LimitsInv, PoolTypeOK
    <3>3. /\ IsFiniteSet(ks) /\ Cardinality(ks) <= MaxKeys
          /\ bs \in [Keys -> SUBSET Solvers]
          /\ \A l \in Keys : IsFiniteSet(bs[l]) /\ Cardinality(bs[l]) <= MaxPerKey
          /\ bs[want[t]] = bucket[want[t]]
      BY <3>1, <3>2, AdmittedWithinLimits
    <3>4. bucket'[want[t]] = bucket[want[t]] \cup {s}
      BY <3>1, <3>2, <3>3
    <3>5. IsFiniteSet(bucket[want[t]]) /\ Cardinality(bucket[want[t]]) \in Nat
      BY <3>2, FS_CardinalityType DEF LimitsInv
    <3>6. /\ IsFiniteSet(bucket[want[t]] \cup {s})
          /\ Cardinality(bucket[want[t]] \cup {s}) <= MaxPerKey
      <4>1. /\ IsFiniteSet(bucket[want[t]] \cup {s})
            /\ Cardinality(bucket[want[t]] \cup {s}) =
                 IF s \in bucket[want[t]] THEN Cardinality(bucket[want[t]])
                                          ELSE Cardinality(bucket[want[t]]) + 1
        BY <3>5, FS_AddElement, Zenon
      <4> QED
        BY <3>2, <3>5, <4>1, LimitsAssumption
    <3>7. \A l \in Keys : l # want[t] => bucket'[l] = bs[l]
      BY <3>1, <3>3
    <3> QED
      BY <3>1, <3>3, <3>4, <3>6, <3>7 DEF LimitsInv, WithinLimits
  <2>2. ASSUME NEW t \in Threads, FactoryRaises(t) PROVE LimitsInv'
    <3>1. PICK ks \in SUBSET Keys,
               bs \in {bucket} \cup {[bucket EXCEPT ![v] = {}] : v \in keys} :
            Admitted(want[t], ks, bs) /\ keys' = ks /\ bucket' = bs
      BY <2>2 DEF FactoryRaises
    <3>2. want[t] \in Keys
      BY DEF LimitsInv, PoolTypeOK
    <3> QED
      BY <3>1, <3>2, AdmittedWithinLimits DEF LimitsInv, WithinLimits
  <2>3. CASE UNCHANGED <<keys, bucket>>
    BY <2>3 DEF LimitsInv, WithinLimits
  <2>4. ASSUME NEW t \in Threads,
               \/ \E k \in Keys, p \in Given : Begin(t, k, p)
               \/ CheckoutIdle(t)
               \/ RefuseFull(t) \/ RefuseBusy(t) \/ RefuseTimeout(t) \/ Wait(t)
               \/ TimeoutElapses(t) \/ Return(t)
        PROVE  UNCHANGED <<keys, bucket>>
    BY <2>4 DEF Begin, CheckoutIdle, RefuseFull, RefuseBusy, RefuseTimeout, Refuse,
                Wait, TimeoutElapses, Return
  <2> QED
    BY <2>1, <2>2, <2>3, <2>4 DEF PoolNext, Attempt, poolVars
<1>3. LimitsInv => WithinLimits
  BY DEF LimitsInv
<1> QED
  BY <1>1, <1>2, <1>3, TypeCorrect, PTL DEF PoolSpec
-----------------------------------------------------------------------------
\* What Holder says of a solver, without its CHOOSE.
LEMMA HolderIsOwner ==
  ASSUME ExclusiveOwnership
  PROVE  /\ Holder = [s \in Solvers |-> Holder[s]]
         /\ \A s \in Solvers, t \in Threads : Holder[s] = t <=> owns[t] /\ token[t] = s
         /\ \A s \in Solvers : Holder[s] = NoThread <=>
                               ~\E t \in Threads : owns[t] /\ token[t] = s
  BY NoThreadAssumption DEF Holder, ExclusiveOwnership

\* The pool implements exclusive leases: a granted checkout is Acquire, a
\* return is Release, every other step is invisible.
THEOREM PoolImplementsLease == PoolSpec => ImplementsLease
<1>1. PoolInit => Lease!LeaseInit
  BY DEF PoolInit, Holder, Lease!LeaseInit
<1>2. OwnershipInv /\ OwnershipInv' /\ [PoolNext]_poolVars => [Lease!LeaseNext]_Holder
  <2> SUFFICES ASSUME OwnershipInv, OwnershipInv', [PoolNext]_poolVars
               PROVE  [Lease!LeaseNext]_Holder
    OBVIOUS
  <2> USE DEF OwnershipInv
  <2>1. ASSUME NEW t \in Threads, NEW s \in Solvers, Grant(t, s),
               s \notin inUse, pc[t] = "contending"
        PROVE  Lease!LeaseNext
    <3>1. ~owns[t]
      BY <2>1
    <3>2. \A u \in Threads : /\ owns'[u] <=> (u = t \/ owns[u])
                            /\ token'[u] = IF u = t THEN s ELSE token[u]
      BY <2>1 DEF Grant, Finish, PoolTypeOK
    <3>3. \A u \in Threads : owns[u] => token[u] # s
      BY <2>1 DEF FlagsMatchOwners
    <3>4. Holder[s] = NoThread /\ \A r \in Solvers : Holder[r] # t
      BY <3>1, <3>3, HolderIsOwner
    <3>5. \A r \in Solvers : Holder'[r] = IF r = s THEN t ELSE Holder[r]
      BY <3>1, <3>2, <3>3 DEF Holder, ExclusiveOwnership
    <3>6. Holder' = [Holder EXCEPT ![s] = t]
      BY <3>5 DEF Holder
    <3> QED
      BY <3>4, <3>6 DEF Lease!LeaseNext, Lease!Acquire
  <2>2. ASSUME NEW t \in Threads, CheckoutIdle(t) PROVE Lease!LeaseNext
    <3>1. PICK s \in bucket[want[t]] \ inUse : Grant(t, s)
      BY <2>2 DEF CheckoutIdle
    <3>2. s \in Solvers /\ pc[t] = "contending"
      BY <2>2, <3>1 DEF CheckoutIdle, PoolTypeOK
    <3> QED
      BY <2>1, <3>1, <3>2
  <2>3. ASSUME NEW t \in Threads, CheckoutNew(t) PROVE Lease!LeaseNext
    <3>1. PICK s \in Fresh : Grant(t, s)
      BY <2>3 DEF CheckoutNew
    <3> QED
      BY <2>1, <2>3, <3>1 DEF CheckoutNew, MustBuild, Fresh
  <2>4. ASSUME NEW t \in Threads, Return(t) PROVE Lease!LeaseNext
    <3>1. \A u \in Threads : owns'[u] <=> (owns[u] /\ u # t)
      BY <2>4 DEF Return, PoolTypeOK
    <3>2. token' = token /\ owns[t]
      BY <2>4 DEF Return
    <3>3. token[t] \in Solvers
      <4>1. token[t] \in inUse
        BY <3>2 DEF FlagsMatchOwners
      <4> QED
        BY <4>1 DEF PoolTypeOK
    <3>4. Holder[token[t]] = t
      BY <3>2, <3>3, HolderIsOwner
    <3>5. \A r \in Solvers : Holder'[r] = IF r = token[t] THEN NoThread ELSE Holder[r]
      BY <3>1, <3>2 DEF Holder, ExclusiveOwnership
    <3>6. Holder' = [Holder EXCEPT ![token[t]] = NoThread]
      BY <3>5 DEF Holder
    <3> QED
      BY <3>3, <3>4, <3>6 DEF Lease!LeaseNext, Lease!Release
  <2>5. CASE UNCHANGED <<token, owns>>
    BY <2>5 DEF Holder
  <2>6. ASSUME NEW t \in Threads,
               \/ \E k \in Keys, p \in Given : Begin(t, k, p)
               \/ FactoryRaises(t)
               \/ RefuseFull(t) \/ RefuseBusy(t) \/ RefuseTimeout(t) \/ Wait(t)
               \/ TimeoutElapses(t)
        PROVE  UNCHANGED <<token, owns>>
    BY <2>6 DEF Begin, FactoryRaises, RefuseFull, RefuseBusy, RefuseTimeout, Refuse,
                Wait, TimeoutElapses
  <2> QED
    BY <2>2, <2>3, <2>4, <2>5, <2>6 DEF PoolNext, Attempt, poolVars
<1> QED
  BY <1>1, <1>2, OwnershipInvariant, PTL DEF PoolSpec, ImplementsLease, Lease!LeaseSpec
-----------------------------------------------------------------------------
(***************************************************************************)
(* The projectors that share the pool.  They add no step of their own to   *)
(* it, so what is proved of the pool holds in use; exclusive ownership     *)
(* then gives that a call solves the problem it set up.                    *)
(***************************************************************************)

\* project touches the pool through checkout and return_handle only.
LEMMA StepsOfPool == [Next]_vars => [PoolNext]_poolVars
<1> SUFFICES ASSUME [Next]_vars PROVE [PoolNext]_poolVars
  OBVIOUS
<1>1. ASSUME NEW t \in Threads, NEW k \in Keys, Project(t, k) PROVE PoolNext
  BY <1>1 DEF Project, PoolNext, Given
<1>2. ASSUME NEW t \in Threads, Checkout(t) PROVE PoolNext
  BY <1>2 DEF Checkout, PoolNext
<1>3. ASSUME NEW t \in Threads, GiveBack(t) PROVE PoolNext
  BY <1>3 DEF GiveBack, PoolNext
<1>4. ASSUME NEW t \in Threads, Setup(t) \/ Solve(t) \/ ReadInfo(t) \/ Conclude(t)
      PROVE  UNCHANGED poolVars
  BY <1>4 DEF Setup, Solve, ReadInfo, Conclude
<1>5. CASE UNCHANGED vars
  BY <1>5 DEF vars, poolVars
<1> QED
  BY <1>1, <1>2, <1>3, <1>4, <1>5 DEF Next, Step

\* The pool the projectors share behaves as SolverPool: "project" cannot return
\* a handle twice, or check out while it holds one.
THEOREM UsesPool == Spec => PoolSpec
<1>1. Init => PoolInit
  BY DEF Init
<1> QED
  BY <1>1, StepsOfPool, PTL DEF Spec, PoolSpec

\* What the proof takes from the pool.
PoolFacts == /\ PoolTypeOK
             /\ ExclusiveOwnership
             /\ \A t \in Threads : owns[t] => token[t] \in Solvers

\* What is proved of the pool alone holds of the pool in use.
LEMMA PoolFactsHold == Spec => []PoolFacts
<1>1. OwnershipInv => PoolFacts
  BY DEF OwnershipInv, PoolFacts, FlagsMatchOwners, PoolTypeOK
<1> QED
  BY UsesPool, OwnershipInvariant, <1>1, PTL
-----------------------------------------------------------------------------
\* The variables of the projectors in their types.
OwnTypes == /\ calls \in CallIds
            /\ call \in [Threads -> CallIds]
            /\ stage \in [Threads -> Stages]
            /\ loaded \in [Solvers -> CallIds]
            /\ info \in [Solvers -> CallIds]
            /\ solution \in [Threads -> CallIds]

\* Between setup and solve the solver holds the values of its holder's call.
SetUpForCall == \A t \in Threads : stage[t] = "solve" => loaded[token[t]] = call[t]

\* The inductive invariant.
HoldInv == OwnTypes /\ HeldOnlyWhileSolving /\ SetUpForCall /\ SolvesOwnProblem

\* A checkout changes the handle of the thread that makes it, of no other.
LEMMA CheckoutIsOnes ==
  ASSUME PoolTypeOK, NEW t \in Threads, Attempt(t)
  PROVE  \A u \in Threads \ {t} : owns'[u] = owns[u] /\ token'[u] = token[u]
  BY DEF PoolTypeOK, Attempt, CheckoutIdle, CheckoutNew,
    FactoryRaises, RefuseFull, RefuseBusy, RefuseTimeout,
    Wait, Grant, Refuse

\* A step of project keeps the invariant while the pool keeps its own.
LEMMA HoldInductive == HoldInv /\ PoolFacts /\ PoolFacts' /\ [Next]_vars => HoldInv'
<1> SUFFICES ASSUME HoldInv, PoolFacts, PoolFacts', [Next]_vars PROVE HoldInv'
  OBVIOUS
<1> USE DEF HoldInv, OwnTypes, HeldOnlyWhileSolving, SetUpForCall,
            SolvesOwnProblem, Stages, CallIds
<1>0. PoolTypeOK /\ PoolTypeOK'
  BY DEF PoolFacts
<1>1. ASSUME NEW t \in Threads, NEW k \in Keys, Project(t, k) PROVE HoldInv'
  BY <1>1, CallsAssumption DEF Project, Goto, Begin
<1>2. ASSUME NEW t \in Threads, Checkout(t) PROVE HoldInv'
  <2>1. \A u \in Threads \ {t} : owns'[u] = owns[u] /\ token'[u] = token[u]
    BY <1>0, <1>2, CheckoutIsOnes DEF Checkout
  <2>2. owns'[t] \in BOOLEAN
    BY <1>0 DEF PoolTypeOK
  <2> QED
    BY <1>2, <2>1, <2>2 DEF Checkout, Goto
<1>3. ASSUME NEW t \in Threads, Setup(t) PROVE HoldInv'
  <2>1. owns' = owns /\ token' = token
    BY <1>3 DEF Setup, poolVars
  <2>2. owns[t] /\ token[t] \in Solvers
    BY <1>3 DEF Setup, PoolFacts
  <2>3. \A u \in Threads \ {t} :
          stage[u] = "solve" => token[u] \in Solvers \ {token[t]}
    BY <2>2 DEF PoolFacts, ExclusiveOwnership
  <2>4. OwnTypes' /\ HeldOnlyWhileSolving' /\ SolvesOwnProblem'
    BY <1>3, <2>1, <2>2 DEF Setup, Goto
  <2>5. SetUpForCall'
    BY <1>3, <2>1, <2>2, <2>3 DEF Setup, Goto
  <2> QED
    BY <2>4, <2>5
<1>4. ASSUME NEW t \in Threads, Solve(t) PROVE HoldInv'
  <2>1. owns' = owns /\ token' = token
    BY <1>4 DEF Solve, poolVars
  <2>2. owns[t] /\ token[t] \in Solvers /\ loaded[token[t]] = call[t]
    BY <1>4 DEF Solve, PoolFacts
  <2> QED
    BY <1>4, <2>1, <2>2 DEF Solve, Goto
<1>5. ASSUME NEW t \in Threads, GiveBack(t) PROVE HoldInv'
  <2>1. owns' = [owns EXCEPT ![t] = FALSE] /\ token' = token
    BY <1>5 DEF GiveBack, Return
  <2>2. owns \in [Threads -> BOOLEAN]
    BY <1>0 DEF PoolTypeOK
  <2> QED
    BY <1>5, <2>1, <2>2 DEF GiveBack, Goto
<1>6. ASSUME NEW t \in Threads, ReadInfo(t) \/ Conclude(t) PROVE HoldInv'
  BY <1>6 DEF ReadInfo, Conclude, Goto, poolVars
<1>7. CASE UNCHANGED vars
  BY <1>7 DEF vars, poolVars
<1> QED
  BY <1>1, <1>2, <1>3, <1>4, <1>5, <1>6, <1>7 DEF Next, Step

\* The invariant of the projectors.
LEMMA HoldInvariant == Spec => []HoldInv
<1>1. Init => HoldInv
  BY CallsAssumption DEF Init, PoolInit, HoldInv, OwnTypes, HeldOnlyWhileSolving,
    SetUpForCall, SolvesOwnProblem, Stages, CallIds
<1> QED
  BY <1>1, HoldInductive, PoolFactsHold, PTL DEF Spec

\* The candidate a call verifies is the solution of its own problem.
THEOREM OwnProblem == Spec => []SolvesOwnProblem
  BY HoldInvariant, PTL DEF HoldInv

\* A solver is held exactly from its checkout to the finally block.
THEOREM HeldWhileSolving == Spec => []HeldOnlyWhileSolving
  BY HoldInvariant, PTL DEF HoldInv
=============================================================================
