------------------------- MODULE EpisodeReplayProofs -------------------------
(***************************************************************************)
(* Proofs about EpisodeReplay, for every street graph, bank, rule, number  *)
(* of arms and limit of intersections: the bank is a search tree, a shield *)
(* that projects falls back at dead ends only, an episode ends for the     *)
(* reason that is recorded, and the counts of a bundle agree with its      *)
(* steps.                                                                  *)
(***************************************************************************)
EXTENDS EpisodeReplay, FiniteSetTheorems, FunctionTheorems, SequenceTheorems,
        NaturalsInduction, WellFoundedInduction, TLAPS

Records == [prev : Actions \cup {None}, act : Actions, reward : Int,
            matched : BOOLEAN, fallback : BOOLEAN, shielded : BOOLEAN]

StepTypes == /\ graph \in Graphs /\ at \in Addresses
             /\ prev \in Actions \cup {None}
             /\ steps \in Seq(Records)
             /\ count \in Nat

\* What is true of the node an episode ended at.
EndedRightly ==
  \/ reason = "out_of_bank" /\ graph[at] # {} /\ count < MaxIntersections
  \/ reason = "no_candidates" /\ graph[at] = {}
  \/ reason = "max_intersections" /\ graph[at] # {} /\ count = MaxIntersections

\* While an episode runs every step has passed one intersection, so that the
\* limit is reached before the loop of the runner ends.
Progressing == /\ count <= MaxIntersections
               /\ IF reason = None THEN Len(steps) = count /\ count < MaxIntersections
                                   ELSE EndedRightly

\* The inductive invariant.
ReplayInv == /\ StepTypes
             /\ ~passthrough => FallsBackAtTheEnd(steps, reason)
             /\ phase = "step" => Progressing

\* Rewards are whole numbers of halves.
LEMMA RewardIsInt == \A act : Reward(act) \in Int
  BY DEF Reward

\* Edges lead from addresses to addresses.
LEMMA EdgesAreCandidates ==
  ASSUME StepTypes PROVE graph[at] \subseteq Candidate
  BY ReplayAssumption, BankAssumption DEF StepTypes

\* A step of the environment adds one record, matched if a matching edge was
\* there, and goes on or ends for its reason.
LEMMA EnvStepKeeps ==
  ASSUME ReplayInv, NEW act \in Actions, NEW shielded \in BOOLEAN,
         phase = "step", reason = None, EnvStep(act, shielded),
         shielded => act \in ShieldActions,
         UNCHANGED <<bankVars, rule, passthrough, phase, episodes>>
  PROVE  ReplayInv'
<1> DEFINE edges == IF Matching(act) # {} THEN Matching(act) ELSE graph[at]
           record == [prev |-> prev, act |-> act, reward |-> Reward(act),
                      matched |-> Matching(act) # {}, fallback |-> Matching(act) = {},
                      shielded |-> shielded]
<1>1. /\ steps' = Append(steps, record)
      /\ \/ /\ edges = {}
            /\ reason' = Reason(FALSE, at)
            /\ UNCHANGED <<at, prev, count>>
         \/ /\ First(edges) \cap Nodes = {} /\ edges # {}
            /\ reason' = Reason(TRUE, at)
            /\ UNCHANGED <<at, prev, count>>
         \/ \E next \in First(edges) \cap Nodes :
              /\ at' = next /\ prev' = act /\ count' = count + 1
              /\ reason' = IF LimitReached(count + 1) THEN Reason(FALSE, next) ELSE None
  BY DEF EnvStep
<1>2. graph' = graph /\ phase' = phase
  BY DEF bankVars
<1>3. record \in Records
  BY RewardIsInt DEF Records, ReplayInv, StepTypes
<1>4. ~passthrough /\ record.shielded /\ record.fallback => graph[at] = {}
  BY DEF ShieldActions, AllowedActions, Matching
<1>5. edges # {} => graph[at] # {}
  BY DEF Matching
<1>6. edges = {} => graph[at] = {}
  OBVIOUS
<1>7. MaxIntersections \in Nat /\ None \notin {"out_of_bank", "no_candidates", "max_intersections"}
  BY ReplayAssumption
<1>8. \A next \in First(edges) : next \in Addresses
  <2>1. edges \subseteq Candidate
    BY EdgesAreCandidates DEF ReplayInv, Matching
  <2> QED
    BY <2>1 DEF First, Candidate
<1> HIDE DEF record, edges
<1>9. StepTypes'
  <2>1. steps' \in Seq(Records)
    BY <1>1, <1>3 DEF ReplayInv, StepTypes
  <2>2. at' \in Addresses /\ prev' \in Actions \cup {None} /\ count' \in Nat
    <3>1. CASE UNCHANGED <<at, prev, count>>
      BY <3>1 DEF ReplayInv, StepTypes
    <3>2. ASSUME NEW next \in First(edges),
                 at' = next, prev' = act, count' = count + 1
          PROVE  at' \in Addresses /\ prev' \in Actions \cup {None} /\ count' \in Nat
      BY <3>2, <1>8 DEF ReplayInv, StepTypes
    <3> QED
      BY <1>1, <3>1, <3>2
  <2>3. graph' \in Graphs
    BY <1>2 DEF ReplayInv, StepTypes
  <2> QED
    BY <2>1, <2>2, <2>3 DEF StepTypes
<1>10. ~passthrough' => FallsBackAtTheEnd(steps', reason')
  <2> SUFFICES ASSUME ~passthrough, NEW i \in DOMAIN steps',
                      steps'[i].shielded, steps'[i].fallback
               PROVE  i = Len(steps') /\ reason' = "no_candidates"
    BY DEF FallsBackAtTheEnd
  <2>1. steps \in Seq(Records)
    BY DEF ReplayInv, StepTypes
  <2>2. CASE i \in DOMAIN steps
    <3>1. steps'[i] = steps[i]
      BY <1>1, <1>3, <2>1, <2>2
    <3>2. reason = "no_candidates"
      BY <3>1, <2>2 DEF ReplayInv, FallsBackAtTheEnd
    <3> QED
      BY <3>2, <1>7
  <2>3. CASE i \notin DOMAIN steps
    <3>1. steps'[i] = record /\ i = Len(steps')
      BY <1>1, <1>3, <2>1, <2>3
    <3>2. graph[at] = {}
      BY <3>1, <1>4
    <3>3. edges = {}
      BY <3>2, <1>5
    <3>4. reason' = Reason(FALSE, at)
      BY <1>1, <3>3 DEF First
    <3> QED
      BY <3>1, <3>2, <3>4 DEF Reason
  <2> QED
    BY <2>2, <2>3
<1>11. Progressing'
  <2>1. count < MaxIntersections /\ Len(steps) = count /\ count \in Nat
    BY DEF ReplayInv, Progressing, StepTypes
  <2>2. Len(steps') = count + 1
    BY <1>1, <1>3, <2>1 DEF ReplayInv, StepTypes
  <2>3. CASE edges = {} /\ reason' = Reason(FALSE, at) /\ UNCHANGED <<at, prev, count>>
    BY <2>1, <2>3, <1>2, <1>6, <1>7 DEF Progressing, EndedRightly, Reason
  <2>4. CASE edges # {} /\ reason' = Reason(TRUE, at) /\ UNCHANGED <<at, prev, count>>
    BY <2>1, <2>4, <1>2, <1>5, <1>7 DEF Progressing, EndedRightly, Reason
  <2>5. ASSUME NEW next, at' = next, count' = count + 1,
               reason' = IF LimitReached(count + 1) THEN Reason(FALSE, next) ELSE None
        PROVE  Progressing'
    BY <2>1, <2>2, <2>5, <1>2, <1>7 DEF Progressing, EndedRightly, Reason, LimitReached
  <2> QED
    BY <1>1, <2>3, <2>4, <2>5
<1> QED
  BY <1>9, <1>10, <1>11 DEF ReplayInv

\* Every step keeps the invariant.
LEMMA ReplayInductive == ReplayInv /\ [Next]_vars => ReplayInv'
<1> SUFFICES ASSUME ReplayInv, [Next]_vars PROVE ReplayInv'
  OBVIOUS
<1>1. CASE BuildBank
  BY <1>1 DEF BuildBank, Pop, episodeVars, ReplayInv, StepTypes, FallsBackAtTheEnd
<1>2. CASE StartEpisode
  <2>1. Root \in Addresses
    BY BankAssumption DEF ReplayInv, StepTypes, Addresses
  <2> QED
    BY <1>2, <2>1, ReplayAssumption
     DEF StartEpisode, bankVars, ReplayInv, StepTypes, FallsBackAtTheEnd, Progressing
<1>3. CASE FreeStep
  <2>1. PICK act \in Actions : EnvStep(act, FALSE)
    BY <1>3 DEF FreeStep
  <2> QED
    BY <2>1, <1>3, EnvStepKeeps DEF FreeStep, Going
<1>4. CASE ShieldedStep
  <2>1. PICK act \in ShieldActions : EnvStep(act, TRUE)
    BY <1>4 DEF ShieldedStep
  <2>2. act \in Actions
    BY <2>1, EdgesAreCandidates DEF ShieldActions, AllowedActions, ReplayInv, Candidate
  <2> QED
    BY <2>1, <2>2, <1>4, EnvStepKeeps DEF ShieldedStep, Going
<1>5. CASE ShieldRaises \/ Finalize
  BY <1>5 DEF ShieldRaises, bankVars, Finalize, episodeVars, ReplayInv, StepTypes, FallsBackAtTheEnd
<1>6. CASE WriteBundle
  BY <1>6 DEF WriteBundle, bankVars, episodeVars, ReplayInv, StepTypes, FallsBackAtTheEnd
<1>7. CASE UNCHANGED vars
  BY <1>7 DEF vars, bankVars, episodeVars, ReplayInv, StepTypes, FallsBackAtTheEnd,
              Progressing, EndedRightly
<1> QED
  BY <1>1, <1>2, <1>3, <1>4, <1>5, <1>6, <1>7 DEF Next, Stopped

\* The invariant of a replay, from the bank to the bundle.
LEMMA ReplayInvariant == Spec => []ReplayInv
<1>1. Init => ReplayInv
  <2> SUFFICES ASSUME Init PROVE ReplayInv
    OBVIOUS
  <2>1. Root \in Addresses
    BY BankAssumption DEF Init, BankInit, Addresses
  <2> QED
    BY <2>1 DEF Init, BankInit, ReplayInv, StepTypes, FallsBackAtTheEnd
<1> QED
  BY <1>1, ReplayInductive, PTL DEF Spec

\* The runner's loop never runs out, and the reason recorded is the true one.
THEOREM EndsForItsReason == Spec => []EpisodeEndsForItsReason
<1>1. ReplayInv => EpisodeEndsForItsReason
  <2> SUFFICES ASSUME ReplayInv, phase = "step", ~Going
               PROVE  count <= MaxIntersections /\ EndedRightly
    BY DEF EpisodeEndsForItsReason, EndedRightly
  <2>1. reason # None
    BY ReplayAssumption DEF ReplayInv, StepTypes, Progressing, Going
  <2> QED
    BY <2>1 DEF ReplayInv, Progressing
<1> QED
  BY <1>1, ReplayInvariant, PTL
-----------------------------------------------------------------------------
(***************************************************************************)
(* The bank.                                                               *)
(***************************************************************************)
Entries == [at : Addresses, depth : Nat]

BankTypes == /\ graph \in Graphs
             /\ Nodes \subseteq Addresses /\ IsFiniteSet(Nodes)
             /\ depth \in [Nodes -> Nat]
             /\ queue \in Seq(Entries)
             /\ cramped \in BOOLEAN

\* Nodes and queue together have room.
HasRoom == Cardinality(Nodes) + Len(queue) <= MaxNodes

\* An address lies one step behind a node, and one deeper.
Behind(a, d) == \E b \in Nodes : d = depth[b] + 1 /\ a \in Successors({b})

\* The bank grows from its root.
Rooted == /\ IF Root \in Nodes THEN depth[Root] = 0
                               ELSE Nodes = {} /\ queue = <<[at |-> Root, depth |-> 0]>>
          /\ \A a \in Nodes \ {Root} : Behind(a, depth[a])
          /\ \A i \in 1..Len(queue) :
               queue[i].at # Root => Behind(queue[i].at, queue[i].depth)

\* The queue is in the order of depths, of which it holds two at most, and no
\* node is deeper than what is queued.
InOrder == /\ \A i, j \in 1..Len(queue) : i <= j =>
                queue[i].depth <= queue[j].depth /\ queue[j].depth <= queue[i].depth + 1
           /\ \A a \in Nodes, i \in 1..Len(queue) : depth[a] <= queue[i].depth

\* Whatever is in the bank or queued is as near as it says.
Reached == /\ \A a \in Nodes : depth[a] <= MaxDepth /\ a \in Reach[depth[a]]
           /\ \A i \in 1..Len(queue) :
                queue[i].depth <= MaxDepth /\ queue[i].at \in Reach[queue[i].depth]

\* Where no edge was left out, those of a node lead to nodes or to what is
\* queued, at most one deeper.
Followed == ~cramped => \A a \in Nodes : depth[a] < MaxDepth =>
  \A s \in Successors({a}) :
    \/ s \in Nodes /\ depth[s] <= depth[a] + 1
    \/ \E i \in 1..Len(queue) : queue[i].at = s /\ queue[i].depth <= depth[a] + 1

\* The inductive invariant.
BankInv == BankTypes /\ HasRoom /\ Rooted /\ InOrder /\ Reached /\ Followed

\* A set of numbers that has a member has a least one.
LEMMA LeastOf == ASSUME NEW S \in SUBSET Nat, S # {} PROVE \E n \in S : \A m \in S : n <= m
<1>1. PICK n \in S : \A m \in S : ~(<<m, n>> \in OpToRel(<, Nat))
  BY NatLessThanWellFounded, WFMin
<1>2. \A m \in S : ~(m < n) BY <1>1 DEF OpToRel
<1> QED BY <1>2

\* The addresses behind one address, and that they are addresses.
LEMMA SuccessorsOfOne == \A a : Successors({a}) = {c.dest : c \in graph[a]}
  BY DEF Successors

\* Edges lead to addresses only.
LEMMA SuccessorsAreAddresses ==
  ASSUME graph \in Graphs, NEW S \in SUBSET Addresses
  PROVE  Successors(S) \in SUBSET Addresses
<1>1. \A a \in S : graph[a] \subseteq Candidate BY BankAssumption
<1> QED BY <1>1 DEF Successors, Candidate

\* The successors of a node are among those of any set it is in.
LEMMA SuccessorsGrow ==
  ASSUME NEW S, NEW a \in S PROVE Successors({a}) \subseteq Successors(S)
  BY DEF Successors

\* The functions that count steps from the root up to the n-th.
ReachesUpTo(n) ==
  {f \in [Nat -> SUBSET Addresses] :
     \A d \in Nat : d <= n =>
       f[d] = IF d = 0 THEN {Root} ELSE f[d - 1] \cup Successors(f[d - 1])}

\* There are such functions for every n, by the least n for which there are none.
LEMMA ReachesExist == ASSUME graph \in Graphs, NEW m \in Nat PROVE ReachesUpTo(m) # {}
<1> DEFINE Missing == {n \in Nat : ReachesUpTo(n) = {}}
<1> SUFFICES ASSUME Missing # {} PROVE FALSE
  OBVIOUS
<1>1. PICK n \in Missing : \A k \in Missing : n <= k
  BY LeastOf
<1>2. n \in Nat /\ ReachesUpTo(n) = {} BY <1>1
<1>3. CASE n = 0
  <2>1. PICK f : f = [d \in Nat |-> {Root}] OBVIOUS
  <2>2. Root \in Addresses BY BankAssumption DEF Addresses
  <2>3. f \in [Nat -> SUBSET Addresses] BY <2>1, <2>2
  <2>4. \A d \in Nat : d <= n => d = 0 BY <1>3
  <2>5. f \in ReachesUpTo(n) BY <2>1, <2>3, <2>4 DEF ReachesUpTo
  <2> QED BY <1>2, <2>5
<1>4. CASE n # 0
  <2>1. n - 1 \in Nat /\ ~(n <= n - 1) BY <1>2, <1>4
  <2>2. PICK k \in Nat : k = n - 1 BY <2>1
  <2>3. ReachesUpTo(k) # {} BY <1>1, <2>1, <2>2
  <2>4. PICK f \in [Nat -> SUBSET Addresses] :
          \A d \in Nat : d <= k =>
            f[d] = IF d = 0 THEN {Root} ELSE f[d - 1] \cup Successors(f[d - 1])
    BY <2>3 DEF ReachesUpTo
  <2>5. PICK v : v = f[k] \cup Successors(f[k]) OBVIOUS
  <2>6. v \in SUBSET Addresses BY <2>4, <2>5, SuccessorsAreAddresses
  <2>7. PICK g : g = [f EXCEPT ![n] = v] OBVIOUS
  <2>8. g \in [Nat -> SUBSET Addresses] BY <2>4, <2>6, <2>7
  <2>9. ASSUME NEW d \in Nat, d <= n
        PROVE  g[d] = IF d = 0 THEN {Root} ELSE g[d - 1] \cup Successors(g[d - 1])
    <3>1. d # 0 => d - 1 \in Nat /\ d - 1 # n BY <2>9, <1>2
    <3>2. d # 0 => g[d - 1] = f[d - 1] BY <2>4, <2>7, <3>1
    <3>3. CASE d = n BY <1>2, <1>4, <2>2, <2>4, <2>5, <2>7, <3>2, <3>3
    <3>4. CASE d # n
      <4>1. d <= k BY <1>2, <2>2, <2>9, <3>4
      <4>2. g[d] = f[d] BY <2>4, <2>7, <3>4
      <4> QED BY <2>4, <3>2, <4>1, <4>2
    <3> QED BY <3>3, <3>4
  <2>10. g \in ReachesUpTo(n) BY <2>8, <2>9 DEF ReachesUpTo
  <2> QED BY <1>2, <2>10
<1> QED BY <1>3, <1>4

\* Two of them agree as far as both count.
LEMMA ReachesAgree ==
  ASSUME NEW m \in Nat, NEW n \in Nat, NEW f \in ReachesUpTo(m), NEW g \in ReachesUpTo(n)
  PROVE  \A d \in Nat : d <= m /\ d <= n => f[d] = g[d]
<1> DEFINE Wrong == {d \in Nat : d <= m /\ d <= n /\ f[d] # g[d]}
<1> SUFFICES ASSUME Wrong # {} PROVE FALSE
  OBVIOUS
<1>1. PICK d \in Wrong : \A e \in Wrong : d <= e
  BY LeastOf
<1>2. d \in Nat /\ d <= m /\ d <= n /\ f[d] # g[d] BY <1>1
<1>3. /\ f[d] = IF d = 0 THEN {Root} ELSE f[d - 1] \cup Successors(f[d - 1])
      /\ g[d] = IF d = 0 THEN {Root} ELSE g[d - 1] \cup Successors(g[d - 1])
  BY <1>2 DEF ReachesUpTo
<1>4. d # 0 BY <1>2, <1>3
<1>5. d - 1 \in Nat /\ d - 1 <= m /\ d - 1 <= n /\ ~(d <= d - 1) BY <1>2, <1>4
<1>6. f[d - 1] = g[d - 1] BY <1>1, <1>5
<1> QED BY <1>2, <1>3, <1>6

\* Reach counts steps from the root.
LEMMA ReachSteps ==
  ASSUME graph \in Graphs
  PROVE  /\ Reach[0] = {Root}
         /\ \A d \in Nat : Reach[d + 1] = Reach[d] \cup Successors(Reach[d])
         /\ \A d \in Nat : Reach[d] \in SUBSET Addresses
<1> DEFINE Body(f) == [d \in Nat |-> IF d = 0 THEN {Root}
                                     ELSE f[d - 1] \cup Successors(f[d - 1])]
           F(n) == CHOOSE f : f \in ReachesUpTo(n)
<1>1. \A n \in Nat : F(n) \in ReachesUpTo(n)
  BY ReachesExist
<1>2. PICK h : h = [d \in Nat |-> F(d)[d]] OBVIOUS
<1> HIDE DEF F
<1>3. \A d \in Nat : h[d] = IF d = 0 THEN {Root} ELSE h[d - 1] \cup Successors(h[d - 1])
  <2> SUFFICES ASSUME NEW d \in Nat
               PROVE  h[d] = IF d = 0 THEN {Root} ELSE h[d - 1] \cup Successors(h[d - 1])
    OBVIOUS
  <2>1. F(d) \in ReachesUpTo(d) BY <1>1
  <2>2. F(d)[d] = IF d = 0 THEN {Root} ELSE F(d)[d - 1] \cup Successors(F(d)[d - 1])
    BY <2>1 DEF ReachesUpTo
  <2>3. CASE d = 0 BY <1>2, <2>2, <2>3
  <2>4. CASE d # 0
    <3>1. PICK e \in Nat : e = d - 1 /\ e <= e /\ e <= d BY <2>4
    <3>2. F(e) \in ReachesUpTo(e) BY <1>1
    <3>3. F(e)[e] = F(d)[e] BY <2>1, <3>1, <3>2, ReachesAgree
    <3> QED BY <1>2, <2>2, <2>4, <3>1, <3>3
  <2> QED BY <2>3, <2>4
<1>4. h = Body(h)
  <2>1. \A d \in Nat : Body(h)[d] = h[d] BY <1>3
  <2>2. h = [d \in Nat |-> h[d]] /\ Body(h) = [d \in Nat |-> Body(h)[d]] BY <1>2
  <2> HIDE DEF Body
  <2> QED BY <2>1, <2>2
<1>5. Reach = CHOOSE f : f = Body(f) BY DEF Reach
<1>6. Reach = Body(Reach)
  <2> HIDE DEF Body
  <2> QED BY <1>4, <1>5
<1>7. \A d \in Nat : Reach[d] = IF d = 0 THEN {Root} ELSE Reach[d - 1] \cup Successors(Reach[d - 1])
  <2> HIDE DEF Reach
  <2>1. \A d \in Nat : Body(Reach)[d] = IF d = 0 THEN {Root} ELSE Reach[d - 1] \cup Successors(Reach[d - 1])
    OBVIOUS
  <2> HIDE DEF Body
  <2> QED BY <1>6, <2>1
<1> HIDE DEF Reach
<1>8. Reach[0] = {Root} BY <1>7
<1>9. \A d \in Nat : Reach[d + 1] = Reach[d] \cup Successors(Reach[d])
  <2> SUFFICES ASSUME NEW d \in Nat PROVE Reach[d + 1] = Reach[d] \cup Successors(Reach[d])
    OBVIOUS
  <2>1. PICK e \in Nat : e = d + 1 /\ e # 0 /\ e - 1 = d OBVIOUS
  <2> QED BY <1>7, <2>1
<1>10. \A d \in Nat : Reach[d] \in SUBSET Addresses
  <2> DEFINE Wrong == {d \in Nat : Reach[d] \notin SUBSET Addresses}
  <2> SUFFICES ASSUME Wrong # {} PROVE FALSE
    OBVIOUS
  <2>1. PICK d \in Wrong : \A e \in Wrong : d <= e BY LeastOf
  <2>2. d \in Nat /\ Reach[d] \notin SUBSET Addresses BY <2>1
  <2>3. Root \in Addresses BY BankAssumption DEF Addresses
  <2>4. d # 0 BY <1>8, <2>2, <2>3
  <2>5. PICK e \in Nat : d = e + 1 /\ e = d - 1 /\ ~(d <= e) BY <2>2, <2>4
  <2>6. Reach[e] \in SUBSET Addresses BY <2>1, <2>5
  <2>7. Successors(Reach[e]) \in SUBSET Addresses BY <2>6, SuccessorsAreAddresses
  <2> QED BY <1>9, <2>2, <2>5, <2>6, <2>7
<1> QED BY <1>8, <1>9, <1>10

\* More steps reach no less.
LEMMA ReachGrows ==
  ASSUME graph \in Graphs, NEW d \in Nat
  PROVE  \A e \in Nat : d <= e => Reach[d] \subseteq Reach[e]
<1> DEFINE Wrong == {e \in Nat : d <= e /\ ~(Reach[d] \subseteq Reach[e])}
<1> SUFFICES ASSUME Wrong # {} PROVE FALSE
  OBVIOUS
<1>1. PICK e \in Wrong : \A k \in Wrong : e <= k BY LeastOf
<1>2. e \in Nat /\ d <= e /\ e # d /\ ~(Reach[d] \subseteq Reach[e]) BY <1>1
<1>3. PICK k \in Nat : e = k + 1 /\ d <= k /\ ~(e <= k)
  <2>1. PICK k \in Nat : k = e - 1 BY <1>2
  <2> QED BY <1>2, <2>1
<1>4. Reach[d] \subseteq Reach[k] BY <1>1, <1>3
<1>5. Reach[e] = Reach[k] \cup Successors(Reach[k]) BY <1>3, ReachSteps
<1> QED BY <1>2, <1>4, <1>5

\* What the queue holds after an address is looked at.
LEMMA PoppedOff ==
  ASSUME queue \in Seq(Entries), queue # <<>>
  PROVE  /\ RemoveAt(queue, Popped) \in Seq(Entries)
         /\ Len(RemoveAt(queue, Popped)) = Len(queue) - 1
         /\ \A i \in 1..Len(queue) - 1 : RemoveAt(queue, Popped)[i] = queue[i + 1]
         /\ queue[Popped] = queue[1] /\ queue[1] \in Entries
<1>1. Len(queue) \in Nat /\ Len(queue) # 0 BY EmptySeq
<1>2. SubSeq(queue, 1, 0) = <<>> /\ 1 - 1 = 0 /\ 1 + 1 = 2
  <2>1. 0 \in (1-1)..Len(queue) /\ 1 \in 1..Len(queue)+1 BY <1>1
  <2>2. SubSeq(queue, 1, 0) \in Seq(Entries) /\ Len(SubSeq(queue, 1, 0)) = 0
    BY <2>1, SubSeqProperties
  <2> QED BY <2>2, EmptySeq
<1>3. PICK rest : rest = SubSeq(queue, 2, Len(queue)) OBVIOUS
<1>4. /\ rest \in Seq(Entries) /\ Len(rest) = Len(queue) - 1
      /\ \A i \in 1..Len(queue) - 1 : rest[i] = queue[i + 1]
  <2>1. 2 \in 1..Len(queue)+1 /\ Len(queue) \in (2-1)..Len(queue) BY <1>1
  <2>2. /\ rest \in Seq(Entries)
        /\ Len(rest) = IF 2 <= Len(queue) THEN Len(queue)-2+1 ELSE 0
        /\ \A i \in 1..Len(queue)-2+1 : rest[i] = queue[2+i-1]
    BY <1>3, <2>1, SubSeqProperties
  <2>3. Len(rest) = Len(queue) - 1
    <3>1. PICK n \in Nat : n = Len(queue) /\ n # 0 BY <1>1
    <3>2. Len(rest) = IF 2 <= n THEN n-2+1 ELSE 0 BY <2>2, <3>1
    <3>3. CASE n = 1 BY <3>1, <3>2, <3>3
    <3>4. CASE n # 1
      <4>1. 2 <= n /\ n-2+1 = n-1 BY <3>1, <3>4
      <4> QED BY <3>1, <3>2, <4>1
    <3> QED BY <3>3, <3>4
  <2>4. ASSUME NEW i \in 1..Len(queue) - 1 PROVE rest[i] = queue[i + 1]
    <3>1. i \in 1..Len(queue)-2+1 /\ 2+i-1 = i+1 BY <1>1
    <3> QED BY <2>2, <3>1
  <2> QED BY <2>2, <2>3, <2>4
<1>5. RemoveAt(queue, 1) = rest
  BY <1>2, <1>3, <1>4, ConcatEmptySeq DEF RemoveAt
<1>6. 1 \in 1..Len(queue) BY <1>1
<1> QED BY <1>1, <1>4, <1>5, <1>6 DEF Popped

\* What is behind a node stays behind it while the bank grows.
LEMMA BehindStays ==
  ASSUME BankTypes, NEW head \in Entries, graph' = graph,
         depth' = [a \in Nodes \cup {head.at} |->
                     IF a = head.at THEN head.depth ELSE depth[a]],
         head.at \notin Nodes, NEW a, NEW d, Behind(a, d)
  PROVE  Behind(a, d)'
<1>1. PICK b \in Nodes : d = depth[b] + 1 /\ a \in Successors({b}) BY DEF Behind
<1>2. b \in Nodes' /\ depth'[b] = depth[b] BY DEF Nodes
<1>3. Successors({b})' = Successors({b}) BY DEF Successors
<1> QED BY <1>1, <1>2, <1>3 DEF Behind

\* One turn of the loop: an address seen before is forgotten.  Another becomes
\* a node and some of the addresses behind it are queued after all others.
Forgets(head) == head.at \in Nodes /\ UNCHANGED <<depth, cramped>>

Adds(head, rest, new) ==
  /\ head.at \notin Nodes
  /\ depth' = [a \in Nodes \cup {head.at} |->
                 IF a = head.at THEN head.depth ELSE depth[a]]
  /\ new # <<>> => /\ head.depth < MaxDepth
                   /\ Cardinality(Nodes) + 1 + Len(rest) + Len(new) <= MaxNodes
  /\ \A k \in 1..Len(new) :
       new[k].depth = head.depth + 1 /\ new[k].at \in Successors({head.at})
  /\ cramped' \in BOOLEAN
  /\ ~cramped' =>
       /\ ~cramped
       /\ head.depth < MaxDepth =>
            \A s \in Successors({head.at}) \ DOMAIN depth' :
              \E k \in 1..Len(new) : new[k].at = s

Turn(rest, new) ==
  /\ Len(rest) = Len(queue) - 1
  /\ \A i \in 1..Len(queue) - 1 : rest[i] = queue[i + 1]
  /\ queue' = rest \o new
  /\ (Forgets(queue[1]) /\ new = <<>>) \/ Adds(queue[1], rest, new)

\* No edge to what is not in the bank is left out but for want of room.
LEMMA PopEffect ==
  ASSUME BankTypes, Pop
  PROVE  /\ queue # <<>> /\ Cardinality(Nodes) < MaxNodes /\ graph' = graph
         /\ \E rest, new \in Seq(Entries) : Turn(rest, new)
<1> DEFINE head == queue[Popped]
           rest == RemoveAt(queue, Popped)
<1>1. queue # <<>> /\ Cardinality(Nodes) < MaxNodes /\ graph' = graph
  BY DEF Pop, Building
<1>2. /\ rest \in Seq(Entries) /\ Len(rest) = Len(queue) - 1
      /\ \A i \in 1..Len(queue) - 1 : rest[i] = queue[i + 1]
      /\ head = queue[1] /\ head \in Entries
  BY <1>1, PoppedOff DEF BankTypes
<1>3. <<>> \in Seq(Entries) /\ Len(<<>>) = 0 /\ rest \o <<>> = rest
  BY <1>2, EmptySeq, ConcatEmptySeq
<1>4. CASE head.at \in Nodes
  <2>1. queue' = rest /\ UNCHANGED <<depth, cramped>> BY <1>4 DEF Pop
  <2>2. Turn(rest, <<>>) BY <1>2, <1>3, <1>4, <2>1 DEF Turn, Forgets
  <2> HIDE DEF head, rest
  <2> QED BY <1>1, <1>2, <1>3, <2>2
<1>5. CASE head.at \notin Nodes
  <2> DEFINE S == {c \in graph[head.at] : c.dest \notin DOMAIN depth'}
  <2>1. /\ depth' = [a \in Nodes \cup {head.at} |->
                       IF a = head.at THEN head.depth ELSE depth[a]]
        /\ cramped' = \/ cramped
                      \/ head.depth < MaxDepth /\ Len(queue') < Len(rest) + Cardinality(S)
    BY <1>5 DEF Pop
  <2>2. PICK edges \in SetToSeqs(S) :
          queue' = IF head.depth >= MaxDepth THEN rest ELSE Extended(rest, head.depth, edges)
    BY <1>5 DEF Pop
  <2>3. /\ graph[head.at] \subseteq Candidate /\ IsFiniteSet(graph[head.at])
        /\ head.at \in Addresses /\ head.depth \in Nat /\ MaxDepth \in Nat /\ MaxNodes \in Nat
    BY <1>2, BankAssumption DEF BankTypes, Entries
  <2>4. IsFiniteSet(S) /\ S \subseteq Candidate /\ S \subseteq graph[head.at]
    BY <2>3, FS_Subset
  <2>5. /\ Successors({head.at}) = {c.dest : c \in graph[head.at]}
    BY SuccessorsOfOne
  <2> HIDE DEF S
  <2>6. PICK n \in Nat : n = Cardinality(S) BY <2>4, FS_CardinalityType
  <2>7. edges \in Injection(1..n, S)
    BY <2>2, <2>6 DEF SetToSeqs, Injection, IsInjective
  <2>8. edges \in Surjection(1..n, S)
    <3>1. IsFiniteSet(1..n) /\ Cardinality(1..n) = n BY FS_Interval
    <3> QED BY <2>4, <2>6, <2>7, <3>1, FS_Injection
  <2>9. edges \in Seq(S) /\ Len(edges) = n
    <3>1. edges \in [1..n -> S] BY <2>7 DEF Injection
    <3> QED BY <3>1
  <2>10. CASE head.depth >= MaxDepth
    <3>1. queue' = rest \o <<>> /\ ~(head.depth < MaxDepth)
      BY <1>3, <2>2, <2>3, <2>10
    <3>2. cramped' \in BOOLEAN /\ (~cramped' => ~cramped)
      BY <2>1, <3>1 DEF BankTypes
    <3>3. \A k \in 1..0 : FALSE OBVIOUS
    <3> HIDE DEF head, rest
    <3>4. Adds(head, rest, <<>>) BY <1>3, <1>5, <2>1, <3>1, <3>2, <3>3 DEF Adds
    <3>5. Turn(rest, <<>>) BY <1>2, <3>1, <3>4 DEF Turn
    <3> QED BY <1>1, <1>2, <1>3, <3>5
  <2>11. CASE head.depth < MaxDepth
    <3> DEFINE room == IF MaxNodes > Cardinality(Nodes) + 1 + Len(rest)
                       THEN MaxNodes - Cardinality(Nodes) - 1 - Len(rest) ELSE 0
               k == IF room < Len(edges) THEN room ELSE Len(edges)
               take == SubSeq(edges, 1, k)
               new == [i \in 1..Len(take) |-> [at |-> take[i].dest, depth |-> head.depth + 1]]
    <3>1. queue' = rest \o new
      <4>1. queue' = Extended(rest, head.depth, edges) BY <2>2, <2>3, <2>11
      <4>2. Extended(rest, head.depth, edges) = rest \o new
        <5> HIDE DEF rest, head
        <5> QED BY DEF Extended
      <4> HIDE DEF rest, head
      <4> QED BY <4>1, <4>2
    <3>2. Cardinality(Nodes) \in Nat /\ Len(rest) \in Nat
      BY <1>2, FS_CardinalityType DEF BankTypes
    <3>3. /\ room \in Nat
          /\ room # 0 => Cardinality(Nodes) + 1 + Len(rest) + room <= MaxNodes
      BY <2>3, <3>2
    <3> HIDE DEF room
    <3>4. k \in 0..n /\ k <= room /\ (k < n => k = room) BY <2>9, <3>3
    <3> HIDE DEF k
    <3>5. Len(take) = k /\ \A i \in 1..k : take[i] = edges[i] /\ edges[i] \in S
      <4>1. \A i \in 1..k : i \in 1..n BY <3>4
      <4>2. \A i \in 1..k : edges[i] \in S BY <2>7, <4>1 DEF Injection
      <4> QED BY <3>4, <4>2, SubSeqProperties
    <3> HIDE DEF take
    <3>6. /\ new \in Seq(Entries) /\ Len(new) = k
          /\ \A i \in 1..k : new[i] = [at |-> edges[i].dest, depth |-> head.depth + 1]
      <4>1. \A i \in 1..k : [at |-> take[i].dest, depth |-> head.depth + 1] \in Entries
        <5>1. \A i \in 1..k : take[i].dest \in Addresses BY <2>4, <3>5 DEF Candidate
        <5> QED BY <2>3, <5>1 DEF Entries
      <4>2. new \in [1..k -> Entries] BY <3>5, <4>1
      <4> QED BY <3>4, <3>5, <4>2
    <3> HIDE DEF new
    <3>7. new # <<>> => Cardinality(Nodes) + 1 + Len(rest) + Len(new) <= MaxNodes
      <4>1. new # <<>> => k # 0 BY <3>6, EmptySeq
      <4> QED BY <2>3, <3>2, <3>3, <3>4, <3>6, <4>1
    <3>8. \A i \in 1..Len(new) : /\ new[i].depth = head.depth + 1
                                 /\ new[i].at \in Successors({head.at})
      <4>1. \A i \in 1..k : edges[i] \in graph[head.at] BY <2>4, <3>5
      <4>2. ASSUME NEW i \in 1..k
            PROVE  /\ new[i].depth = head.depth + 1
                   /\ new[i].at \in Successors({head.at})
        <5> HIDE DEF head
        <5>1. new[i].at = edges[i].dest /\ new[i].depth = head.depth + 1 BY <3>6
        <5>2. edges[i].dest \in Successors({head.at}) BY <2>5, <4>1
        <5> QED BY <5>1, <5>2
      <4> HIDE DEF head
      <4> QED BY <3>6, <4>2
    <3>9. Len(queue') = Len(rest) + k BY <1>2, <3>1, <3>6, ConcatProperties
    <3>10. cramped' \in BOOLEAN
      BY <2>1 DEF BankTypes
    <3>11. ASSUME ~cramped'
           PROVE  /\ ~cramped
                  /\ \A s \in Successors({head.at}) \ DOMAIN depth' :
                       \E i \in 1..Len(new) : new[i].at = s
      <4>1. ~cramped /\ ~(Len(queue') < Len(rest) + n) BY <2>1, <2>6, <2>11, <3>11
      <4>2. k = n BY <3>2, <3>4, <3>9, <4>1
      <4>3. ASSUME NEW s \in Successors({head.at}) \ DOMAIN depth'
            PROVE  \E i \in 1..Len(new) : new[i].at = s
        <5>1. PICK c \in graph[head.at] : s = c.dest BY <2>5
        <5>2. c \in S BY <4>3, <5>1 DEF S
        <5>3. PICK i \in 1..n : edges[i] = c BY <2>8, <5>2 DEF Surjection
        <5> QED BY <3>6, <4>2, <5>1, <5>3
      <4> QED BY <4>1, <4>3
    <3> HIDE DEF head, rest
    <3>12. Adds(head, rest, new)
      BY <1>5, <2>1, <2>11, <3>7, <3>8, <3>10, <3>11 DEF Adds
    <3>13. Turn(rest, new) BY <1>2, <3>1, <3>12 DEF Turn
    <3> QED BY <1>1, <1>2, <3>6, <3>13
  <2> QED BY <2>3, <2>10, <2>11
<1> QED BY <1>4, <1>5

\* The queue after a turn: what was behind its head, then what is new.
LEMMA QueueAfter ==
  ASSUME queue \in Seq(Entries), queue # <<>>,
         NEW rest \in Seq(Entries), NEW new \in Seq(Entries), Turn(rest, new)
  PROVE  /\ queue' \in Seq(Entries) /\ Len(queue') = Len(queue) - 1 + Len(new)
         /\ \A i \in 1..Len(queue') :
              \/ i + 1 \in 1..Len(queue) /\ queue'[i] = queue[i + 1]
              \/ \E k \in 1..Len(new) : i = Len(queue) - 1 + k /\ queue'[i] = new[k]
         /\ \A i \in 1..Len(queue) : i # 1 => i - 1 \in 1..Len(queue') /\ queue'[i - 1] = queue[i]
         /\ \A k \in 1..Len(new) : \E i \in 1..Len(queue') : queue'[i] = new[k]
<1>1. /\ Len(rest) = Len(queue) - 1 /\ queue' = rest \o new
      /\ \A i \in 1..Len(queue) - 1 : rest[i] = queue[i + 1]
  BY DEF Turn
<1>2. PICK n \in Nat : n = Len(rest) /\ Len(queue) = n + 1
  BY <1>1, EmptySeq
<1>3. PICK m \in Nat : m = Len(new) OBVIOUS
<1>4. /\ queue' \in Seq(Entries) /\ Len(queue') = n + m
      /\ \A i \in 1..n + m : queue'[i] = IF i <= n THEN rest[i] ELSE new[i - n]
  BY <1>1, <1>2, <1>3, ConcatProperties
<1>5. \A i \in 1..n : rest[i] = queue[i + 1] BY <1>1, <1>2
<1>6. ASSUME NEW i \in 1..n + m
      PROVE  \/ i + 1 \in 1..n + 1 /\ queue'[i] = queue[i + 1]
             \/ \E k \in 1..m : i = n + k /\ queue'[i] = new[k]
  <2>1. CASE i <= n
    <3>1. i \in 1..n /\ i + 1 \in 1..n + 1 BY <2>1
    <3>2. queue'[i] = rest[i] BY <1>4, <2>1
    <3> QED BY <1>5, <3>1, <3>2
  <2>2. CASE ~(i <= n)
    <3>1. i - n \in 1..m /\ i = n + (i - n) BY <2>2
    <3>2. queue'[i] = new[i - n] BY <1>4, <2>2
    <3> QED BY <3>1, <3>2
  <2> QED BY <2>1, <2>2
<1>7. ASSUME NEW i \in 1..n + 1, i # 1
      PROVE  i - 1 \in 1..n + m /\ queue'[i - 1] = queue[i]
  <2>1. PICK j \in 1..n : i = j + 1 /\ i - 1 = j /\ j <= n /\ j \in 1..n + m
    <3>1. i - 1 \in 1..n /\ i = (i - 1) + 1 /\ i - 1 <= n /\ i - 1 \in 1..n + m BY <1>7
    <3> QED BY <3>1
  <2>2. queue'[j] = rest[j] BY <1>4, <2>1
  <2> QED BY <1>5, <2>1, <2>2
<1>8. ASSUME NEW k \in 1..m PROVE \E i \in 1..n + m : queue'[i] = new[k]
  <2>1. PICK i \in 1..n + m : i = n + k /\ ~(i <= n) /\ i - n = k OBVIOUS
  <2> QED BY <1>4, <2>1
<1>9. Len(queue) - 1 = n BY <1>2
<1>10. 1..Len(queue') = 1..n + m /\ 1..Len(queue) = 1..n + 1 /\ 1..Len(new) = 1..m
  BY <1>2, <1>3, <1>4
<1>11. queue' \in Seq(Entries) /\ Len(queue') = Len(queue) - 1 + Len(new)
  BY <1>3, <1>4, <1>9
<1>12. \A i \in 1..Len(queue') :
         \/ i + 1 \in 1..Len(queue) /\ queue'[i] = queue[i + 1]
         \/ \E k \in 1..Len(new) : i = Len(queue) - 1 + k /\ queue'[i] = new[k]
  BY <1>6, <1>9, <1>10, Zenon
<1>13. \A i \in 1..Len(queue) : i # 1 => i - 1 \in 1..Len(queue') /\ queue'[i - 1] = queue[i]
  BY <1>7, <1>10, Zenon
<1>14. \A k \in 1..Len(new) : \E i \in 1..Len(queue') : queue'[i] = new[k]
  BY <1>8, <1>10, Zenon
<1> QED BY <1>11, <1>12, <1>13, <1>14, Zenon

\* The types and the room after a turn.
LEMMA TurnKeepsTypes ==
  ASSUME BankTypes, HasRoom, queue # <<>>, graph' = graph,
         NEW rest \in Seq(Entries), NEW new \in Seq(Entries), Turn(rest, new)
  PROVE  BankTypes' /\ HasRoom'
<1>1. queue' \in Seq(Entries) /\ Len(queue') = Len(queue) - 1 + Len(new)
  BY QueueAfter DEF BankTypes
<1>2. /\ queue[1] \in Entries /\ Len(queue) \in Nat /\ Len(queue) # 0
      /\ Len(rest) = Len(queue) - 1
  BY PoppedOff, EmptySeq DEF BankTypes, Turn
<1>3. Cardinality(Nodes) \in Nat /\ MaxNodes \in Nat
  BY FS_CardinalityType, BankAssumption DEF BankTypes
<1>4. CASE Forgets(queue[1]) /\ new = <<>>
  <2>1. Len(new) = 0 BY <1>4, EmptySeq
  <2>2. UNCHANGED Nodes BY <1>4 DEF Forgets, Nodes
  <2>3. BankTypes'
    BY <1>1, <1>4, <2>2 DEF BankTypes, Forgets
  <2> QED BY <1>1, <1>2, <1>3, <2>1, <2>2, <2>3 DEF HasRoom
<1>5. CASE Adds(queue[1], rest, new)
  <2> DEFINE head == queue[1]
  <2>1. /\ head.at \notin Nodes /\ head.at \in Addresses /\ head.depth \in Nat
        /\ depth' = [a \in Nodes \cup {head.at} |->
                       IF a = head.at THEN head.depth ELSE depth[a]]
        /\ cramped' \in BOOLEAN
        /\ new # <<>> => Cardinality(Nodes) + 1 + Len(rest) + Len(new) <= MaxNodes
    BY <1>2, <1>5 DEF Adds, Entries
  <2> HIDE DEF head
  <2>2. Nodes' = Nodes \cup {head.at} BY <2>1 DEF Nodes
  <2>3. IsFiniteSet(Nodes') /\ Cardinality(Nodes') = Cardinality(Nodes) + 1
    BY <2>1, <2>2, FS_AddElement DEF BankTypes
  <2>4. depth' \in [Nodes' -> Nat]
    BY <2>1, <2>2 DEF BankTypes
  <2>5. BankTypes'
    BY <1>1, <2>1, <2>2, <2>3, <2>4 DEF BankTypes
  <2>6. CASE new = <<>>
    <3>1. Len(new) = 0 BY <2>6, EmptySeq
    <3> QED BY <1>1, <1>2, <1>3, <2>3, <2>5, <3>1 DEF HasRoom
  <2>7. CASE new # <<>>
    <3>1. PICK n \in Nat : n = Len(new) OBVIOUS
    <3> QED BY <1>1, <1>2, <1>3, <2>1, <2>3, <2>5, <2>7, <3>1 DEF HasRoom
  <2> QED BY <2>6, <2>7
<1> QED BY <1>4, <1>5 DEF Turn

\* The bank still grows from its root.
LEMMA TurnKeepsRooted ==
  ASSUME BankTypes, Rooted, queue # <<>>, graph' = graph,
         NEW rest \in Seq(Entries), NEW new \in Seq(Entries), Turn(rest, new)
  PROVE  Rooted'
<1> DEFINE Will(a, d) == \E b \in Nodes' : d = depth'[b] + 1 /\ a \in Successors({b})'
<1>1. \A i \in 1..Len(queue') :
        \/ i + 1 \in 1..Len(queue) /\ queue'[i] = queue[i + 1]
        \/ \E k \in 1..Len(new) : queue'[i] = new[k]
  BY QueueAfter DEF BankTypes
<1>2. queue[1] \in Entries /\ 1 \in 1..Len(queue)
  BY PoppedOff, EmptySeq DEF BankTypes
<1>3. SUFFICES /\ Root \in Nodes' /\ depth'[Root] = 0
               /\ \A a \in Nodes' \ {Root} : Will(a, depth'[a])
               /\ \A i \in 1..Len(queue') :
                    queue'[i].at # Root => Will(queue'[i].at, queue'[i].depth)
  BY DEF Rooted, Behind
<1>4. CASE Forgets(queue[1]) /\ new = <<>>
  <2>1. UNCHANGED <<Nodes, depth>> /\ queue[1].at \in Nodes
    BY <1>4 DEF Forgets, Nodes
  <2>2. \A a, d : Behind(a, d) => Will(a, d)
    BY <2>1 DEF Behind, Successors
  <2>3. Root \in Nodes /\ depth[Root] = 0 BY <2>1 DEF Rooted
  <2>4. \A k \in 1..Len(new) : FALSE BY <1>4, EmptySeq
  <2> HIDE DEF Will
  <2>5. ASSUME NEW i \in 1..Len(queue'), queue'[i].at # Root
        PROVE  Will(queue'[i].at, queue'[i].depth)
    <3>1. i + 1 \in 1..Len(queue) /\ queue'[i] = queue[i + 1] BY <1>1, <2>4
    <3> QED BY <2>2, <2>5, <3>1 DEF Rooted
  <2>6. \A a \in Nodes' \ {Root} : Will(a, depth'[a])
    BY <2>1, <2>2 DEF Rooted
  <2> QED BY <2>1, <2>3, <2>5, <2>6
<1>5. CASE Adds(queue[1], rest, new)
  <2>0. PICK head : head = queue[1] OBVIOUS
  <2>1. /\ head.at \notin Nodes /\ head \in Entries /\ head = queue[1]
        /\ depth' = [a \in Nodes \cup {head.at} |->
                       IF a = head.at THEN head.depth ELSE depth[a]]
        /\ \A k \in 1..Len(new) :
             new[k].depth = head.depth + 1 /\ new[k].at \in Successors({head.at})
    BY <1>2, <1>5, <2>0 DEF Adds
  <2>2. Nodes' = Nodes \cup {head.at} BY <2>1 DEF Nodes
  <2>3. ASSUME NEW a, NEW d, Behind(a, d) PROVE Will(a, d)
    BY <2>1, <2>3, BehindStays DEF Behind
  <2>4. \A k \in 1..Len(new) : Will(new[k].at, new[k].depth)
    <3>1. depth'[head.at] = head.depth /\ head.at \in Nodes' BY <2>1, <2>2
    <3>2. Successors({head.at})' = Successors({head.at}) BY DEF Successors
    <3> QED BY <2>1, <3>1, <3>2
  <2> HIDE DEF Will
  <2>5. Root \in Nodes' /\ depth'[Root] = 0
    <3>1. CASE Root \in Nodes
      BY <2>1, <2>2, <3>1 DEF Rooted
    <3>2. CASE Root \notin Nodes
      <4>1. head = [at |-> Root, depth |-> 0] BY <2>1, <3>2 DEF Rooted
      <4> QED BY <2>1, <2>2, <4>1
    <3> QED BY <3>1, <3>2
  <2>6. ASSUME NEW a \in Nodes' \ {Root} PROVE Will(a, depth'[a])
    <3>1. CASE a = head.at
      <4>1. Behind(head.at, head.depth) BY <1>2, <2>1, <2>6, <3>1 DEF Rooted
      <4> QED BY <2>1, <2>2, <2>3, <3>1, <4>1
    <3>2. CASE a # head.at
      <4>1. a \in Nodes /\ depth'[a] = depth[a] BY <2>1, <2>2, <2>6, <3>2
      <4>2. Behind(a, depth[a]) BY <2>6, <4>1 DEF Rooted
      <4> QED BY <2>3, <4>1, <4>2
    <3> QED BY <3>1, <3>2
  <2>7. ASSUME NEW i \in 1..Len(queue'), queue'[i].at # Root
        PROVE  Will(queue'[i].at, queue'[i].depth)
    <3>1. CASE i + 1 \in 1..Len(queue) /\ queue'[i] = queue[i + 1]
      <4>1. Behind(queue[i + 1].at, queue[i + 1].depth) BY <2>7, <3>1 DEF Rooted
      <4> QED BY <2>3, <3>1, <4>1
    <3>2. CASE \E k \in 1..Len(new) : queue'[i] = new[k]
      BY <2>4, <3>2
    <3> QED BY <1>1, <3>1, <3>2
  <2> QED BY <2>5, <2>6, <2>7
<1> QED BY <1>4, <1>5 DEF Turn

\* The queue stays in its order.
LEMMA TurnKeepsInOrder ==
  ASSUME BankTypes, InOrder, queue # <<>>,
         NEW rest \in Seq(Entries), NEW new \in Seq(Entries), Turn(rest, new)
  PROVE  InOrder'
<1> DEFINE head == queue[1]
           Kept(i) == i + 1 \in 1..Len(queue) /\ queue'[i] = queue[i + 1]
           Added(i) == \E k \in 1..Len(new) : i = Len(queue) - 1 + k /\ queue'[i] = new[k]
<1>1. \A i \in 1..Len(queue') : Kept(i) \/ Added(i)
  BY QueueAfter DEF BankTypes
<1>2. /\ head \in Entries /\ head.depth \in Nat /\ 1 \in 1..Len(queue) /\ Len(queue) \in Nat
      /\ Len(queue') \in Nat
  BY PoppedOff, EmptySeq, QueueAfter DEF BankTypes, Entries
<1>3. \A i \in 1..Len(queue') : Kept(i) =>
        /\ queue'[i].depth \in Nat
        /\ head.depth <= queue'[i].depth /\ queue'[i].depth <= head.depth + 1
  <2> SUFFICES ASSUME NEW i \in 1..Len(queue'), Kept(i)
               PROVE  /\ queue'[i].depth \in Nat
                      /\ head.depth <= queue'[i].depth /\ queue'[i].depth <= head.depth + 1
    OBVIOUS
  <2>1. 1 <= i + 1 OBVIOUS
  <2>2. queue[i + 1] \in Entries BY DEF BankTypes
  <2> QED BY <1>2, <2>1, <2>2 DEF InOrder, Entries
<1>4. \A i, j \in 1..Len(queue') : i <= j /\ Kept(i) /\ Kept(j) =>
        queue'[i].depth <= queue'[j].depth /\ queue'[j].depth <= queue'[i].depth + 1
  <2> SUFFICES ASSUME NEW i \in 1..Len(queue'), NEW j \in 1..Len(queue'), i <= j, Kept(i), Kept(j)
               PROVE  queue'[i].depth <= queue'[j].depth /\ queue'[j].depth <= queue'[i].depth + 1
    OBVIOUS
  <2>1. i + 1 <= j + 1 OBVIOUS
  <2> QED BY <2>1 DEF InOrder
<1>5. CASE Forgets(head) /\ new = <<>>
  <2>1. UNCHANGED <<Nodes, depth>>
    BY <1>5 DEF Forgets, Nodes
  <2>2. \A i \in 1..Len(queue') : Kept(i)
    BY <1>1, <1>5, EmptySeq
  <2>3. \A a \in Nodes : depth[a] <= head.depth /\ depth[a] \in Nat
    BY <1>2 DEF InOrder, BankTypes
  <2> HIDE DEF head, Kept, Added
  <2>4. \A a \in Nodes, i \in 1..Len(queue') : depth[a] <= queue'[i].depth
    BY <1>2, <1>3, <2>2, <2>3
  <2> QED BY <1>4, <2>1, <2>2, <2>4 DEF InOrder
<1>6. CASE Adds(head, rest, new)
  <2>1. /\ depth' = [a \in Nodes \cup {head.at} |->
                       IF a = head.at THEN head.depth ELSE depth[a]]
        /\ \A k \in 1..Len(new) : new[k].depth = head.depth + 1
    BY <1>6 DEF Adds
  <2>2. \A i \in 1..Len(queue') : Added(i) => queue'[i].depth = head.depth + 1
    BY <2>1
  <2>3. \A a \in Nodes : depth[a] <= head.depth /\ depth[a] \in Nat
    BY <1>2 DEF InOrder, BankTypes
  <2>4. \A i, j \in 1..Len(queue') : i <= j /\ Kept(j) => Kept(i) \/ ~Added(i)
    <3> SUFFICES ASSUME NEW i \in 1..Len(queue'), NEW j \in 1..Len(queue'), i <= j, Kept(j), Added(i)
                 PROVE  FALSE
      OBVIOUS
    <3>1. PICK k \in 1..Len(new) : i = Len(queue) - 1 + k OBVIOUS
    <3>2. j + 1 <= Len(queue) OBVIOUS
    <3> QED BY <1>2, <3>1, <3>2
  <2> HIDE DEF head, Kept, Added
  <2>5. \A i, j \in 1..Len(queue') : i <= j =>
          queue'[i].depth <= queue'[j].depth /\ queue'[j].depth <= queue'[i].depth + 1
    <3> SUFFICES ASSUME NEW i \in 1..Len(queue'), NEW j \in 1..Len(queue'), i <= j
                 PROVE  queue'[i].depth <= queue'[j].depth /\ queue'[j].depth <= queue'[i].depth + 1
      OBVIOUS
    <3>1. CASE Kept(i) /\ Kept(j) BY <1>4, <3>1
    <3>2. CASE Kept(i) /\ Added(j)
      <4>1. queue'[j].depth = head.depth + 1 BY <2>2, <3>2
      <4> QED BY <1>2, <1>3, <3>2, <4>1
    <3>3. CASE Added(i) /\ Added(j)
      <4>1. queue'[j].depth = head.depth + 1 /\ queue'[i].depth = head.depth + 1 BY <2>2, <3>3
      <4> QED BY <1>2, <4>1
    <3> QED BY <1>1, <2>4, <3>1, <3>2, <3>3
  <2>6. \A i \in 1..Len(queue') : head.depth <= queue'[i].depth /\ queue'[i].depth \in Nat
    BY <1>1, <1>2, <1>3, <2>2
  <2>7. \A a \in Nodes' : depth'[a] <= head.depth /\ depth'[a] \in Nat
    BY <1>2, <2>1, <2>3 DEF Nodes
  <2>8. \A a \in Nodes', i \in 1..Len(queue') : depth'[a] <= queue'[i].depth
    BY <1>2, <2>6, <2>7
  <2> QED BY <2>5, <2>8 DEF InOrder
<1> QED BY <1>5, <1>6 DEF Turn

\* What is in the bank or queued is still as near as it says.
LEMMA TurnKeepsReached ==
  ASSUME BankTypes, Reached, queue # <<>>, graph' = graph,
         NEW rest \in Seq(Entries), NEW new \in Seq(Entries), Turn(rest, new)
  PROVE  Reached'
<1>1. \A i \in 1..Len(queue') :
        \/ i + 1 \in 1..Len(queue) /\ queue'[i] = queue[i + 1]
        \/ \E k \in 1..Len(new) : queue'[i] = new[k]
  BY QueueAfter DEF BankTypes
<1>2. PICK head : head = queue[1] OBVIOUS
<1>3. head.depth \in Nat /\ 1 \in 1..Len(queue) /\ MaxDepth \in Nat
  BY <1>2, PoppedOff, EmptySeq, BankAssumption DEF BankTypes, Entries
<1>4. head.depth <= MaxDepth /\ head.at \in Reach[head.depth]
  BY <1>2, <1>3 DEF Reached
<1>5. Reach' = Reach BY DEF Reach, Successors
<1>6. CASE Forgets(queue[1]) /\ new = <<>>
  <2>1. UNCHANGED <<Nodes, depth>> BY <1>6 DEF Forgets, Nodes
  <2>2. \A k \in 1..Len(new) : FALSE BY <1>6, EmptySeq
  <2> QED BY <1>1, <1>5, <2>1, <2>2 DEF Reached
<1>7. CASE Adds(queue[1], rest, new)
  <2>1. /\ depth' = [a \in Nodes \cup {head.at} |->
                       IF a = head.at THEN head.depth ELSE depth[a]]
        /\ new # <<>> => head.depth < MaxDepth
        /\ \A k \in 1..Len(new) :
             new[k].depth = head.depth + 1 /\ new[k].at \in Successors({head.at})
    BY <1>2, <1>7 DEF Adds
  <2>2. \A a \in Nodes' : depth'[a] <= MaxDepth /\ a \in Reach[depth'[a]]
    BY <1>4, <2>1 DEF Reached, Nodes
  <2>3. Successors({head.at}) \subseteq Reach[head.depth + 1]
    BY <1>3, <1>4, SuccessorsGrow, ReachSteps DEF BankTypes
  <2>4. ASSUME NEW k \in 1..Len(new)
        PROVE  new[k].depth <= MaxDepth /\ new[k].at \in Reach[new[k].depth]
    <3>1. new # <<>> BY <2>4, EmptySeq
    <3>2. new[k].depth = head.depth + 1 /\ new[k].at \in Reach[head.depth + 1]
      BY <2>1, <2>3
    <3>3. head.depth + 1 <= MaxDepth BY <1>3, <2>1, <3>1
    <3> QED BY <3>2, <3>3
  <2>5. \A i \in 1..Len(queue') :
          queue'[i].depth <= MaxDepth /\ queue'[i].at \in Reach[queue'[i].depth]
    BY <1>1, <2>4 DEF Reached
  <2> QED BY <1>5, <2>2, <2>5 DEF Reached
<1> QED BY <1>6, <1>7 DEF Turn

\* Edges are still followed.
LEMMA TurnKeepsFollowed ==
  ASSUME BankTypes, InOrder, Followed, queue # <<>>, graph' = graph,
         NEW rest \in Seq(Entries), NEW new \in Seq(Entries), Turn(rest, new)
  PROVE  Followed'
<1> DEFINE Queued(s, d) == \E i \in 1..Len(queue') : queue'[i].at = s /\ queue'[i].depth <= d
<1>1. /\ \A i \in 1..Len(queue) : i # 1 => i - 1 \in 1..Len(queue') /\ queue'[i - 1] = queue[i]
      /\ \A k \in 1..Len(new) : \E i \in 1..Len(queue') : queue'[i] = new[k]
  BY QueueAfter DEF BankTypes
<1>2. PICK head : head = queue[1] OBVIOUS
<1>3. head.depth \in Nat /\ 1 \in 1..Len(queue)
  BY <1>2, PoppedOff, EmptySeq DEF BankTypes, Entries
<1>4. \A a \in Nodes : depth[a] <= head.depth /\ depth[a] \in Nat
  BY <1>2, <1>3 DEF InOrder, BankTypes
<1>5. \A S : Successors(S)' = Successors(S) BY DEF Successors
<1>6. SUFFICES ASSUME ~cramped', NEW a \in Nodes', depth'[a] < MaxDepth, NEW s \in Successors({a})
               PROVE  (s \in Nodes' /\ depth'[s] <= depth'[a] + 1) \/ Queued(s, depth'[a] + 1)
  BY <1>5 DEF Followed
<1>7. \A d : \A i \in 1..Len(queue) : i # 1 /\ queue[i].depth <= d => Queued(queue[i].at, d)
  BY <1>1
<1>8. \A d : \A k \in 1..Len(new) : new[k].depth <= d => Queued(new[k].at, d)
  BY <1>1
<1> HIDE DEF Queued
<1>9. CASE Forgets(queue[1]) /\ new = <<>>
  <2>1. UNCHANGED <<Nodes, depth, cramped>> /\ head.at \in Nodes
    BY <1>2, <1>9 DEF Forgets, Nodes
  <2>2. CASE s \in Nodes /\ depth[s] <= depth[a] + 1 BY <2>1, <2>2
  <2>3. ASSUME NEW i \in 1..Len(queue), queue[i].at = s, queue[i].depth <= depth[a] + 1
        PROVE  (s \in Nodes' /\ depth'[s] <= depth'[a] + 1) \/ Queued(s, depth'[a] + 1)
    <3>1. CASE i = 1
      BY <1>2, <1>3, <1>4, <2>1, <2>3, <3>1
    <3>2. CASE i # 1
      BY <1>7, <2>1, <2>3, <3>2
    <3> QED BY <3>1, <3>2
  <2> QED BY <1>6, <2>1, <2>2, <2>3 DEF Followed
<1>10. CASE Adds(queue[1], rest, new)
  <2>1. /\ head.at \notin Nodes /\ ~cramped
        /\ depth' = [b \in Nodes \cup {head.at} |->
                       IF b = head.at THEN head.depth ELSE depth[b]]
        /\ \A k \in 1..Len(new) : new[k].depth = head.depth + 1
        /\ head.depth < MaxDepth =>
             \A t \in Successors({head.at}) \ DOMAIN depth' :
               \E k \in 1..Len(new) : new[k].at = t
    BY <1>2, <1>6, <1>10 DEF Adds
  <2>2. /\ Nodes' = Nodes \cup {head.at} /\ DOMAIN depth' = Nodes'
        /\ depth'[head.at] = head.depth /\ \A b \in Nodes : depth'[b] = depth[b]
    BY <2>1 DEF Nodes
  <2>3. CASE a = head.at
    <3>1. CASE s \in Nodes'
      BY <1>3, <1>4, <2>2, <2>3, <3>1
    <3>2. CASE s \notin Nodes'
      <4>1. PICK k \in 1..Len(new) : new[k].at = s
        BY <1>6, <2>1, <2>2, <2>3, <3>2
      <4>2. new[k].depth <= head.depth + 1 BY <1>3, <2>1
      <4> QED BY <1>8, <2>2, <2>3, <4>1, <4>2
    <3> QED BY <3>1, <3>2
  <2>4. CASE a # head.at
    <3>1. a \in Nodes /\ depth[a] < MaxDepth /\ depth'[a] = depth[a] BY <1>6, <2>2, <2>4
    <3>2. CASE s \in Nodes /\ depth[s] <= depth[a] + 1 BY <2>2, <3>1, <3>2
    <3>3. ASSUME NEW i \in 1..Len(queue), queue[i].at = s, queue[i].depth <= depth[a] + 1
          PROVE  (s \in Nodes' /\ depth'[s] <= depth'[a] + 1) \/ Queued(s, depth'[a] + 1)
      <4>1. CASE i = 1 BY <1>2, <2>2, <3>1, <3>3, <4>1
      <4>2. CASE i # 1 BY <1>7, <3>1, <3>3, <4>2
      <4> QED BY <4>1, <4>2
    <3> QED BY <1>6, <2>1, <3>1, <3>2, <3>3 DEF Followed
  <2> QED BY <2>3, <2>4
<1> QED BY <1>9, <1>10 DEF Turn

\* A turn keeps the invariant of the bank.
LEMMA PopKeepsBank == BankInv /\ Pop => BankInv'
<1> SUFFICES ASSUME BankInv, Pop PROVE BankInv'
  OBVIOUS
<1>1. queue # <<>> /\ graph' = graph
  BY PopEffect DEF BankInv
<1>2. PICK rest, new \in Seq(Entries) : Turn(rest, new)
  BY PopEffect DEF BankInv
<1>3. BankTypes' /\ HasRoom' BY <1>1, <1>2, TurnKeepsTypes DEF BankInv
<1>4. Rooted' BY <1>1, <1>2, TurnKeepsRooted DEF BankInv
<1>5. InOrder' BY <1>1, <1>2, TurnKeepsInOrder DEF BankInv
<1>6. Reached' BY <1>1, <1>2, TurnKeepsReached DEF BankInv
<1>7. Followed' BY <1>1, <1>2, TurnKeepsFollowed DEF BankInv
<1> QED BY <1>3, <1>4, <1>5, <1>6, <1>7 DEF BankInv

\* The bank under construction fits its queue (build_transition_bank).
LEMMA BankInvariant == Spec => []BankInv
<1>1. Init => BankInv
  <2> SUFFICES ASSUME Init PROVE BankInv
    OBVIOUS
  <2>1. /\ graph \in Graphs /\ depth = <<>> /\ cramped = FALSE
        /\ queue = <<[at |-> Root, depth |-> 0]>>
    BY DEF Init, BankInit
  <2>2. Root \in Addresses /\ MaxDepth \in Nat /\ MaxNodes \in Nat \ {0}
    BY <2>1, BankAssumption DEF Addresses
  <2>3. Nodes = {} /\ IsFiniteSet({}) /\ Cardinality({}) = 0
    BY <2>1, FS_EmptySet DEF Nodes
  <2>4. queue \in Seq(Entries) /\ Len(queue) = 1 /\ queue[1] = [at |-> Root, depth |-> 0]
    BY <2>1, <2>2 DEF Entries
  <2>5. BankTypes
    <3>1. depth \in [{} -> Nat]
      <4>1. <<>> \in Seq(Nat) /\ Len(<<>>) = 0 BY EmptySeq
      <4>2. <<>> \in [1..0 -> Nat] /\ 1..0 = {} BY <4>1
      <4> QED BY <2>1, <4>2
    <3>2. Nodes \subseteq Addresses /\ IsFiniteSet(Nodes) /\ depth \in [Nodes -> Nat]
      BY <2>3, <3>1
    <3> QED BY <2>1, <2>4, <3>2 DEF BankTypes
  <2>6. HasRoom BY <2>2, <2>3, <2>4 DEF HasRoom
  <2>7. Rooted BY <2>1, <2>3, <2>4 DEF Rooted
  <2>8. InOrder BY <2>3, <2>4 DEF InOrder
  <2>9. Reached BY <2>1, <2>2, <2>3, <2>4, ReachSteps DEF Reached
  <2>10. Followed BY <2>3 DEF Followed
  <2> QED BY <2>5, <2>6, <2>7, <2>8, <2>9, <2>10 DEF BankInv
<1>2. BankInv /\ [Next]_vars => BankInv'
  <2>1. BankInv /\ UNCHANGED bankVars => BankInv'
    <3> SUFFICES ASSUME BankInv, UNCHANGED bankVars PROVE BankInv'
      OBVIOUS
    <3>1. /\ graph' = graph /\ depth' = depth /\ queue' = queue /\ cramped' = cramped
          /\ Nodes' = Nodes
      BY DEF bankVars, Nodes
    <3>2. BankTypes' /\ HasRoom' BY <3>1 DEF BankInv, BankTypes, HasRoom
    <3>3. Rooted' BY <3>1 DEF BankInv, Rooted, Behind, Successors
    <3>4. InOrder' BY <3>1 DEF BankInv, InOrder
    <3>5. Reach' = Reach BY <3>1 DEF Reach, Successors
    <3>6. Reached' BY <3>1, <3>5 DEF BankInv, Reached
    <3>7. Followed' BY <3>1 DEF BankInv, Followed, Successors
    <3> QED BY <3>2, <3>3, <3>4, <3>6, <3>7 DEF BankInv
  <2>2. BuildBank => Pop BY DEF BuildBank
  <2>3. [Next]_vars => BuildBank \/ UNCHANGED bankVars
    BY DEF Next, vars, StartEpisode, FreeStep, ShieldedStep, ShieldRaises,
           Finalize, WriteBundle, Stopped
  <2> QED BY <2>1, <2>2, <2>3, PopKeepsBank
<1> QED BY <1>1, <1>2, PTL DEF Spec

\* A bank from which no edge was left out has all that is in reach, at no
\* more than its distance.
LEMMA BankIsComplete ==
  ASSUME BankInv, queue = <<>>, ~cramped
  PROVE  \A d \in Nat : d <= MaxDepth => \A a \in Reach[d] : a \in Nodes /\ depth[a] <= d
<1> DEFINE Wrong == {d \in Nat : d <= MaxDepth /\ ~\A a \in Reach[d] : a \in Nodes /\ depth[a] <= d}
<1> SUFFICES ASSUME Wrong # {} PROVE FALSE
  OBVIOUS
<1>1. PICK d \in Wrong : \A e \in Wrong : d <= e BY LeastOf
<1>2. d \in Nat /\ d <= MaxDepth BY <1>1
<1>3. PICK a \in Reach[d] : ~(a \in Nodes /\ depth[a] <= d) BY <1>1
<1>4. /\ Reach[0] = {Root}
      /\ \A e \in Nat : Reach[e + 1] = Reach[e] \cup Successors(Reach[e])
  BY ReachSteps DEF BankInv, BankTypes
<1>5. Root \in Nodes /\ depth[Root] = 0 BY EmptySeq DEF BankInv, Rooted
<1>6. d # 0 BY <1>2, <1>3, <1>4, <1>5
<1>7. MaxDepth \in Nat BY BankAssumption
<1>8. PICK e \in Nat : d = e + 1 /\ ~(d <= e) /\ e < MaxDepth
  <2>1. d - 1 \in Nat /\ d = (d - 1) + 1 /\ ~(d <= d - 1) /\ d - 1 < MaxDepth
    BY <1>2, <1>6, <1>7
  <2> QED BY <2>1
<1>9. \A b \in Reach[e] : b \in Nodes /\ depth[b] <= e
  BY <1>1, <1>7, <1>8
<1>10. \A b \in Nodes : depth[b] \in Nat BY DEF BankInv, BankTypes
<1>11. CASE a \in Reach[e] BY <1>3, <1>8, <1>9, <1>10, <1>11
<1>12. CASE a \in Successors(Reach[e])
  <2>1. PICK b \in Reach[e] : a \in Successors({b}) BY <1>12 DEF Successors
  <2>2. b \in Nodes /\ depth[b] <= e /\ depth[b] < MaxDepth BY <1>7, <1>8, <1>9, <1>10, <2>1
  <2>3. \A i \in 1..Len(queue) : FALSE BY EmptySeq
  <2>4. a \in Nodes /\ depth[a] <= depth[b] + 1
    BY <2>1, <2>2, <2>3 DEF BankInv, Followed
  <2> QED BY <1>3, <1>8, <1>10, <2>2, <2>4
<1> QED BY <1>3, <1>4, <1>8, <1>11, <1>12

\* Whatever was left out for want of room or seen twice, a built bank has no
\* more nodes than it may, each one step behind another; when no edge was left
\* out it holds all that is in reach, each at its distance from the root.
THEOREM BanksAreSearchTrees == Spec => []BankIsSearchTree
<1>1. BankInv => BankIsSearchTree
  <2> SUFFICES ASSUME BankInv, ~Building
               PROVE  /\ Root \in Nodes /\ depth[Root] = 0
                      /\ Cardinality(Nodes) <= MaxNodes
                      /\ \A a \in Nodes \ {Root} :
                           \E b \in Nodes : depth[a] = depth[b] + 1 /\ a \in Successors({b})
                      /\ ~cramped =>
                           /\ Nodes = Reach[MaxDepth]
                           /\ \A a \in Nodes, d \in 0..MaxDepth : a \in Reach[d] <=> depth[a] <= d
    BY DEF BankIsSearchTree
  <2>1. /\ Cardinality(Nodes) \in Nat /\ MaxNodes \in Nat /\ Len(queue) \in Nat
        /\ Cardinality(Nodes) + Len(queue) <= MaxNodes
    BY FS_CardinalityType, BankAssumption DEF BankInv, BankTypes, HasRoom
  <2>2. queue = <<>>
    <3>1. CASE ~(Cardinality(Nodes) < MaxNodes)
      <4>1. Len(queue) = 0 BY <2>1, <3>1
      <4> QED BY <4>1, EmptySeq DEF BankInv, BankTypes
    <3> QED BY <3>1 DEF Building
  <2>3. Root \in Nodes /\ depth[Root] = 0 BY <2>2, EmptySeq DEF BankInv, Rooted
  <2>4. \A a \in Nodes \ {Root} : Behind(a, depth[a]) BY DEF BankInv, Rooted
  <2>5. MaxDepth \in Nat /\ MaxDepth <= MaxDepth BY BankAssumption
  <2>6. \A a \in Nodes : depth[a] \in Nat /\ depth[a] <= MaxDepth /\ a \in Reach[depth[a]]
    BY DEF BankInv, BankTypes, Reached
  <2>7. ASSUME ~cramped PROVE Nodes = Reach[MaxDepth]
    <3>1. Reach[MaxDepth] \subseteq Nodes BY <2>2, <2>5, <2>7, BankIsComplete
    <3>2. \A a \in Nodes : Reach[depth[a]] \subseteq Reach[MaxDepth]
      BY <2>5, <2>6, ReachGrows DEF BankInv, BankTypes
    <3> QED BY <2>6, <3>1, <3>2
  <2>8. ASSUME ~cramped, NEW a \in Nodes, NEW d \in 0..MaxDepth
        PROVE  a \in Reach[d] <=> depth[a] <= d
    <3>1. d \in Nat /\ d <= MaxDepth BY <2>5
    <3>2. a \in Reach[d] => depth[a] <= d BY <2>2, <2>8, <3>1, BankIsComplete
    <3>3. depth[a] <= d => Reach[depth[a]] \subseteq Reach[d]
      BY <2>6, <3>1, ReachGrows DEF BankInv, BankTypes
    <3> QED BY <2>6, <3>2, <3>3
  <2>9. Cardinality(Nodes) <= MaxNodes BY <2>1
  <2> QED BY <2>3, <2>4, <2>7, <2>8, <2>9 DEF Behind
<1> QED BY <1>1, BankInvariant, PTL
-----------------------------------------------------------------------------
(***************************************************************************)
(* The counts.                                                             *)
(***************************************************************************)
Reasons == {None, "out_of_bank", "no_candidates", "max_intersections"}
EpisodeRecords == [arm : Range(Arms), rule : Rules, steps : Seq(Records),
                   reason : Reasons, violations : Nat, matched : Nat, fallback : Nat]

\* The environment punishes the violations, and only where there was an
\* opportunity.
PunishedIn(r, s) == /\ s.reward < 0 <=> Violates(r, s)
                    /\ Violates(r, s) => s.prev # None
Punished(r, ss) == \A i \in DOMAIN ss : PunishedIn(r, ss[i])

\* An episode has the counts of its steps.
Counted(e) == /\ Punished(e.rule, e.steps)
              /\ e.violations = Violations(e.rule, e.steps)
              /\ e.matched = MatchedSteps(e.steps)
              /\ e.fallback = FallbackSteps(e.steps)

\* The inductive invariant: there is one episode for each arm that was run.
CountInv == /\ rule \in Rules /\ reason \in Reasons
            /\ Punished(rule, steps)
            /\ episodes \in Seq(EpisodeRecords) /\ Len(episodes) <= Len(Arms)
            /\ phase = "build" => episodes = <<>>
            /\ phase = "step" => Len(episodes) < Len(Arms)
            /\ \A i \in DOMAIN episodes : Counted(episodes[i]) /\ episodes[i].arm = Arms[i]
            /\ phase # "invalid"

\* calculate_reward and _count_rule_violations tell the same steps apart.
LEMMA RewardPunishes ==
  ASSUME rule \in Rules, NEW act, NEW s,
         s.prev = prev, s.act = act, s.reward = Reward(act)
  PROVE  PunishedIn(rule, s)
<1>1. None \notin {"turn_left", "turn_right"} /\ rule \in {"right", "left", "alternate"}
  BY ReplayAssumption
<1>2. CASE rule = "right"
  BY <1>1, <1>2 DEF PunishedIn, Violates, Reward
<1>3. CASE rule = "left"
  BY <1>1, <1>3 DEF PunishedIn, Violates, Reward
<1>4. CASE rule = "alternate"
  BY <1>1, <1>4 DEF PunishedIn, Violates, Reward
<1> QED BY <1>1, <1>2, <1>3, <1>4

\* Steps are counted in whole numbers.
LEMMA CountIsNat ==
  ASSUME NEW ss \in Seq(Records), NEW r
  PROVE  /\ Violations(r, ss) \in Nat /\ MatchedSteps(ss) \in Nat /\ FallbackSteps(ss) \in Nat
         /\ Cardinality(DOMAIN ss) = Len(ss)
<1>1. Len(ss) \in Nat /\ DOMAIN ss = 1..Len(ss) OBVIOUS
<1>2. IsFiniteSet(DOMAIN ss) /\ Cardinality(DOMAIN ss) = Len(ss)
  <2>1. PICK n \in Nat : n = Len(ss) BY <1>1
  <2>2. IsFiniteSet(1..n) /\ Cardinality(1..n) = n
    <3>1. 1 \in Int /\ n \in Int /\ ~(1 > n) => n - 1 + 1 = n OBVIOUS
    <3>2. 1 > n => n = 0 OBVIOUS
    <3> QED BY <3>1, <3>2, FS_Interval
  <2> QED BY <1>1, <2>1, <2>2
<1>3. \A S \in SUBSET DOMAIN ss : Cardinality(S) \in Nat
  BY <1>2, FS_Subset, FS_CardinalityType
<1> QED BY <1>2, <1>3 DEF Violations, MatchedSteps, FallbackSteps

\* Counted with or without asking for the opportunity, or by the rewards,
\* there are as many violations.
LEMMA RecountedAlike ==
  ASSUME NEW e, Punished(e.rule, e.steps)
  PROVE  /\ Recounted(e) = Violations(e.rule, e.steps)
         /\ Cardinality({k \in DOMAIN e.steps : e.steps[k].reward < 0}) = Violations(e.rule, e.steps)
<1>1. {i \in DOMAIN e.steps : e.steps[i].prev # None /\ Violates(e.rule, e.steps[i])}
        = {i \in DOMAIN e.steps : Violates(e.rule, e.steps[i])}
  BY DEF Punished, PunishedIn
<1>2. {k \in DOMAIN e.steps : e.steps[k].reward < 0}
        = {i \in DOMAIN e.steps : Violates(e.rule, e.steps[i])}
  BY DEF Punished, PunishedIn
<1> QED BY <1>1, <1>2 DEF Recounted, Violations

\* The episodes of an arm.
LEMMA EpisodesOfArm ==
  ASSUME CountInv, NEW label
  PROVE  \A i \in DOMAIN OfArm(label) :
           /\ i \in DOMAIN episodes /\ OfArm(label)[i] = episodes[i]
           /\ Counted(OfArm(label)[i]) /\ OfArm(label)[i].steps \in Seq(Records)
<1>1. \A i \in DOMAIN OfArm(label) : i \in DOMAIN episodes /\ OfArm(label)[i] = episodes[i]
  BY DEF OfArm, Restrict
<1>2. \A i \in DOMAIN episodes : Counted(episodes[i]) BY DEF CountInv
<1>3. \A i \in DOMAIN episodes : episodes[i] \in EpisodeRecords BY DEF CountInv
<1>4. \A e \in EpisodeRecords : e.steps \in Seq(Records) BY DEF EpisodeRecords
<1> QED BY <1>4, <1>1, <1>2, <1>3

\* Whichever way they are summed, the totals of an arm are the same.
LEMMA SumsAgree ==
  ASSUME CountInv, NEW label, NEW eps, eps = OfArm(label)
  PROVE  /\ [i \in DOMAIN eps |-> Recounted(eps[i])] = [i \in DOMAIN eps |-> eps[i].violations]
         /\ [i \in DOMAIN eps |-> MatchedSteps(eps[i].steps)] = [i \in DOMAIN eps |-> eps[i].matched]
         /\ [i \in DOMAIN eps |-> FallbackSteps(eps[i].steps)] = [i \in DOMAIN eps |-> eps[i].fallback]
         /\ [i \in DOMAIN eps |-> Cardinality(DOMAIN eps[i].steps)]
              = [i \in DOMAIN eps |-> Len(eps[i].steps)]
<1>1. \A i \in DOMAIN eps : Counted(eps[i]) /\ eps[i].steps \in Seq(Records)
  BY EpisodesOfArm
<1>2. \A i \in DOMAIN eps : Recounted(eps[i]) = eps[i].violations
  BY <1>1, RecountedAlike DEF Counted
<1>3. \A i \in DOMAIN eps : Cardinality(DOMAIN eps[i].steps) = Len(eps[i].steps)
  BY <1>1, CountIsNat
<1>4. \A i \in DOMAIN eps : /\ MatchedSteps(eps[i].steps) = eps[i].matched
                            /\ FallbackSteps(eps[i].steps) = eps[i].fallback
  BY <1>1 DEF Counted
<1> QED BY <1>2, <1>3, <1>4

\* A rate is the same as itself.
LEMMA SameRateOfOne == \A p : SameRate(p, p)
  BY DEF SameRate

\* What validate_run_bundle asks for is so.
LEMMA BundleIsValid ==
  ASSUME CountInv
  PROVE  /\ \A e \in Range(episodes) : ValidEpisode(e) /\ ValidRow(SummaryRow(e.arm))
         /\ \A label : SummaryRow(label).label = label
         /\ IsInjective([i \in DOMAIN episodes |-> episodes[i].arm])
<1>1. ASSUME NEW e \in Range(episodes) PROVE ValidEpisode(e)
  <2>1. Counted(e) BY <1>1 DEF Range, CountInv
  <2> QED BY <2>1, RecountedAlike DEF Counted, ValidEpisode
<1>2. ASSUME NEW label PROVE ValidRow(SummaryRow(label)) /\ SummaryRow(label).label = label
  <2>1. PICK eps : eps = OfArm(label) OBVIOUS
  <2>2. SummaryRow(label) =
          [label |-> label, episodes |-> Cardinality(DOMAIN eps), steps |-> AllSteps(eps),
           violated |-> <<SumFunction([i \in DOMAIN eps |-> eps[i].violations]),
                          AllOpportunities(eps)>>,
           matched |-> SumFunction([i \in DOMAIN eps |-> eps[i].matched]),
           fallback |-> SumFunction([i \in DOMAIN eps |-> eps[i].fallback])]
    BY <2>1, SumsAgree DEF SummaryRow
  <2>3. PICK row : row = SummaryRow(label) OBVIOUS
  <2>4. row.label = label BY <2>2, <2>3
  <2>5. row.violated = <<SumFunction([i \in DOMAIN eps |-> eps[i].violations]),
                         AllOpportunities(eps)>>
    BY <2>2, <2>3
  <2>6. ValidRow(row)
    BY <2>1, <2>2, <2>3, <2>4, <2>5, SameRateOfOne DEF ValidRow
  <2> QED BY <2>3, <2>4, <2>6
<1>3. IsInjective([i \in DOMAIN episodes |-> episodes[i].arm])
  <2>1. \A i \in DOMAIN episodes : episodes[i].arm = Arms[i] /\ i \in DOMAIN Arms
    <3>1. /\ Len(episodes) \in Nat /\ DOMAIN episodes = 1..Len(episodes)
          /\ Len(Arms) \in Nat /\ DOMAIN Arms = 1..Len(Arms) /\ Len(episodes) <= Len(Arms)
      BY ReplayAssumption DEF CountInv
    <3>2. 1..Len(episodes) \subseteq 1..Len(Arms) BY <3>1
    <3> QED BY <3>1, <3>2 DEF CountInv
  <2>2. \A a, b \in DOMAIN Arms : Arms[a] = Arms[b] => a = b
    BY ReplayAssumption DEF IsInjective
  <2> QED BY <2>1, <2>2 DEF IsInjective
<1> QED BY <1>1, <1>2, <1>3

\* A step of the environment is rewarded as it is counted.
LEMMA EnvStepKeepsCounts ==
  ASSUME ReplayInv, CountInv, NEW act, NEW shielded, phase = "step", EnvStep(act, shielded),
         UNCHANGED <<bankVars, rule, passthrough, phase, episodes>>, steps' \in Seq(Records)
  PROVE  CountInv'
<1>1. PICK s : /\ s.prev = prev /\ s.act = act /\ s.reward = Reward(act)
               /\ steps' = Append(steps, s)
  <2> DEFINE record == [prev |-> prev, act |-> act, reward |-> Reward(act),
                        matched |-> Matching(act) # {}, fallback |-> Matching(act) = {},
                        shielded |-> shielded]
  <2>1. steps' = Append(steps, record) BY DEF EnvStep
  <2>2. record.prev = prev /\ record.act = act /\ record.reward = Reward(act) OBVIOUS
  <2> HIDE DEF record
  <2> QED BY <2>1, <2>2
<1>2. PunishedIn(rule, s) BY <1>1, RewardPunishes DEF CountInv
<1>3. Punished(rule, steps')
  <2>1. steps \in Seq(Records) BY DEF ReplayInv, StepTypes
  <2>2. PICK n \in Nat : n = Len(steps) /\ DOMAIN steps = 1..n BY <2>1
  <2>3. /\ DOMAIN steps' = 1..n + 1 /\ steps'[n + 1] = s
        /\ \A i \in 1..n : steps'[i] = steps[i]
    BY <1>1, <2>1, <2>2
  <2>4. \A i \in 1..n + 1 : i \in 1..n \/ i = n + 1 BY <2>2
  <2> QED BY <1>2, <2>2, <2>3, <2>4 DEF CountInv, Punished
<1>4. reason' \in Reasons
  BY DEF EnvStep, Reason, Reasons
<1> QED BY <1>3, <1>4 DEF CountInv, Punished

\* An episode ends with the counts of its steps.
LEMMA FinalizeKeepsCounts == ASSUME ReplayInv, CountInv, Finalize PROVE CountInv'
<1>1. PICK e : /\ episodes' = Append(episodes, e)
               /\ e = [arm |-> Arms[Arm], rule |-> rule, steps |-> steps, reason |-> reason,
                       violations |-> Violations(rule, steps),
                       matched |-> MatchedSteps(steps), fallback |-> FallbackSteps(steps)]
  BY DEF Finalize
<1>2. steps \in Seq(Records) /\ episodes \in Seq(EpisodeRecords)
  BY DEF ReplayInv, StepTypes, CountInv
<1>3. PICK n \in Nat : n = Len(episodes) /\ DOMAIN episodes = 1..n /\ Arm = n + 1
  BY <1>2 DEF Arm
<1>4. n + 1 \in DOMAIN Arms /\ n + 1 <= Len(Arms)
  <2>1. n < Len(Arms) /\ Len(Arms) \in Nat /\ DOMAIN Arms = 1..Len(Arms)
    BY <1>3, ReplayAssumption DEF CountInv, Finalize
  <2> QED BY <2>1
<1>5. e \in EpisodeRecords
  <2>1. Arms[Arm] \in Range(Arms) BY <1>3, <1>4 DEF Range
  <2>2. rule \in Rules /\ reason \in Reasons BY DEF CountInv
  <2> QED BY <1>1, <1>2, <2>1, <2>2, CountIsNat DEF EpisodeRecords
<1>6. Counted(e) /\ e.arm = Arms[n + 1]
  BY <1>1, <1>3 DEF Counted, CountInv
<1>7. /\ episodes' \in Seq(EpisodeRecords) /\ Len(episodes') = n + 1
      /\ DOMAIN episodes' = 1..n + 1 /\ episodes'[n + 1] = e
      /\ \A i \in 1..n : episodes'[i] = episodes[i]
  BY <1>1, <1>2, <1>3, <1>5
<1>8. \A i \in DOMAIN episodes' : Counted(episodes'[i]) /\ episodes'[i].arm = Arms[i]
  <2>1. \A i \in 1..n + 1 : i \in 1..n \/ i = n + 1 BY <1>3
  <2> QED BY <1>3, <1>6, <1>7, <2>1 DEF CountInv
<1>9. UNCHANGED <<rule, steps, reason>> /\ phase' = "between"
  BY DEF Finalize, episodeVars
<1> QED BY <1>4, <1>7, <1>8, <1>9 DEF CountInv, Counted

\* Every episode's counts are those of its steps.
LEMMA CountInvariant == Spec => []CountInv
<1>1. Init => CountInv
  <2> SUFFICES ASSUME Init PROVE CountInv
    OBVIOUS
  <2>1. rule \in Rules /\ phase = "build" /\ steps = <<>> /\ reason = None /\ episodes = <<>>
    BY DEF Init
  <2>2. Len(<<>>) = 0 /\ DOMAIN <<>> = {} /\ <<>> \in Seq(EpisodeRecords) OBVIOUS
  <2>3. 0 <= Len(Arms) BY ReplayAssumption
  <2> QED BY <2>1, <2>2, <2>3 DEF CountInv, Punished, Reasons
<1>2. ReplayInv /\ ReplayInv' /\ CountInv /\ [Next]_vars => CountInv'
  <2> SUFFICES ASSUME ReplayInv, ReplayInv', CountInv, [Next]_vars PROVE CountInv'
    OBVIOUS
  <2>1. steps' \in Seq(Records) BY DEF ReplayInv, StepTypes
  <2>2. CASE BuildBank
    BY <2>2 DEF BuildBank, episodeVars, CountInv, Counted
  <2>3. CASE StartEpisode
    <3>1. /\ UNCHANGED <<rule, episodes>> /\ steps' = <<>> /\ reason' = None /\ phase' = "step"
          /\ phase = "build" \/ (phase = "between" /\ Arm <= Len(Arms))
      BY <2>3 DEF StartEpisode
    <3>2. Len(episodes) < Len(Arms)
      <4>1. CASE phase = "build"
        <5>1. Len(episodes) = 0 BY <4>1, EmptySeq DEF CountInv
        <5> QED BY <5>1, ReplayAssumption
      <4>2. CASE Arm <= Len(Arms)
        <5>1. Len(episodes) \in Nat /\ Len(Arms) \in Nat BY ReplayAssumption DEF CountInv
        <5> QED BY <4>2, <5>1 DEF Arm
      <4> QED BY <3>1, <4>1, <4>2
    <3>3. DOMAIN <<>> = {} OBVIOUS
    <3> QED BY <3>1, <3>2, <3>3 DEF CountInv, Counted, Punished, Reasons
  <2>4. CASE FreeStep
    <3>1. PICK act \in Actions : EnvStep(act, FALSE) BY <2>4 DEF FreeStep
    <3> QED BY <2>1, <2>4, <3>1, EnvStepKeepsCounts DEF FreeStep, Going
  <2>5. CASE ShieldedStep
    <3>1. PICK act \in ShieldActions : EnvStep(act, TRUE) BY <2>5 DEF ShieldedStep
    <3> QED BY <2>1, <2>5, <3>1, EnvStepKeepsCounts DEF ShieldedStep, Going
  <2>6. CASE ShieldRaises
    BY <2>6 DEF ShieldRaises, episodeVars, CountInv, Counted
  <2>7. CASE Finalize
    BY <2>7, FinalizeKeepsCounts
  <2>8. CASE WriteBundle
    <3>1. UNCHANGED <<rule, steps, reason, episodes>> BY <2>8 DEF WriteBundle, episodeVars
    <3>2. phase' = "valid"
      BY <2>8, BundleIsValid DEF WriteBundle
    <3> QED BY <3>1, <3>2 DEF CountInv, Counted
  <2>9. CASE UNCHANGED vars
    BY <2>9 DEF vars, episodeVars, CountInv, Counted
  <2> QED BY <2>2, <2>3, <2>4, <2>5, <2>6, <2>7, <2>8, <2>9 DEF Next, Stopped
<1> QED BY <1>1, <1>2, ReplayInvariant, PTL DEF Spec

\* The finalized episodes whose shields fell back ended there.
FellBackAtTheEnd ==
  ~passthrough =>
    \A i \in DOMAIN episodes : FallsBackAtTheEnd(episodes[i].steps, episodes[i].reason)

\* Where shields project, an action of the shield that no edge matched ended
\* its episode at a dead end, and the record of the episode says so.
THEOREM ShieldIsFollowed == Spec => []ShieldFallsBackAtDeadEnds
<1>1. Init => FellBackAtTheEnd
  BY DEF Init, FellBackAtTheEnd
<1>2. ReplayInv /\ CountInv /\ FellBackAtTheEnd /\ [Next]_vars => FellBackAtTheEnd'
  <2> SUFFICES ASSUME ReplayInv, CountInv, FellBackAtTheEnd, [Next]_vars
               PROVE  FellBackAtTheEnd'
    OBVIOUS
  <2>1. CASE UNCHANGED <<passthrough, episodes>>
    BY <2>1 DEF FellBackAtTheEnd
  <2>2. CASE Finalize
    <3>1. PICK e : /\ episodes' = Append(episodes, e)
                   /\ e.steps = steps /\ e.reason = reason
      <4> DEFINE e == [arm |-> Arms[Arm], rule |-> rule, steps |-> steps, reason |-> reason,
                       violations |-> Violations(rule, steps),
                       matched |-> MatchedSteps(steps), fallback |-> FallbackSteps(steps)]
      <4>1. episodes' = Append(episodes, e) BY <2>2 DEF Finalize
      <4>2. e.steps = steps /\ e.reason = reason OBVIOUS
      <4> QED BY <4>1, <4>2
    <3>2. PICK n \in Nat : n = Len(episodes) /\ DOMAIN episodes = 1..n
      BY DEF CountInv
    <3>3. /\ DOMAIN episodes' = 1..n + 1 /\ episodes'[n + 1] = e
          /\ \A i \in 1..n : episodes'[i] = episodes[i]
      BY <3>1, <3>2 DEF CountInv
    <3>4. passthrough' = passthrough
      BY <2>2 DEF Finalize
    <3>5. \A i \in 1..n + 1 : i \in 1..n \/ i = n + 1
      BY <3>2
    <3> QED
      BY <3>1, <3>2, <3>3, <3>4, <3>5 DEF FellBackAtTheEnd, ReplayInv
  <2>3. Next => UNCHANGED <<passthrough, episodes>> \/ Finalize
    BY DEF Next, BuildBank, StartEpisode, FreeStep, ShieldedStep, ShieldRaises,
           WriteBundle, Stopped, vars
  <2> QED
    BY <2>1, <2>2, <2>3 DEF vars
<1>3. ReplayInv /\ FellBackAtTheEnd => ShieldFallsBackAtDeadEnds
  BY DEF ReplayInv, FellBackAtTheEnd, ShieldFallsBackAtDeadEnds
<1> QED
  BY <1>1, <1>2, <1>3, ReplayInvariant, CountInvariant, PTL DEF Spec

\* A bundle that was run through is valid, the violations an episode counts are
\* the steps the environment punished, and the three summaries of an arm show
\* the same rates.
THEOREM CountsAgree == Spec => []RecountsAgree
<1>1. CountInv => RecountsAgree
  <2> SUFFICES ASSUME CountInv, NEW i \in DOMAIN episodes
               PROVE  /\ episodes[i].violations =
                           Cardinality({k \in DOMAIN episodes[i].steps : episodes[i].steps[k].reward < 0})
                      /\ \A other \in {Summarize(OfArm(episodes[i].arm)), SummaryPayload(OfArm(episodes[i].arm))} :
                           /\ SameRate(other.violated, SummaryRow(episodes[i].arm).violated)
                           /\ other.matched = SummaryRow(episodes[i].arm).matched
                           /\ other.fallback = SummaryRow(episodes[i].arm).fallback
                           /\ other.steps = SummaryRow(episodes[i].arm).steps
    BY Zenon DEF RecountsAgree, CountInv
  <2>1. episodes[i].violations =
          Cardinality({k \in DOMAIN episodes[i].steps : episodes[i].steps[k].reward < 0})
    <3>1. PICK e : e = episodes[i] OBVIOUS
    <3>2. Counted(e) BY <3>1 DEF CountInv
    <3> QED BY <3>1, <3>2, RecountedAlike DEF Counted
  <2>2. PICK label, eps : label = episodes[i].arm /\ eps = OfArm(label)
    OBVIOUS
  <2>3. PICK rate, matched, fallback, all :
          /\ rate = <<SumFunction([k \in DOMAIN eps |-> eps[k].violations]), AllOpportunities(eps)>>
          /\ matched = SumFunction([k \in DOMAIN eps |-> eps[k].matched])
          /\ fallback = SumFunction([k \in DOMAIN eps |-> eps[k].fallback])
          /\ all = SumFunction([k \in DOMAIN eps |-> Len(eps[k].steps)])
    OBVIOUS
  <2>4. /\ rate = <<SumFunction([k \in DOMAIN eps |-> Recounted(eps[k])]), AllOpportunities(eps)>>
        /\ matched = SumFunction([k \in DOMAIN eps |-> MatchedSteps(eps[k].steps)])
        /\ fallback = SumFunction([k \in DOMAIN eps |-> FallbackSteps(eps[k].steps)])
        /\ all = SumFunction([k \in DOMAIN eps |-> Cardinality(DOMAIN eps[k].steps)])
    <3>1. /\ [k \in DOMAIN eps |-> Recounted(eps[k])] = [k \in DOMAIN eps |-> eps[k].violations]
          /\ [k \in DOMAIN eps |-> MatchedSteps(eps[k].steps)] = [k \in DOMAIN eps |-> eps[k].matched]
          /\ [k \in DOMAIN eps |-> FallbackSteps(eps[k].steps)] = [k \in DOMAIN eps |-> eps[k].fallback]
          /\ [k \in DOMAIN eps |-> Cardinality(DOMAIN eps[k].steps)]
               = [k \in DOMAIN eps |-> Len(eps[k].steps)]
      BY <2>2, SumsAgree
    <3> QED BY Zenon, <2>3, <3>1
  <2>5. SummaryRow(label) = [label |-> label, episodes |-> Cardinality(DOMAIN eps),
                             steps |-> all, violated |-> rate,
                             matched |-> matched, fallback |-> fallback]
    BY Zenon, <2>2, <2>3, <2>4 DEF SummaryRow, AllSteps
  <2>6. Summarize(eps) = [violated |-> rate, matched |-> matched, fallback |-> fallback, steps |-> all]
    BY Zenon, <2>4 DEF Summarize, RuleViolationRate, MatchedActions, Fallbacks
  <2>7. SummaryPayload(eps) = [violated |-> rate, matched |-> matched, fallback |-> fallback, steps |-> all]
    BY Zenon, <2>3, <2>4 DEF SummaryPayload, MatchedActions, Fallbacks, AllSteps
  <2>8. SameRate(rate, rate) BY SameRateOfOne
  <2>9. \A other \in {Summarize(eps), SummaryPayload(eps)} :
          /\ SameRate(other.violated, SummaryRow(label).violated)
          /\ other.matched = SummaryRow(label).matched
          /\ other.fallback = SummaryRow(label).fallback
          /\ other.steps = SummaryRow(label).steps
    <3>1. PICK row : row = SummaryRow(label) OBVIOUS
    <3>2. row.violated = rate /\ row.matched = matched /\ row.fallback = fallback /\ row.steps = all
      BY <2>5, <3>1
    <3>3. ASSUME NEW other \in {Summarize(eps), SummaryPayload(eps)}
          PROVE  other.violated = rate /\ other.matched = matched /\ other.fallback = fallback /\ other.steps = all
      BY <2>6, <2>7
    <3> QED BY <2>8, <3>1, <3>2, <3>3
  <2> QED BY <2>1, <2>2, <2>9
<1> QED BY <1>1, CountInvariant, PTL
=============================================================================
