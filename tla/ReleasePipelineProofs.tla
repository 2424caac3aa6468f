------------------------- MODULE ReleasePipelineProofs -------------------------
(***************************************************************************)
(* Proofs about ReleasePipeline for every attempt limit, every deadline,   *)
(* every set of configured rungs and every set of acceptable statuses; and *)
(* about BatchProjector, whose rows the pipeline's policy releases, for    *)
(* any row ids, topologies, options and solver objects of one owner.       *)
(***************************************************************************)
EXTENDS ReleasePipeline, BatchProjector, SequenceTheorems, NaturalsInduction,
        WellFoundedInduction, TLAPS

\* The rungs in the order of Kinds.
LEMMA Ranks ==
  /\ KindSet = {"primary", "cold_retry", "fallback", "fail_safe"}
  /\ Rank("primary") = 1 /\ Rank("cold_retry") = 2
  /\ Rank("fallback") = 3 /\ Rank("fail_safe") = 4
<1>1. \A i \in 1..4 : i = 1 \/ i = 2 \/ i = 3 \/ i = 4
  OBVIOUS
<1>2. /\ Kinds[1] = "primary" /\ Kinds[2] = "cold_retry"
      /\ Kinds[3] = "fallback" /\ Kinds[4] = "fail_safe"
  BY DEF Kinds
<1>3. KindSet = {"primary", "cold_retry", "fallback", "fail_safe"}
  BY <1>1, <1>2 DEF KindSet
<1>4. Rank("primary") = 1 /\ Rank("cold_retry") = 2
  BY <1>1, <1>2 DEF Rank
<1>5. Rank("fallback") = 3 /\ Rank("fail_safe") = 4
  BY <1>1, <1>2 DEF Rank
<1> QED
  BY <1>3, <1>4, <1>5

\* The rung below, and that it is the next one.
LEMMA BelowIsNext ==
  /\ Below("primary") = "cold_retry" /\ Below("cold_retry") = "fallback"
  /\ Below("fallback") = "fail_safe" /\ Below("fail_safe") = "raised"
  BY Ranks DEF Below, Kinds

\* The limit is a positive number, whatever max_attempts is.
LEMMA LimitIsPositive == Limit \in Nat \ {0}
  BY PipelineAssumption DEF Limit
-----------------------------------------------------------------------------
\* What an attempt is recorded as is a decision.
LEMMA RecordedIsDecision ==
  ASSUME NEW kind \in KindSet, NEW a
  PROVE  Decision(kind, a) \in Decisions /\ Recorded(kind, a) \in Decisions
  BY DEF Decision, Recorded, Decisions

\* An attempt of any kind keeps the variables in their types.
LEMMA FinishTyped ==
  ASSUME TypeOK, NEW kind \in KindSet, NEW a, Finish(kind, a),
         a.cand \in Candidates, a.status \in Statuses, a.warm \in BOOLEAN
  PROVE  TypeOK'
<1> USE DEF TypeOK
<1>1. history' \in Seq([kind : KindSet, decision : Decisions])
  <2>1. [kind |-> kind, decision |-> Recorded(kind, a)]
          \in [kind : KindSet, decision : Decisions]
    BY RecordedIsDecision
  <2> QED
    BY <2>1 DEF Finish
<1>2. Below(kind) \in KindSet \cup Ended
  BY Ranks, BelowIsNext DEF Ended
<1>3. rung' \in KindSet \cup Ended /\ released' \in [cand : Candidates, status : Statuses]
  BY <1>2 DEF Finish, Ended
<1>4. solving' \in BOOLEAN /\ spent' \in BOOLEAN /\ warmed' \in BOOLEAN
  BY DEF Finish
<1>5. attempts' \in Nat
  BY DEF Finish
<1> QED
  BY <1>1, <1>3, <1>4, <1>5

\* Every step keeps the variables in their types.
LEMMA StepTyped == ASSUME TypeOK, [Next]_vars PROVE TypeOK'
<1>1. CASE Begin
  <2>1. Nothing \in [cand : Candidates, status : Statuses]
    BY DEF Nothing, Candidates, Statuses
  <2>2. spent' \in BOOLEAN
    BY <1>1 DEF Begin
  <2>3. history' \in Seq([kind : KindSet, decision : Decisions])
    BY <1>1 DEF Begin
  <2> QED
    BY <1>1, <2>1, <2>2, <2>3, Ranks DEF Begin, TypeOK
<1>2. CASE Expire
  BY <1>2 DEF Expire, TypeOK
<1>3. ASSUME NEW kind \in KindSet, Try(kind) PROVE TypeOK'
  BY <1>3 DEF Try, TypeOK
<1>4. ASSUME NEW kind \in KindSet, Skip(kind) PROVE TypeOK'
  <2>1. Below(kind) \in KindSet \cup Ended
    BY Ranks, BelowIsNext DEF Ended
  <2> QED
    BY <1>4, <2>1 DEF Skip, TypeOK, Ended
<1>5. ASSUME NEW kind \in KindSet, NEW a \in Attempts, Finish(kind, a) PROVE TypeOK'
  BY <1>5, FinishTyped DEF Attempts
<1>6. CASE FinishFailSafe
  <2>1. PICK cand \in {"violating", "good"} :
          Finish("fail_safe", [cand |-> cand, status |-> "optimal",
                               raised |-> FALSE, warm |-> FALSE])
    BY <1>6 DEF FinishFailSafe
  <2> QED
    BY <2>1, Ranks, FinishTyped DEF Candidates, Statuses
<1>7. CASE NoFailSafe
  <2>1. [kind |-> "fail_safe", decision |-> "rejected_backend_error"]
          \in [kind : KindSet, decision : Decisions]
    BY Ranks DEF Decisions
  <2>2. history' \in Seq([kind : KindSet, decision : Decisions])
    BY <1>7, <2>1 DEF NoFailSafe, TypeOK
  <2> QED
    BY <1>7, <2>2 DEF NoFailSafe, TypeOK, Ended
<1>8. CASE UNCHANGED vars
  BY <1>8 DEF vars, TypeOK
<1> QED
  BY <1>1, <1>2, <1>3, <1>4, <1>5, <1>6, <1>7, <1>8, Ranks
     DEF Next, Progress, FinishSolve

\* The variables always have their types.
THEOREM TypeCorrect == Spec => []TypeOK
<1>1. Init => TypeOK
  <2> SUFFICES ASSUME Init PROVE TypeOK
    OBVIOUS
  <2>1. Nothing \in [cand : Candidates, status : Statuses]
    BY DEF Nothing, Candidates, Statuses
  <2>2. history \in Seq([kind : KindSet, decision : Decisions])
    BY DEF Init
  <2>3. solving \in BOOLEAN /\ spent \in BOOLEAN /\ warmed \in BOOLEAN
    BY DEF Init
  <2> QED
    BY <2>1, <2>2, <2>3 DEF Init, TypeOK, Ended
<1>2. TypeOK /\ [Next]_vars => TypeOK'
  BY StepTyped
<1> QED
  BY <1>1, <1>2, PTL DEF Spec
-----------------------------------------------------------------------------
\* The history of a call in progress: only rungs above this one, none of them
\* accepted.
HistoryIsAbove ==
  rung \in KindSet => \A i \in DOMAIN history :
                        /\ Rank(history[i].kind) < Rank(rung)
                        /\ history[i].decision # Accepted(history[i].kind)

\* While there is time and there are attempts left, no configured rung above
\* this one was left out.
NoneLeftOut ==
  rung \in KindSet /\ ~spent /\ attempts # Limit =>
    \A kind \in KindSet : Applies(kind) /\ Rank(kind) < Rank(rung) => Tried(kind)

\* A rung in progress is configured and has an attempt to spend.
SolvingIsAllowed == solving => rung \in KindSet /\ Applies(rung) /\ attempts < Limit

\* The inductive invariant: the four properties of a finished call follow from
\* what is known of the call in progress.
LadderInv == /\ TypeOK /\ HistoryIsAbove /\ NoneLeftOut /\ SolvingIsAllowed
             /\ LadderInOrder /\ ReleasedIsVerified /\ GaveUpForCause

\* What an accepted attempt is, and that the history tells it from the others.
LEMMA AcceptedIsGood ==
  ASSUME NEW kind \in KindSet, NEW a, a.cand \in Candidates
  PROVE  /\ Decision(kind, a) = Accepted(kind) =>
              /\ a.cand = "good"
              /\ a.status \in Acceptable \ {"error"}
         /\ Recorded(kind, a) = Accepted(kind) <=> Decision(kind, a) = Accepted(kind)
  BY Ranks DEF Decision, Recorded, Accepted, Candidates

\* Appending, index by index.
LEMMA Appended ==
  ASSUME NEW S, NEW s \in Seq(S), NEW e \in S
  PROVE  /\ Len(Append(s, e)) = Len(s) + 1 /\ Append(s, e) # <<>>
         /\ DOMAIN Append(s, e) = DOMAIN s \cup {Len(s) + 1}
         /\ \A i \in DOMAIN s : i \in Nat /\ i < Len(s) + 1 /\ Append(s, e)[i] = s[i]
         /\ Append(s, e)[Len(s) + 1] = e
  OBVIOUS

\* An element of a sequence is in the set it is a sequence over.
LEMMA Element == ASSUME NEW S, NEW s \in Seq(S), NEW i \in DOMAIN s PROVE s[i] \in S
  OBVIOUS

\* Every rung of the history is a rung.
LEMMA HistoryKinds == TypeOK => \A i \in DOMAIN history : history[i].kind \in KindSet
<1> SUFFICES ASSUME TypeOK, NEW i \in DOMAIN history PROVE history[i].kind \in KindSet
  OBVIOUS
<1>1. history \in Seq([kind : KindSet, decision : Decisions])
  BY DEF TypeOK
<1>2. history[i] \in [kind : KindSet, decision : Decisions]
  BY <1>1, Element
<1> QED
  BY <1>2

\* The ranks of a rung and of the rung below it.
LEMMA BelowIsLower ==
  ASSUME NEW kind \in KindSet
  PROVE  /\ Below(kind) \in KindSet \cup {"raised"}
         /\ Below(kind) \in KindSet => Rank(Below(kind)) = Rank(kind) + 1
         /\ Below(kind) = "raised" <=> kind = "fail_safe"
         /\ kind # "fail_safe" => Below(kind) \in KindSet
         /\ Rank(kind) \in 1..4 /\ (Rank(kind) = 4 <=> kind = "fail_safe")
         /\ kind \notin Ended
  BY Ranks, BelowIsNext DEF Ended

\* An attempt, accepted or not, keeps the invariant.
LEMMA FinishKeepsLadder ==
  ASSUME LadderInv, NEW kind \in KindSet, NEW a, Finish(kind, a),
         a.cand \in Candidates, a.status \in Statuses, a.warm \in BOOLEAN
  PROVE  LadderInv'
<1> USE DEF LadderInv, Tried
<1> DEFINE e == [kind |-> kind, decision |-> Recorded(kind, a)]
           n == Len(history) + 1
<1>1. TypeOK'
  BY FinishTyped
<1>2. /\ rung = kind /\ solving /\ ~solving' /\ spent' = spent
      /\ attempts < Limit /\ attempts' = attempts + 1
      /\ history' = Append(history, e)
  BY DEF Finish, SolvingIsAllowed
<1>3. /\ DOMAIN history' = DOMAIN history \cup {n} /\ Len(history') = n
      /\ history' # <<>> /\ history'[n] = e
      /\ \A i \in DOMAIN history : i \in Nat /\ i < n /\ history'[i] = history[i]
  <2>1. e \in [kind : KindSet, decision : Decisions]
    BY RecordedIsDecision
  <2>2. history \in Seq([kind : KindSet, decision : Decisions])
    BY DEF TypeOK
  <2> QED
    BY <1>2, <2>1, <2>2, Appended
<1>4. n \in Nat /\ e.kind = kind /\ e.decision = Recorded(kind, a)
  BY DEF TypeOK
<1>5. \A i \in DOMAIN history : /\ Rank(history[i].kind) < Rank(kind)
                                /\ history[i].decision # Accepted(history[i].kind)
  BY <1>2 DEF HistoryIsAbove
<1>6. /\ warmed' = IF kind = "primary" THEN a.warm ELSE warmed
      /\ IF Decision(kind, a) = Accepted(kind)
         THEN rung' = "released" /\ released' = [cand |-> a.cand, status |-> a.status]
         ELSE rung' = Below(kind) /\ released' = released
  BY DEF Finish
<1>7. LadderInOrder'
  <2>1. attempts' <= Limit
    BY <1>2, LimitIsPositive DEF TypeOK
  <2>2. \A i, j \in DOMAIN history' : i < j =>
          /\ Rank(history'[i].kind) < Rank(history'[j].kind)
          /\ history'[i].decision # Accepted(history'[i].kind)
    BY <1>3, <1>4, <1>5 DEF LadderInOrder
  <2>3. \A i \in DOMAIN history' : history'[i].kind = "cold_retry" => warmed'
    <3>1. CASE kind = "primary"
      <4>1. \A i \in DOMAIN history : Rank(history[i].kind) \in 1..4
        BY HistoryKinds, BelowIsLower
      <4>2. Rank(kind) = 1
        BY <3>1, Ranks
      <4>3. ASSUME NEW i \in DOMAIN history PROVE FALSE
        <5>1. Rank(history[i].kind) < 1 /\ Rank(history[i].kind) \in 1..4
          BY <1>5, <4>1, <4>2
        <5> QED
          BY <5>1
      <4> QED
        BY <1>3, <1>4, <3>1, <4>3
    <3>2. CASE kind # "primary"
      <4>1. kind = "cold_retry" => warmed
        BY <1>2 DEF SolvingIsAllowed, Applies
      <4> QED
        BY <1>3, <1>4, <1>6, <3>2, <4>1 DEF LadderInOrder
    <3> QED
      BY <3>1, <3>2
  <2> QED
    BY <2>1, <2>2, <2>3 DEF LadderInOrder
<1>8. CASE Decision(kind, a) = Accepted(kind)
  <2>1. rung' = "released" /\ rung' \notin KindSet /\ rung' # "raised"
    BY <1>6, <1>8, Ranks
  <2>2. ReleasedIsVerified'
    <3>1. released'.cand = "good" /\ released'.status \in Acceptable \ {"error"}
      BY <1>6, <1>8, AcceptedIsGood
    <3>2. history'[n].decision = Accepted(history'[n].kind)
      BY <1>3, <1>4, <1>8, AcceptedIsGood
    <3> QED
      BY <1>3, <3>1, <3>2 DEF ReleasedIsVerified
  <2> QED
    BY <1>1, <1>2, <1>7, <2>1, <2>2
       DEF HistoryIsAbove, NoneLeftOut, SolvingIsAllowed, GaveUpForCause
<1>9. CASE Decision(kind, a) # Accepted(kind)
  <2>1. rung' = Below(kind)
    BY <1>6, <1>9
  <2>2. Recorded(kind, a) # Accepted(kind)
    BY <1>9, AcceptedIsGood
  <2>3. HistoryIsAbove'
    <3>1. SUFFICES ASSUME rung' \in KindSet, NEW i \in DOMAIN history'
                   PROVE  /\ Rank(history'[i].kind) < Rank(rung')
                          /\ history'[i].decision # Accepted(history'[i].kind)
      BY DEF HistoryIsAbove
    <3>2. Rank(rung') = Rank(kind) + 1 /\ Rank(kind) \in 1..4
      BY <2>1, <3>1, BelowIsLower
    <3>3. CASE i = n
      BY <1>3, <1>4, <2>2, <3>2, <3>3
    <3>4. CASE i \in DOMAIN history
      <4>1. history[i].kind \in KindSet
        BY <3>4, HistoryKinds
      <4>2. Rank(history[i].kind) \in 1..4
        BY <4>1, BelowIsLower
      <4> QED
        BY <1>3, <1>5, <3>2, <3>4, <4>2
    <3> QED
      BY <1>3, <3>3, <3>4
  <2>4. ASSUME ~spent', attempts' # Limit, NEW l \in KindSet,
               Applies(l)', Rank(l) <= Rank(kind)
        PROVE  \E i \in DOMAIN history' : history'[i].kind = l
    <3>1. CASE l = kind
      BY <1>3, <1>4, <3>1
    <3>2. CASE l # kind
      <4>1. Rank(l) < Rank(kind)
        BY <2>4, <3>2, Ranks
      <4>2. Applies(l)
        <5>1. Rank(l) \in 1..4
          BY BelowIsLower
        <5>2. kind # "primary"
          BY <4>1, <5>1, Ranks
        <5>3. warmed' = warmed
          BY <1>6, <5>2
        <5> QED
          BY <2>4, <5>3, Ranks DEF Applies
      <4>3. ~spent /\ attempts # Limit
        BY <1>2, <2>4, LimitIsPositive DEF TypeOK
      <4>4. \E i \in DOMAIN history : history[i].kind = l
        BY <1>2, <4>1, <4>2, <4>3 DEF NoneLeftOut
      <4> QED
        BY <1>3, <4>4
    <3> QED
      BY <3>1, <3>2
  <2>5. NoneLeftOut'
    <3>1. rung' \in KindSet => Rank(rung') = Rank(kind) + 1 /\ Rank(kind) \in 1..4
      BY <2>1, BelowIsLower
    <3>2. \A l \in KindSet : Rank(l) \in 1..4
      BY BelowIsLower
    <3> QED
      BY <2>4, <3>1, <3>2 DEF NoneLeftOut
  <2>6. GaveUpForCause'
    <3>1. rung' = "raised" => Rank(kind) = 4
      BY <2>1, BelowIsLower
    <3>2. \A l \in KindSet : Rank(l) <= 4
      BY BelowIsLower
    <3> QED
      BY <2>4, <3>1, <3>2 DEF GaveUpForCause
  <2>7. ReleasedIsVerified'
    BY <2>1, BelowIsLower DEF ReleasedIsVerified, Ended
  <2> QED
    BY <1>1, <1>2, <1>7, <2>3, <2>5, <2>6, <2>7 DEF SolvingIsAllowed
<1> QED
  BY <1>8, <1>9

\* Leaving a rung out, for want of a configuration, of time or of attempts.
LEMMA SkipKeepsLadder ==
  ASSUME LadderInv, NEW kind \in KindSet, Skip(kind)
  PROVE  LadderInv'
<1> USE DEF LadderInv, Tried
<1>1. /\ rung = kind /\ ~solving /\ ~(Applies(kind) /\ CanTry)
      /\ rung' = IF kind = "primary" THEN "raised" ELSE Below(kind)
      /\ UNCHANGED <<solving, attempts, spent, warmed, history, released>>
  BY DEF Skip
<1>2. TypeOK'
  BY StepTyped DEF Next, Progress
<1>3. attempts <= Limit /\ attempts \in Nat
  BY DEF LadderInOrder, TypeOK
<1>4. ~spent /\ attempts # Limit => ~Applies(kind) /\ kind # "primary"
  <2>1. attempts # Limit => attempts < Limit
    BY <1>3, LimitIsPositive
  <2>2. ~spent /\ attempts # Limit => ~Applies(kind)
    BY <1>1, <2>1 DEF CanTry
  <2>3. Applies("primary")
    BY DEF Applies
  <2> QED
    BY <2>2, <2>3
<1>5. ASSUME ~spent, attempts # Limit, NEW l \in KindSet,
             Applies(l), Rank(l) <= Rank(kind)
      PROVE  \E i \in DOMAIN history : history[i].kind = l
  <2>1. l # kind
    BY <1>4, <1>5
  <2>2. Rank(l) < Rank(kind)
    BY <1>5, <2>1, Ranks
  <2> QED
    BY <1>1, <1>5, <2>2 DEF NoneLeftOut
<1>6. /\ rung' \in KindSet => Rank(rung') = Rank(kind) + 1
      /\ \A l \in KindSet : Rank(l) \in 1..4
      /\ rung' = "raised" => kind = "primary" \/ Rank(kind) = 4
      /\ rung' # "released"
  BY <1>1, BelowIsLower, Ranks
<1>7. HistoryIsAbove'
  <2>1. \A i \in DOMAIN history : Rank(history[i].kind) \in 1..4
    BY HistoryKinds, <1>6
  <2> QED
    BY <1>1, <1>6, <2>1 DEF HistoryIsAbove
<1>8. Applies(kind)' = Applies(kind) /\ \A l \in KindSet : Applies(l)' <=> Applies(l)
  BY <1>1 DEF Applies
<1>9. NoneLeftOut'
  BY <1>1, <1>5, <1>6, <1>8 DEF NoneLeftOut
<1>10. GaveUpForCause'
  BY <1>1, <1>4, <1>5, <1>6, <1>8 DEF GaveUpForCause
<1>11. LadderInOrder' /\ ReleasedIsVerified' /\ SolvingIsAllowed'
  BY <1>1, <1>6 DEF LadderInOrder, ReleasedIsVerified, SolvingIsAllowed, Limit
<1> QED
  BY <1>2, <1>7, <1>9, <1>10, <1>11

\* The last rung without a fail-safe action.
LEMMA NoFailSafeKeepsLadder ==
  ASSUME LadderInv, NoFailSafe
  PROVE  LadderInv'
<1> USE DEF LadderInv, Tried
<1> DEFINE e == [kind |-> "fail_safe", decision |-> "rejected_backend_error"]
           n == Len(history) + 1
<1>1. /\ rung = "fail_safe" /\ solving /\ rung' = "raised" /\ solving' = FALSE
      /\ history' = Append(history, e)
      /\ UNCHANGED <<attempts, spent, warmed, released>>
  BY DEF NoFailSafe
<1>2. TypeOK'
  BY StepTyped DEF Next, Progress
<1>3. /\ DOMAIN history' = DOMAIN history \cup {n}
      /\ history'[n] = e
      /\ \A i \in DOMAIN history : i \in Nat /\ i < n /\ history'[i] = history[i]
  <2>1. e \in [kind : KindSet, decision : Decisions]
    BY Ranks DEF Decisions
  <2>2. history \in Seq([kind : KindSet, decision : Decisions])
    BY DEF TypeOK
  <2> QED
    BY <1>1, <2>1, <2>2, Appended
<1>4. n \in Nat /\ e.kind = "fail_safe"
  BY DEF TypeOK
<1>5. \A i \in DOMAIN history : /\ Rank(history[i].kind) < Rank("fail_safe")
                                /\ history[i].decision # Accepted(history[i].kind)
  BY <1>1, Ranks DEF HistoryIsAbove
<1>6. LadderInOrder'
  BY <1>1, <1>3, <1>4, <1>5 DEF LadderInOrder, Limit
<1>7. GaveUpForCause'
  <2>1. ASSUME ~spent, attempts # Limit, NEW l \in KindSet, Applies(l)
        PROVE  \E i \in DOMAIN history' : history'[i].kind = l
    <3>1. CASE l = "fail_safe"
      BY <1>3, <1>4, <3>1
    <3>2. CASE l # "fail_safe"
      <4>1. Rank(l) < Rank("fail_safe")
        BY <3>2, Ranks
      <4>2. \E i \in DOMAIN history : history[i].kind = l
        BY <1>1, <2>1, <4>1, Ranks DEF NoneLeftOut
      <4> QED
        BY <1>3, <4>2
    <3> QED
      BY <3>1, <3>2
  <2>2. \A l \in KindSet : Applies(l)' <=> Applies(l)
    BY <1>1 DEF Applies
  <2> QED
    BY <1>1, <2>1, <2>2 DEF GaveUpForCause, Limit
<1>8. HistoryIsAbove' /\ NoneLeftOut' /\ SolvingIsAllowed' /\ ReleasedIsVerified'
  BY <1>1, Ranks DEF HistoryIsAbove, NoneLeftOut, SolvingIsAllowed, ReleasedIsVerified
<1> QED
  BY <1>2, <1>6, <1>7, <1>8

\* The invariant holds in every state.
LEMMA LadderInvariant == Spec => []LadderInv
<1>1. Init => LadderInv
  <2> SUFFICES ASSUME Init PROVE LadderInv
    OBVIOUS
  <2>1. rung = "idle" /\ history = <<>> /\ ~solving /\ attempts = 0
    BY DEF Init
  <2>2. DOMAIN history = {}
    BY <2>1
  <2>3. TypeOK
    <3>1. Nothing \in [cand : Candidates, status : Statuses]
      BY DEF Nothing, Candidates, Statuses
    <3>2. history \in Seq([kind : KindSet, decision : Decisions])
      BY <2>1
    <3>3. solving \in BOOLEAN /\ spent \in BOOLEAN /\ warmed \in BOOLEAN
      BY DEF Init
    <3> QED
      BY <3>1, <3>2, <3>3 DEF Init, TypeOK, Ended
  <2> QED
    BY <2>1, <2>2, <2>3, LimitIsPositive, Ranks
       DEF LadderInv, HistoryIsAbove, NoneLeftOut, SolvingIsAllowed, LadderInOrder,
           ReleasedIsVerified, GaveUpForCause, Tried
<1>2. LadderInv /\ [Next]_vars => LadderInv'
  <2> SUFFICES ASSUME LadderInv, [Next]_vars PROVE LadderInv'
    OBVIOUS
  <2> USE DEF LadderInv, Tried
  <2>0. TypeOK'
    <3>1. TypeOK /\ [Next]_vars
      OBVIOUS
    <3> QED
      BY <3>1, StepTyped
  <2>1. CASE Begin
    <3>1. rung' = "primary" /\ ~solving' /\ attempts' = 0 /\ DOMAIN history' = {}
      BY <2>1 DEF Begin
    <3>2. \A kind \in KindSet : ~(Rank(kind) < Rank("primary"))
      BY Ranks
    <3> QED
      BY <2>0, <3>1, <3>2, LimitIsPositive
         DEF HistoryIsAbove, NoneLeftOut, SolvingIsAllowed, LadderInOrder,
             ReleasedIsVerified, GaveUpForCause
  <2>2. CASE Expire
    <3>1. /\ spent' /\ rung \in KindSet
          /\ UNCHANGED <<rung, solving, attempts, warmed, history, released>>
      BY <2>2 DEF Expire, TypeOK
    <3> QED
      BY <2>0, <3>1, Ranks
         DEF HistoryIsAbove, NoneLeftOut, SolvingIsAllowed, LadderInOrder, Limit,
             ReleasedIsVerified, GaveUpForCause, Applies
  <2>3. ASSUME NEW kind \in KindSet, Try(kind) PROVE LadderInv'
    <3>1. /\ rung = kind /\ Applies(kind) /\ attempts < Limit /\ ~spent
          /\ UNCHANGED <<rung, attempts, spent, warmed, history, released>>
      BY <2>3 DEF Try, CanTry
    <3> QED
      BY <2>0, <3>1
         DEF HistoryIsAbove, NoneLeftOut, SolvingIsAllowed, LadderInOrder, Limit,
             ReleasedIsVerified, GaveUpForCause, Applies
  <2>4. ASSUME NEW kind \in KindSet, Skip(kind) PROVE LadderInv'
    BY <2>4, SkipKeepsLadder
  <2>5. ASSUME NEW kind \in KindSet, NEW a \in Attempts, Finish(kind, a)
        PROVE  LadderInv'
    BY <2>5, FinishKeepsLadder DEF Attempts
  <2>6. CASE FinishFailSafe
    <3>1. PICK cand \in {"violating", "good"} :
            Finish("fail_safe", [cand |-> cand, status |-> "optimal",
                                 raised |-> FALSE, warm |-> FALSE])
      BY <2>6 DEF FinishFailSafe
    <3> QED
      BY <3>1, Ranks, FinishKeepsLadder DEF Candidates, Statuses
  <2>7. CASE NoFailSafe
    BY <2>7, NoFailSafeKeepsLadder
  <2>8. CASE UNCHANGED vars
    BY <2>0, <2>8
       DEF vars, HistoryIsAbove, NoneLeftOut, SolvingIsAllowed, LadderInOrder, Limit,
           ReleasedIsVerified, GaveUpForCause, Applies
  <2> QED
    BY <2>1, <2>2, <2>3, <2>4, <2>5, <2>6, <2>7, <2>8, Ranks
       DEF Next, Progress, FinishSolve
<1> QED
  BY <1>1, <1>2, PTL DEF Spec

\* Whatever is released, on whichever rung, was verified.
THEOREM Verified == Spec => []ReleasedIsVerified
  BY LadderInvariant, PTL DEF LadderInv

\* The ladder is climbed down, within the attempt limit.
THEOREM InOrder == Spec => []LadderInOrder
  BY LadderInvariant, PTL DEF LadderInv

\* Every configured rung above the one in progress was tried, even if the time
\* has run out since.
SolvingInTurn ==
  solving => \A kind \in KindSet : Applies(kind) /\ Rank(kind) < Rank(rung) => Tried(kind)

\* An entry of the history, for the rung in progress, leaves no gap above it.
LEMMA EntryInTurn ==
  ASSUME TypeOK, HistoryIsAbove, NonePassedOver, SolvingInTurn, solving, ~solving',
         NEW d \in Decisions, rung \in KindSet,
         history' = Append(history, [kind |-> rung, decision |-> d]),
         rung # "primary" => warmed' = warmed
  PROVE  (NonePassedOver /\ SolvingInTurn)'
<1> DEFINE e == [kind |-> rung, decision |-> d]
           n == Len(history) + 1
<1>1. /\ DOMAIN history' = DOMAIN history \cup {n} /\ history'[n] = e
      /\ \A i \in DOMAIN history : history'[i] = history[i]
  BY Appended DEF TypeOK
<1>2. \A kind \in KindSet : Tried(kind) => Tried(kind)'
  BY <1>1 DEF Tried
<1>3. SUFFICES ASSUME NEW i \in DOMAIN history', NEW kind \in KindSet,
                      Applies(kind)', Rank(kind) < Rank(history'[i].kind)
               PROVE  Tried(kind)
  BY <1>2 DEF NonePassedOver, SolvingInTurn
<1>4. Rank(kind) < Rank(rung)
  <2>1. CASE i = n
    BY <1>1, <1>3, <2>1
  <2>2. CASE i \in DOMAIN history
    <3>1. Rank(history[i].kind) < Rank(rung)
      BY <2>2 DEF HistoryIsAbove
    <3>2. Rank(history[i].kind) \in 1..4 /\ Rank(kind) \in 1..4 /\ Rank(rung) \in 1..4
      BY <2>2, HistoryKinds, BelowIsLower
    <3> QED
      BY <1>1, <1>3, <2>2, <3>1, <3>2
  <2> QED
    BY <1>1, <2>1, <2>2
<1>5. Applies(kind)
  <2>1. rung # "primary"
    <3>1. Rank(kind) \in 1..4
      BY BelowIsLower
    <3> QED
      BY <1>4, <3>1, Ranks
  <2>2. warmed' = warmed
    BY <2>1
  <2>3. Applies(kind)' => Applies(kind)
    BY <2>2 DEF Applies
  <2> QED
    BY <1>3, <2>3
<1> QED
  BY <1>4, <1>5 DEF SolvingInTurn

\* Every step keeps the history without gaps.
LEMMA TurnInductive ==
  LadderInv /\ NonePassedOver /\ SolvingInTurn /\ [Next]_vars
    => (NonePassedOver /\ SolvingInTurn)'
<1> SUFFICES ASSUME LadderInv, NonePassedOver, SolvingInTurn, [Next]_vars
             PROVE  (NonePassedOver /\ SolvingInTurn)'
  OBVIOUS
<1> USE DEF LadderInv
<1>1. CASE Begin
  <2>1. ~solving' /\ DOMAIN history' = {}
    BY <1>1 DEF Begin
  <2> QED
    BY <2>1 DEF NonePassedOver, SolvingInTurn
<1>2. ASSUME UNCHANGED <<rung, solving, warmed, history>>
      PROVE  (NonePassedOver /\ SolvingInTurn)'
  BY <1>2 DEF NonePassedOver, SolvingInTurn, Tried, Applies
<1>3. ASSUME NEW kind \in KindSet, Try(kind) PROVE (NonePassedOver /\ SolvingInTurn)'
  <2>1. /\ rung = kind /\ ~spent /\ attempts < Limit /\ attempts \in Nat
        /\ UNCHANGED <<rung, warmed, history>>
    BY <1>3 DEF Try, CanTry, TypeOK
  <2>2. \A l \in KindSet : Applies(l) /\ Rank(l) < Rank(rung) => Tried(l)
    BY <2>1, LimitIsPositive DEF NoneLeftOut
  <2> QED
    BY <2>1, <2>2 DEF NonePassedOver, SolvingInTurn, Tried, Applies
<1>4. ASSUME NEW kind \in KindSet, Skip(kind) PROVE (NonePassedOver /\ SolvingInTurn)'
  BY <1>4 DEF Skip, NonePassedOver, SolvingInTurn, Tried, Applies
<1>5. ASSUME NEW kind \in KindSet, NEW a, Finish(kind, a),
             a.status \in Statuses, a.cand \in Candidates
      PROVE  (NonePassedOver /\ SolvingInTurn)'
  <2>1. /\ rung = kind /\ solving /\ ~solving'
        /\ warmed' = IF kind = "primary" THEN a.warm ELSE warmed
        /\ history' = Append(history, [kind |-> kind, decision |-> Recorded(kind, a)])
    BY <1>5 DEF Finish
  <2>2. Recorded(kind, a) \in Decisions
    BY RecordedIsDecision
  <2> QED
    BY <2>1, <2>2, EntryInTurn
<1>6. CASE FinishFailSafe
  <2>1. PICK cand \in {"violating", "good"} :
          Finish("fail_safe", [cand |-> cand, status |-> "optimal",
                               raised |-> FALSE, warm |-> FALSE])
    BY <1>6 DEF FinishFailSafe
  <2> QED
    BY <1>5, <2>1, Ranks DEF Candidates, Statuses
<1>7. CASE NoFailSafe
  <2>1. "rejected_backend_error" \in Decisions
    BY DEF Decisions
  <2> QED
    BY <1>7, <2>1, Ranks, EntryInTurn DEF NoFailSafe
<1>8. ASSUME NEW kind \in KindSet, NEW a \in Attempts, Finish(kind, a)
      PROVE  (NonePassedOver /\ SolvingInTurn)'
  BY <1>5, <1>8 DEF Attempts
<1> QED
  BY <1>1, <1>2, <1>3, <1>4, <1>6, <1>7, <1>8, Ranks
     DEF Next, Expire, Progress, FinishSolve, vars

\* No configured rung above a tried one was passed over, and the pipeline raises
\* only when nothing configured was left untried, or time or attempts ran out.
THEOREM Exhausted == Spec => []GivesUpExhausted
<1>1. Init => NonePassedOver /\ SolvingInTurn
  BY DEF Init, NonePassedOver, SolvingInTurn
<1>2. LadderInv /\ NonePassedOver /\ SolvingInTurn /\ [Next]_vars
        => (NonePassedOver /\ SolvingInTurn)'
  BY TurnInductive
<1>3. LadderInv /\ NonePassedOver => GivesUpExhausted
  BY DEF LadderInv, GivesUpExhausted
<1> QED
  BY <1>1, <1>2, <1>3, LadderInvariant, PTL DEF Spec

\* From its first rung to its end, a call of the pipeline goes down the ladder,
\* past a rung for good reason only, to a verified release or a refusal with a cause.
THEOREM LadderSound == Spec => []LadderIsSound
  BY Verified, InOrder, Exhausted, PTL DEF LadderIsSound

\* No rung is entered after the deadline.
THEOREM NothingAfterDeadline == Spec => NoAttemptAfterDeadline
<1>1. [Next]_vars => [spent /\ solving' => solving]_vars
  BY DEF Next, Progress, Begin, Expire, Try, Skip, Finish, FinishSolve, FinishFailSafe,
         NoFailSafe, CanTry
<1> QED
  BY <1>1, PTL DEF Spec, NoAttemptAfterDeadline
-----------------------------------------------------------------------------
(***************************************************************************)
(* NativeMoreauCompiledBatchProjector under INSTANCE_CONFINED: one call at *)
(* a time, for any rows, topologies, options and solver objects.           *)
(***************************************************************************)

\* A call's row ids are as many as the call has rows, and there are some.
LEMMA RowIdsAreRows ==
  ASSUME NEW ids \in RowIds
  PROVE  Len(ids) \in Nat \ {0} /\ DOMAIN ids = 1..Len(ids)
<1>1. PICK k \in 1..MaxBatch :
        ids \in {s \in [1..k -> Ids] : IsInjective(s)} \cup {SubSeq(Anonymous, 1, k)}
  BY DEF RowIds
<1>2. MaxBatch \in Nat /\ Anonymous \in Seq(Seq(STRING)) /\ MaxBatch = Len(Anonymous)
  BY BatchAssumption DEF MaxBatch
<1>3. k \in Nat /\ 1 <= k /\ k <= Len(Anonymous)
  BY <1>1, <1>2
<1>4. CASE ids \in [1..k -> Ids]
  BY <1>3, <1>4
<1>5. CASE ids = SubSeq(Anonymous, 1, k)
  <2>1. ids \in Seq(Seq(STRING)) /\ Len(ids) = k
    BY <1>2, <1>3, <1>5, SubSeqProperties
  <2> QED BY <1>3, <2>1
<1> QED BY <1>1, <1>4, <1>5

\* The record of a call and nothing else.
CallShape(c) ==
  c = [step |-> c.step, rows |-> c.rows, values |-> c.values, topo |-> c.topo,
       mode |-> c.mode, row |-> c.row, solver |-> c.solver]

\* What is true of a call that is under way: its rows were filled for the present
\* topology, from _ensure on it has the solver of its slot, built for its rows and
\* the options, and from _setup on the last setup had the values of its row.
Underway(c) ==
  /\ c.mode \in Modes
  /\ c.rows \in RowIds /\ Len(c.rows) \in Nat \ {0} /\ c.row \in 1..Len(c.rows)
  /\ DOMAIN c.values = 1..Len(c.rows)
  /\ c.topo = tmpl
  /\ \A k \in 1..Len(c.rows) : c.values[k] \in Values /\ c.values[k].a = tmpl
  /\ c.mode = "batch" => \A k \in 1..Len(c.rows) : c.values[k] = c.values[1]
  /\ c.step = "ensure" => c.solver = None
  /\ c.step # "ensure" => /\ c.solver # None /\ c.solver = slot[c.mode]
                          /\ key[c.mode] = [size |-> IF c.mode = "batch" THEN Len(c.rows) ELSE 1,
                                            set |-> settings, topo |-> tmpl]
  /\ c.step = "solve" => lastFp[c.mode] = c.values[c.row]

CallFits(c) == /\ CallShape(c)
               /\ c.step = "idle" => c = Idle
               /\ c.step # "idle" => Underway(c)

\* One call at a time, and it fits.
CallsFit == /\ call = [t \in Threads |-> call[t]]
            /\ \A t \in Threads : CallFits(call[t])
            /\ \A t \in Threads : \A u \in Threads :
                 call[t].step # "idle" /\ call[u].step # "idle" => t = u

BatchTypes == /\ tmpl \in Topologies /\ settings \in Settings
              /\ aValues \in {None, tmpl}
              /\ slot \in [Modes -> Objects \cup {None}]
              /\ key = [m \in Modes |-> key[m]]
              /\ lastFp = [m \in Modes |-> lastFp[m]]
              /\ built = [o \in Objects |-> built[o]]
              /\ setup = [o \in Objects |-> setup[o]]

\* The two slots never share a solver; a slot's solver was built for the slot's
\* key, and set up with the slot's last fingerprint if there is one.
SlotsFit == /\ slot["batch"] # None => slot["batch"] # slot["single"]
            /\ \A m \in Modes : slot[m] # None =>
                 /\ built[slot[m]] = key[m]
                 /\ lastFp[m] # None => setup[slot[m]] = lastFp[m]

\* The inductive invariant.
BatchInv == BatchTypes /\ CallsFit /\ SlotsFit /\ RowsSolvedAsAsked

\* A call is only made when no other is under way, so the others stay idle.
LEMMA OneCallGoesOn ==
  ASSUME CallsFit, NEW t \in Threads, NEW d,
         call[t].step # "idle" \/ Others(t) = {},
         call' = [call EXCEPT ![t] = d], CallFits(d)'
  PROVE  CallsFit'
<1>1. PICK calls : calls = call' OBVIOUS
<1>2. calls = [u \in Threads |-> IF u = t THEN d ELSE call[u]]
  BY <1>1 DEF CallsFit
<1>3. ASSUME NEW u \in Threads, u # t PROVE calls[u] = Idle
  <2>1. call[u].step = "idle" BY <1>3 DEF CallsFit, Others
  <2> QED BY <1>2, <1>3, <2>1 DEF CallsFit, CallFits
<1>4. CallFits(Idle)' BY DEF CallFits, CallShape, Idle
<1>5. \A u \in Threads : CallFits(calls[u])'
  BY <1>2, <1>3, <1>4
<1>6. \A u \in Threads : u # t => calls[u].step = "idle"
  BY <1>3 DEF Idle
<1>7. calls = [u \in Threads |-> calls[u]] BY <1>2
<1> QED BY <1>1, <1>5, <1>6, <1>7 DEF CallsFit

\* While nobody calls, anything but the calls may change.
LEMMA IdleCallsFit ==
  ASSUME CallsFit, \A t \in Threads : call[t].step = "idle", call' = call
  PROVE  CallsFit'
<1>1. PICK calls : calls = call OBVIOUS
<1>2. \A t \in Threads : calls[t] = Idle BY <1>1 DEF CallsFit, CallFits
<1>3. CallFits(Idle)' BY DEF CallFits, CallShape, Idle
<1>4. \A t \in Threads : CallFits(calls[t])' BY <1>2, <1>3
<1> QED BY <1>1, <1>4 DEF CallsFit

\* A new projector has no solver, no setup and no call.
LEMMA BatchStarts == BatchInit => BatchInv
<1> SUFFICES ASSUME BatchInit PROVE BatchInv
  OBVIOUS
<1>1. BatchTypes BY DEF BatchInit, BatchTypes
<1>2. CallsFit
  <2>1. CallFits(Idle) BY DEF CallFits, CallShape, Idle
  <2>2. \A t \in Threads : call[t] = Idle BY DEF BatchInit
  <2>3. \A t \in Threads : call[t].step = "idle" BY <2>2 DEF Idle
  <2>4. \A t \in Threads : CallFits(call[t]) BY <2>1, <2>2
  <2>5. call = [t \in Threads |-> call[t]] BY DEF BatchInit
  <2> QED BY <2>3, <2>4, <2>5 DEF CallsFit
<1>3. SlotsFit BY DEF BatchInit, SlotsFit, Modes
<1>4. RowsSolvedAsAsked BY DEF BatchInit, RowsSolvedAsAsked
<1> QED BY <1>1, <1>2, <1>3, <1>4 DEF BatchInv

\* A batch is filled: its values are those of the present topology.
LEMMA BeginKeeps ==
  ASSUME BatchInv, Confined, NEW t \in Threads, BeginBatch(t)
  PROVE  BatchInv'
<1>1. PICK ids \in RowIds : \E w \in [DOMAIN ids -> Weights] :
        LET values == [k \in DOMAIN ids |-> [a |-> Filled, p |-> w[k]]]
            shared == \A k \in DOMAIN ids : values[k] = values[1]
        IN  call' = [call EXCEPT ![t] =
                       [Idle EXCEPT !.step = "ensure", !.rows = ids, !.values = values,
                                    !.topo = tmpl, !.row = 1,
                                    !.mode = IF shared THEN "batch" ELSE "single"]]
  BY DEF BeginBatch
<1>2. PICK w \in [DOMAIN ids -> Weights] :
        LET values == [k \in DOMAIN ids |-> [a |-> Filled, p |-> w[k]]]
            shared == \A k \in DOMAIN ids : values[k] = values[1]
        IN  call' = [call EXCEPT ![t] =
                       [Idle EXCEPT !.step = "ensure", !.rows = ids, !.values = values,
                                    !.topo = tmpl, !.row = 1,
                                    !.mode = IF shared THEN "batch" ELSE "single"]]
  BY <1>1
<1>3. PICK values : values = [k \in DOMAIN ids |-> [a |-> Filled, p |-> w[k]]]
  OBVIOUS
<1>4. PICK mode : mode = IF \A k \in DOMAIN ids : values[k] = values[1]
                         THEN "batch" ELSE "single"
  OBVIOUS
<1>5. PICK d : d = [Idle EXCEPT !.step = "ensure", !.rows = ids, !.values = values,
                                !.topo = tmpl, !.row = 1, !.mode = mode]
  OBVIOUS
<1>6. call' = [call EXCEPT ![t] = d]
  BY <1>2, <1>3, <1>4, <1>5
<1>7. d = [step |-> "ensure", rows |-> ids, values |-> values, topo |-> tmpl,
           mode |-> mode, row |-> 1, solver |-> None]
  BY <1>5 DEF Idle
<1>8. Len(ids) \in Nat \ {0} /\ DOMAIN ids = 1..Len(ids)
  BY RowIdsAreRows
<1>9. Filled = tmpl /\ tmpl \in Topologies
  BY DEF BatchInv, BatchTypes, Filled
<1>10. \A k \in 1..Len(ids) : values[k] \in Values /\ values[k].a = tmpl
  BY <1>3, <1>8, <1>9 DEF Values
<1>11. tmpl' = tmpl BY DEF BeginBatch
<1>12. CallFits(d)'
  <2>a. /\ d.step = "ensure" /\ d.rows = ids /\ d.values = values /\ d.topo = tmpl
        /\ d.mode = mode /\ d.row = 1 /\ d.solver = None
    BY <1>7
  <2>b. mode \in Modes /\ (mode = "batch" => \A k \in 1..Len(ids) : values[k] = values[1])
    BY <1>4, <1>8 DEF Modes
  <2>c. DOMAIN values = 1..Len(ids) /\ 1 \in 1..Len(ids)
    BY <1>3, <1>8
  <2>1. Underway(d)'
    BY <1>8, <1>10, <1>11, <2>a, <2>b, <2>c DEF Underway
  <2> QED BY <1>7, <2>1 DEF CallFits, CallShape
<1>13. CallsFit'
  BY <1>6, <1>12, OneCallGoesOn DEF BeginBatch, BatchInv
<1>14. BatchTypes' BY <1>9 DEF BeginBatch, BatchInv, BatchTypes
<1>15. SlotsFit' BY DEF BeginBatch, BatchInv, SlotsFit
<1>16. RowsSolvedAsAsked' BY DEF BeginBatch, RowsSolvedAsAsked
<1> QED BY <1>13, <1>14, <1>15, <1>16 DEF BatchInv

\* The caller of a step has a call under way, and its record is all it is.
LEMMA CallerFits ==
  ASSUME BatchInv, NEW t \in Threads, call[t].step # "idle"
  PROVE  /\ Underway(call[t]) /\ CallShape(call[t]) /\ call[t].mode \in Modes
         /\ \A u \in Threads : u # t => call[u].solver = None
<1>1. ASSUME NEW u \in Threads, u # t PROVE call[u].solver = None
  <2>1. call[u].step = "idle" BY <1>1 DEF BatchInv, CallsFit
  <2> QED BY <2>1 DEF BatchInv, CallsFit, CallFits, Idle
<1> QED BY <1>1 DEF BatchInv, CallsFit, CallFits, Underway

\* A call that ends leaves a thread that fits.
LEMMA EndedFits == CallFits(Idle)'
  BY DEF CallFits, CallShape, Idle

\* A new solver is an object that neither slot has, and its slot's key is that of
\* the call.
LEMMA BuildKeeps ==
  ASSUME BatchInv, NEW t \in Threads, Calling(t, "ensure"), Build(t, call[t].mode),
         UNCHANGED <<tmpl, settings, aValues, used>>
  PROVE  BatchInv'
<1>1. PICK c : c = call[t] OBVIOUS
<1>2. /\ c.step = "ensure" /\ Underway(c) /\ CallShape(c) /\ c.mode \in Modes
      /\ \A u \in Threads : u # t => call[u].solver = None
  BY <1>1, CallerFits DEF Calling
<1>3. PICK m \in Modes : m = c.mode BY <1>2
<1>4. PICK k : k = Key(t) OBVIOUS
<1>5. k = [size |-> IF c.mode = "batch" THEN Len(c.rows) ELSE 1,
           set |-> settings, topo |-> tmpl]
  BY <1>1, <1>4 DEF Key, Size
<1>6. PICK o : o = CHOOSE x \in Objects : x \notin Referred OBVIOUS
<1>7. o \in Objects /\ o \notin Referred
  <2>1. call[t].solver = None BY <1>1, <1>2 DEF Underway
  <2>2. Referred \subseteq {slot["batch"], slot["single"], None}
    BY <1>2, <2>1 DEF Referred, Modes
  <2>3. slot["batch"] \in Objects \cup {None} /\ slot["single"] \in Objects \cup {None}
    BY DEF BatchInv, BatchTypes, Modes
  <2>4. PICK x \in Objects : x \notin {slot["batch"], slot["single"]}
    BY <2>3, BatchAssumption
  <2>5. x # None BY BatchAssumption
  <2>6. x \notin Referred BY <2>2, <2>4, <2>5
  <2> QED BY <1>6, <2>6
<1>8. /\ slot' = [slot EXCEPT ![m] = o]
      /\ call' = [call EXCEPT ![t] = [c EXCEPT !.step = "setup", !.solver = o]]
      /\ key' = [key EXCEPT ![m] = k]
      /\ lastFp' = [lastFp EXCEPT ![m] = None]
      /\ built' = Kept(built, o, k)
      /\ setup' = Kept(setup, o, None)
  <2>1. call' = [call EXCEPT ![t].step = "setup", ![t].solver = o]
    BY <1>1, <1>3, <1>6 DEF Build
  <2> QED BY <1>1, <1>3, <1>4, <1>6, <2>1 DEF Build, Key
<1>9. PICK d : d = [c EXCEPT !.step = "setup", !.solver = o] OBVIOUS
<1>10. /\ d = [step |-> "setup", rows |-> c.rows, values |-> c.values, topo |-> c.topo,
                mode |-> c.mode, row |-> c.row, solver |-> o]
  BY <1>2, <1>9 DEF CallShape
<1>11. o # None BY <1>7, BatchAssumption
<1>12. slot'[m] = o /\ key'[m] = k /\ lastFp'[m] = None
  BY <1>8 DEF BatchInv, BatchTypes
<1>13. ASSUME NEW n \in Modes, n # m
       PROVE  /\ slot'[n] = slot[n] /\ key'[n] = key[n] /\ lastFp'[n] = lastFp[n]
              /\ slot[n] # o
  BY <1>7, <1>8, <1>13 DEF BatchInv, BatchTypes, Referred
<1>14. CallsFit'
  <2>1. Underway(d)'
    BY <1>2, <1>3, <1>5, <1>10, <1>11, <1>12 DEF Underway
  <2>2. CallFits(d)' BY <1>10, <2>1 DEF CallFits, CallShape
  <2>3. call' = [call EXCEPT ![t] = d] BY <1>8, <1>9
  <2> QED BY <1>1, <1>2, <2>2, <2>3, OneCallGoesOn DEF BatchInv
<1>15. BatchTypes'
  <2>1. slot' \in [Modes -> Objects \cup {None}]
    BY <1>7, <1>8 DEF BatchInv, BatchTypes
  <2>2. key' = [x \in Modes |-> key'[x]] /\ lastFp' = [x \in Modes |-> lastFp'[x]]
    BY <1>8 DEF BatchInv, BatchTypes
  <2>3. built' = [x \in Objects |-> built'[x]] /\ setup' = [x \in Objects |-> setup'[x]]
    BY <1>8 DEF Kept
  <2> QED BY <2>1, <2>2, <2>3 DEF BatchInv, BatchTypes
<1>16. SlotsFit'
  <2>1. built'[o] = k BY <1>7, <1>8 DEF Kept
  <2>2. ASSUME NEW n \in Modes, n # m, slot[n] # None
        PROVE  built'[slot[n]] = key[n] /\ (lastFp[n] # None => setup'[slot[n]] = lastFp[n])
    <3>1. slot[n] \in Objects BY <2>2 DEF BatchInv, BatchTypes
    <3>2. slot[n] \in Referred' BY <1>13, <2>2 DEF Referred
    <3>3. built'[slot[n]] = built[slot[n]] /\ setup'[slot[n]] = setup[slot[n]]
      BY <1>8, <1>13, <2>2, <3>1, <3>2 DEF Kept
    <3> QED BY <2>2, <3>3 DEF BatchInv, SlotsFit
  <2>3. slot'["batch"] # slot'["single"]
    BY <1>12, <1>13 DEF Modes
  <2> QED BY <1>12, <1>13, <2>1, <2>2, <2>3 DEF SlotsFit
<1>17. RowsSolvedAsAsked' BY DEF BatchInv, RowsSolvedAsAsked
<1> QED BY <1>14, <1>15, <1>16, <1>17 DEF BatchInv

\* A step that only moves a call on, or ends it, keeps what the call has.
LEMMA CallMovesOn ==
  ASSUME BatchInv, NEW t \in Threads, call[t].step # "idle", NEW d,
         call' = [call EXCEPT ![t] = d], CallFits(d)',
         UNCHANGED <<tmpl, settings, solverVars>>, RowsSolvedAsAsked'
  PROVE  BatchInv'
<1>1. CallsFit' BY OneCallGoesOn DEF BatchInv
<1>2. BatchTypes' BY DEF BatchInv, BatchTypes, solverVars
<1>3. SlotsFit' BY DEF BatchInv, SlotsFit, solverVars
<1> QED BY <1>1, <1>2, <1>3 DEF BatchInv

\* A hit finds the solver that was built for the call's key.
LEMMA EnsureKeeps ==
  ASSUME BatchInv, NEW t \in Threads, Ensure(t)
  PROVE  BatchInv'
<1>1. PICK c : c = call[t] OBVIOUS
<1>2. c.step = "ensure" /\ Underway(c) /\ CallShape(c) /\ c.mode \in Modes
  BY <1>1, CallerFits DEF Ensure, Calling
<1>3. UNCHANGED <<tmpl, settings, aValues, used>>
  BY DEF Ensure
<1>4. CASE Build(t, call[t].mode)
  BY <1>3, <1>4, BuildKeeps DEF Ensure
<1>5. CASE /\ slot[c.mode] # None /\ key[c.mode] = Key(t)
           /\ call' = [call EXCEPT ![t].step = "setup", ![t].solver = slot[c.mode]]
           /\ UNCHANGED <<slot, key, lastFp, built, setup>>
  <2>1. PICK o : o = slot[c.mode] OBVIOUS
  <2>2. PICK d : d = [c EXCEPT !.step = "setup", !.solver = o] OBVIOUS
  <2>3. call' = [call EXCEPT ![t] = d] BY <1>1, <1>5, <2>1, <2>2
  <2>4. d = [step |-> "setup", rows |-> c.rows, values |-> c.values, topo |-> c.topo,
             mode |-> c.mode, row |-> c.row, solver |-> o]
    BY <1>2, <2>2 DEF CallShape
  <2>5. key[c.mode] = [size |-> IF c.mode = "batch" THEN Len(c.rows) ELSE 1,
                       set |-> settings, topo |-> tmpl]
    BY <1>1, <1>5 DEF Key, Size
  <2>6. Underway(d)' BY <1>2, <1>3, <1>5, <2>1, <2>4, <2>5 DEF Underway
  <2>7. CallFits(d)' BY <2>4, <2>6 DEF CallFits, CallShape
  <2>8. RowsSolvedAsAsked' BY <1>3 DEF BatchInv, RowsSolvedAsAsked
  <2>9. UNCHANGED <<tmpl, settings, solverVars>> BY <1>3, <1>5 DEF solverVars
  <2> QED BY <1>1, <1>2, <2>3, <2>7, <2>8, <2>9, CallMovesOn
<1>6. CASE call' = [call EXCEPT ![t] = Idle] /\ UNCHANGED <<slot, key, lastFp, built, setup>>
  <2>1. RowsSolvedAsAsked' BY <1>3 DEF BatchInv, RowsSolvedAsAsked
  <2>2. UNCHANGED <<tmpl, settings, solverVars>> BY <1>3, <1>6 DEF solverVars
  <2> QED BY <1>1, <1>2, <1>6, <2>1, <2>2, EndedFits, CallMovesOn
<1> QED BY <1>1, <1>4, <1>5, <1>6 DEF Ensure

\* After _setup the solver has the values of the row, whether it was skipped or not.
LEMMA SetUpKeeps ==
  ASSUME BatchInv, NEW t \in Threads, SetUp(t)
  PROVE  BatchInv'
<1>1. PICK c : c = call[t] OBVIOUS
<1>2. c.step = "setup" /\ Underway(c) /\ CallShape(c) /\ c.mode \in Modes
  BY <1>1, CallerFits DEF SetUp, Calling
<1>3. PICK m \in Modes : m = c.mode BY <1>2
<1>4. PICK v : v = c.values[c.row] OBVIOUS
<1>5. UNCHANGED <<tmpl, settings, aValues, slot, key, built, used>>
  BY DEF SetUp
<1>6. RowsSolvedAsAsked' BY <1>5 DEF BatchInv, RowsSolvedAsAsked
<1>7. v # None
  <2>1. v \in Values BY <1>2, <1>4 DEF Underway
  <2> QED BY <2>1, BatchAssumption DEF Values
<1>8. PICK d : d = [c EXCEPT !.step = "solve"] OBVIOUS
<1>9. d = [step |-> "solve", rows |-> c.rows, values |-> c.values, topo |-> c.topo,
           mode |-> c.mode, row |-> c.row, solver |-> c.solver]
  BY <1>2, <1>8 DEF CallShape
<1>10. ASSUME lastFp'[m] = v PROVE CallFits(d)'
  <2>1. Underway(d)' BY <1>2, <1>3, <1>4, <1>5, <1>9, <1>10 DEF Underway
  <2> QED BY <1>9, <2>1 DEF CallFits, CallShape
<1>11. CASE /\ SameSetup(t) /\ call' = [call EXCEPT ![t].step = "solve"]
            /\ UNCHANGED <<lastFp, setup>>
  <2>1. lastFp'[m] = v BY <1>1, <1>3, <1>4, <1>11 DEF SameSetup
  <2>2. call' = [call EXCEPT ![t] = d] BY <1>1, <1>8, <1>11
  <2>3. UNCHANGED <<tmpl, settings, solverVars>> BY <1>5, <1>11 DEF solverVars
  <2> QED BY <1>1, <1>2, <1>6, <1>10, <2>1, <2>2, <2>3, CallMovesOn
<1>12. CASE /\ lastFp' = [lastFp EXCEPT ![m] = v]
            /\ setup' = [setup EXCEPT ![c.solver] = v]
            /\ call' = [call EXCEPT ![t].step = "solve"]
  <2>1. lastFp'[m] = v BY <1>12 DEF BatchInv, BatchTypes
  <2>2. call' = [call EXCEPT ![t] = d] BY <1>1, <1>8, <1>12
  <2>3. CallsFit' BY <1>1, <1>2, <1>10, <2>1, <2>2, OneCallGoesOn DEF BatchInv
  <2>4. BatchTypes' BY <1>5, <1>12 DEF BatchInv, BatchTypes
  <2>5. SlotsFit'
    <3>1. c.solver = slot[m] /\ slot[m] # None /\ slot[m] \in Objects
      BY <1>2, <1>3 DEF Underway, BatchInv, BatchTypes
    <3>2. setup'[slot[m]] = v BY <1>12, <3>1 DEF BatchInv, BatchTypes
    <3>3. ASSUME NEW n \in Modes, n # m, slot[n] # None
          PROVE  lastFp'[n] = lastFp[n] /\ setup'[slot[n]] = setup[slot[n]]
      <4>1. slot[n] # slot[m] BY <3>3 DEF BatchInv, SlotsFit, Modes
      <4>2. slot[n] \in Objects BY <3>3 DEF BatchInv, BatchTypes
      <4> QED BY <1>12, <3>1, <3>3, <4>1, <4>2 DEF BatchInv, BatchTypes
    <3> QED BY <1>5, <2>1, <3>2, <3>3 DEF BatchInv, SlotsFit
  <2> QED BY <1>6, <2>3, <2>4, <2>5 DEF BatchInv
<1>13. CASE call' = [call EXCEPT ![t] = Idle] /\ UNCHANGED <<lastFp, setup>>
  <2>1. UNCHANGED <<tmpl, settings, solverVars>> BY <1>5, <1>13 DEF solverVars
  <2> QED BY <1>1, <1>2, <1>6, <1>13, <2>1, EndedFits, CallMovesOn
<1> QED BY <1>1, <1>3, <1>4, <1>11, <1>12, <1>13 DEF SetUp

\* A solve runs on a solver built for its rows and set up with their values.
LEMMA SolveKeeps ==
  ASSUME BatchInv, NEW t \in Threads, Solve(t)
  PROVE  BatchInv'
<1>1. PICK c : c = call[t] OBVIOUS
<1>2. c.step = "solve" /\ Underway(c) /\ CallShape(c) /\ c.mode \in Modes
  BY <1>1, CallerFits DEF Solve, Calling
<1>3. UNCHANGED <<tmpl, settings, solverVars>> BY DEF Solve
<1>4. PICK given :
        used' = [rows |-> Rows(t), topo |-> call[t].topo, warm |-> given,
                 built |-> built[call[t].solver], setup |-> setup[call[t].solver],
                 values |-> IF call[t].mode = "batch" THEN Range(call[t].values)
                            ELSE {call[t].values[call[t].row]}]
  BY DEF Solve
<1>5. PICK u : u = used' OBVIOUS
<1>6. PICK vs : vs = IF c.mode = "batch" THEN Range(c.values) ELSE {c.values[c.row]}
  OBVIOUS
<1>7. PICK rs : rs = IF c.mode = "batch" THEN c.rows ELSE <<c.rows[c.row]>>
  OBVIOUS
<1>8. /\ u.rows = rs /\ u.topo = c.topo /\ u.built = built[c.solver]
      /\ u.setup = setup[c.solver] /\ u.values = vs
  BY <1>1, <1>4, <1>5, <1>6, <1>7 DEF Rows
<1>9. c.solver = slot[c.mode] /\ slot[c.mode] # None /\ c.topo = tmpl
      /\ c.values[c.row] \in Values /\ c.values[c.row].a = tmpl
  BY <1>2 DEF Underway
<1>10. built[c.solver] = [size |-> IF c.mode = "batch" THEN Len(c.rows) ELSE 1,
                          set |-> settings, topo |-> tmpl]
  BY <1>2, <1>9 DEF Underway, BatchInv, SlotsFit
<1>11. setup[c.solver] = c.values[c.row]
  <2>1. c.values[c.row] # None BY <1>9, BatchAssumption DEF Values
  <2> QED BY <1>2, <1>9, <2>1 DEF Underway, BatchInv, SlotsFit
<1>12. vs = {c.values[c.row]}
  <2>1. CASE c.mode = "batch"
    <3>1. \A k \in DOMAIN c.values : c.values[k] = c.values[c.row]
      BY <1>2, <2>1 DEF Underway
    <3>2. c.row \in DOMAIN c.values BY <1>2 DEF Underway
    <3> QED BY <1>6, <2>1, <3>1, <3>2 DEF Range
  <2>2. CASE c.mode # "batch" BY <1>6, <2>2
  <2> QED BY <2>1, <2>2
<1>13. u.built.size = Len(rs)
  <2>1. CASE c.mode = "batch" BY <1>7, <1>8, <1>10, <2>1
  <2>2. CASE c.mode # "batch" BY <1>7, <1>8, <1>10, <2>2
  <2> QED BY <2>1, <2>2
<1>14. RowsSolvedAsAsked'
  <2>1. u.built.topo = tmpl /\ u.built.set = settings BY <1>8, <1>10
  <2> QED BY <1>3, <1>5, <1>8, <1>9, <1>11, <1>12, <1>13, <2>1 DEF RowsSolvedAsAsked
<1>15. CASE call' = [call EXCEPT ![t] = Idle]
  BY <1>1, <1>2, <1>3, <1>14, <1>15, EndedFits, CallMovesOn
<1>16. CASE call' = [call EXCEPT ![t].step = "verify"]
  <2>1. PICK d : d = [c EXCEPT !.step = "verify"] OBVIOUS
  <2>2. d = [step |-> "verify", rows |-> c.rows, values |-> c.values, topo |-> c.topo,
             mode |-> c.mode, row |-> c.row, solver |-> c.solver]
    BY <1>2, <2>1 DEF CallShape
  <2>3. call' = [call EXCEPT ![t] = d] BY <1>1, <1>16, <2>1
  <2>4. Underway(d)' BY <1>2, <1>3, <2>2 DEF Underway, solverVars
  <2>5. CallFits(d)' BY <2>2, <2>4 DEF CallFits, CallShape
  <2> QED BY <1>1, <1>2, <1>3, <1>14, <2>3, <2>5, CallMovesOn
<1> QED BY <1>15, <1>16 DEF Solve

\* The results of a solve are made, and the call goes on to its next row, returns
\* or raises.
LEMMA VerifyKeeps ==
  ASSUME BatchInv, NEW t \in Threads, Verify(t)
  PROVE  BatchInv'
<1>1. PICK c : c = call[t] OBVIOUS
<1>2. c.step = "verify" /\ Underway(c) /\ CallShape(c) /\ c.mode \in Modes
  BY <1>1, CallerFits DEF Verify, Calling
<1>3. UNCHANGED <<tmpl, settings, solverVars>> BY DEF Verify
<1>4. RowsSolvedAsAsked' BY DEF Verify, RowsSolvedAsAsked
<1>5. PICK last : last = (c.mode = "batch" \/ c.row = Len(c.rows)) OBVIOUS
<1>6. PICK step : step = IF last THEN "return" ELSE "setup" OBVIOUS
<1>7. PICK row : row = IF last THEN c.row ELSE c.row + 1 OBVIOUS
<1>8. CASE call' = [call EXCEPT ![t].step = step, ![t].row = row]
  <2>1. PICK d : d = [c EXCEPT !.step = step, !.row = row] OBVIOUS
  <2>2. d = [step |-> step, rows |-> c.rows, values |-> c.values, topo |-> c.topo,
             mode |-> c.mode, row |-> row, solver |-> c.solver]
    BY <1>2, <2>1 DEF CallShape
  <2>3. call' = [call EXCEPT ![t] = d] BY <1>1, <1>8, <2>1
  <2>4. row \in 1..Len(c.rows)
    <3>1. Len(c.rows) \in Nat \ {0} /\ c.row \in 1..Len(c.rows) BY <1>2 DEF Underway
    <3>2. ~last => c.row # Len(c.rows) BY <1>5
    <3> QED BY <1>7, <3>1, <3>2
  <2>5. step \notin {"idle", "ensure", "solve"} BY <1>6
  <2>6. Underway(d)' BY <1>2, <1>3, <2>2, <2>4, <2>5 DEF Underway, solverVars
  <2>7. CallFits(d)' BY <2>2, <2>5, <2>6 DEF CallFits, CallShape
  <2> QED BY <1>1, <1>2, <1>3, <1>4, <2>3, <2>7, CallMovesOn
<1>9. CASE call' = [call EXCEPT ![t] = Idle]
  BY <1>1, <1>2, <1>3, <1>4, <1>9, EndedFits, CallMovesOn
<1> QED BY <1>1, <1>5, <1>6, <1>7, <1>8, <1>9 DEF Verify

\* Every step of a call keeps the invariant (project_batch).
LEMMA ProjectBatchKeeps ==
  ASSUME BatchInv, Confined, NEW t \in Threads, ProjectBatch(t)
  PROVE  BatchInv'
<1>1. CASE Return(t)
  <2>1. call[t].step # "idle" BY <1>1 DEF Return, Calling
  <2>2. RowsSolvedAsAsked' BY <1>1 DEF Return, BatchInv, RowsSolvedAsAsked
  <2>3. UNCHANGED <<tmpl, settings, solverVars>> BY <1>1 DEF Return
  <2>4. call' = [call EXCEPT ![t] = Idle] BY <1>1 DEF Return
  <2> QED BY <2>1, <2>2, <2>3, <2>4, EndedFits, CallMovesOn
<1> QED
  BY <1>1, BeginKeeps, EnsureKeeps, SetUpKeeps, SolveKeeps, VerifyKeeps DEF ProjectBatch

\* So do the owner's other calls, which it makes while no batch is under way.
LEMMA OwnerKeeps ==
  ASSUME BatchInv, Confined, ResetState \/ BindSpec \/ ChangeOptions
  PROVE  BatchInv'
<1>1. (\A t \in Threads : call[t].step = "idle") /\ call' = call
  BY DEF ResetState, BindSpec, ChangeOptions, Free, Calling
<1>2. CallsFit' BY <1>1, IdleCallsFit DEF BatchInv
<1>3. RowsSolvedAsAsked' BY DEF RowsSolvedAsAsked, ResetState, BindSpec, ChangeOptions
<1>4. CASE ResetState \/ ChangeOptions
  <2>1. BatchTypes' BY <1>4 DEF ResetState, ChangeOptions, BatchInv, BatchTypes, solverVars
  <2>2. SlotsFit' BY <1>4 DEF ResetState, ChangeOptions, BatchInv, SlotsFit, solverVars
  <2> QED BY <1>2, <1>3, <2>1, <2>2 DEF BatchInv
<1>5. CASE BindSpec
  <2>1. BatchTypes' BY <1>5 DEF BindSpec, Kept, BatchInv, BatchTypes
  <2>2. SlotsFit' BY <1>5 DEF BindSpec, SlotsFit, Modes
  <2> QED BY <1>2, <1>3, <2>1, <2>2 DEF BatchInv
<1> QED BY <1>4, <1>5

\* Nothing that the specification allows disturbs the invariant.
LEMMA BatchKeeps ==
  ASSUME BatchInv, Confined, [BatchNext]_batchVars
  PROVE  BatchInv'
<1>1. CASE UNCHANGED batchVars
  <2>1. BatchTypes' BY <1>1 DEF BatchInv, BatchTypes, batchVars, solverVars
  <2>2. SlotsFit' BY <1>1 DEF BatchInv, SlotsFit, batchVars, solverVars
  <2>3. RowsSolvedAsAsked' BY <1>1 DEF BatchInv, RowsSolvedAsAsked, batchVars
  <2>4. CallsFit'
    BY <1>1 DEF BatchInv, CallsFit, CallFits, CallShape, Underway, batchVars, solverVars
  <2> QED BY <2>1, <2>2, <2>3, <2>4 DEF BatchInv
<1> QED BY <1>1, ProjectBatchKeeps, OwnerKeeps DEF BatchNext

\* The invariant holds of project_batch and its owner's other calls.
THEOREM BatchInvariant == ASSUME Confined PROVE BatchSpec => []BatchInv
<1>1. BatchInit => BatchInv BY BatchStarts
<1>2. BatchInv /\ [BatchNext]_batchVars => BatchInv' BY BatchKeeps
<1> QED BY <1>1, <1>2, PTL DEF BatchSpec

\* For one owner, and whatever builds and setups are skipped or fail, every solve
\* of project_batch runs on a solver built for its number of rows, for their
\* topology and the options, and set up with the values of each of its rows.
THEOREM RowsAreSolvedAsAsked ==
  ASSUME Confined PROVE BatchSpec => []RowsSolvedAsAsked
<1>1. BatchInv => RowsSolvedAsAsked BY DEF BatchInv
<1> QED BY <1>1, BatchInvariant, PTL
-----------------------------------------------------------------------------
(***************************************************************************)
(* Keys: a joined text holds each of its ids.                              *)
(***************************************************************************)

\* A set of numbers that has a member has a least one.
LEMMA LeastOf == ASSUME NEW S \in SUBSET Nat, S # {} PROVE \E n \in S : \A m \in S : n <= m
<1>1. PICK n \in S : \A m \in S : ~(<<m, n>> \in OpToRel(<, Nat))
  BY NatLessThanWellFounded, WFMin
<1>2. \A m \in S : ~(m < n) BY <1>1 DEF OpToRel
<1> QED BY <1>2

\* A part stands somewhere in a text.
Holds(text, part) ==
  \E a \in Nat : /\ a + Len(part) <= Len(text)
                 /\ \A j \in 1..Len(part) : text[a + j] = part[j]

\* What stands in a text is one of its subsequences.
LEMMA HoldsIsSubSeq ==
  ASSUME NEW X, NEW text \in Seq(X), NEW part \in Seq(X), Holds(text, part)
  PROVE  part \in SubSeqs(text)
<1>1. PICK a \in Nat : /\ a + Len(part) <= Len(text)
                       /\ \A j \in 1..Len(part) : text[a + j] = part[j]
  BY DEF Holds
<1>2. PICK b \in Nat : b = a + Len(part) OBVIOUS
<1>3. a \in 0..Len(text) /\ b \in 0..Len(text) BY <1>1, <1>2
<1>4. \A i \in (a + 1)..b : text[i] \in X BY <1>3
<1>5. PICK s : s = SubSeq(text, a + 1, b) OBVIOUS
<1>6. /\ s \in Seq(X) /\ Len(s) = Len(part)
      /\ \A j \in 1..Len(part) : s[j] = text[a + j]
  <2>1. /\ s \in Seq(X)
        /\ Len(s) = IF a + 1 <= b THEN b - (a + 1) + 1 ELSE 0
        /\ \A j \in 1..(b - (a + 1) + 1) : s[j] = text[(a + 1) + j - 1]
    BY <1>4, <1>5, SubSeqProperties
  <2>2. b - (a + 1) + 1 = Len(part) /\ (a + 1 <= b <=> Len(part) # 0) BY <1>2
  <2>3. \A j \in 1..Len(part) : (a + 1) + j - 1 = a + j OBVIOUS
  <2> QED BY <2>1, <2>2, <2>3
<1>7. s = part BY <1>1, <1>6, SeqEqual
<1> QED BY <1>3, <1>5, <1>7 DEF SubSeqs

\* A text followed by another holds what it held.
LEMMA HoldsFirst ==
  ASSUME NEW X, NEW s \in Seq(X), NEW t \in Seq(X), NEW part \in Seq(X), Holds(s, part)
  PROVE  Holds(s \o t, part)
<1>1. PICK a \in Nat : /\ a + Len(part) <= Len(s)
                       /\ \A j \in 1..Len(part) : s[a + j] = part[j]
  BY DEF Holds
<1>2. PICK u : u = s \o t OBVIOUS
<1>3. /\ Len(u) = Len(s) + Len(t)
      /\ \A i \in 1..Len(s) + Len(t) : u[i] = IF i <= Len(s) THEN s[i] ELSE t[i - Len(s)]
  BY <1>2, ConcatProperties
<1>4. \A j \in 1..Len(part) : a + j \in 1..Len(s) + Len(t) /\ a + j <= Len(s) BY <1>1
<1>5. \A j \in 1..Len(part) : u[a + j] = part[j] BY <1>1, <1>3, <1>4
<1>6. a + Len(part) <= Len(u) BY <1>1, <1>3
<1> QED BY <1>2, <1>5, <1>6 DEF Holds

\* So does a text that follows another.
LEMMA HoldsSecond ==
  ASSUME NEW X, NEW s \in Seq(X), NEW t \in Seq(X), NEW part \in Seq(X), Holds(t, part)
  PROVE  Holds(s \o t, part)
<1>1. PICK a \in Nat : /\ a + Len(part) <= Len(t)
                       /\ \A j \in 1..Len(part) : t[a + j] = part[j]
  BY DEF Holds
<1>2. PICK u : u = s \o t OBVIOUS
<1>3. /\ Len(u) = Len(s) + Len(t)
      /\ \A i \in 1..Len(s) + Len(t) : u[i] = IF i <= Len(s) THEN s[i] ELSE t[i - Len(s)]
  BY <1>2, ConcatProperties
<1>4. PICK b \in Nat : b = Len(s) + a OBVIOUS
<1>5. b + Len(part) <= Len(u) BY <1>1, <1>3, <1>4
<1>6. ASSUME NEW j \in 1..Len(part) PROVE u[b + j] = part[j]
  <2>1. b + j \in 1..Len(s) + Len(t) /\ ~(b + j <= Len(s)) /\ (b + j) - Len(s) = a + j
    BY <1>1, <1>4
  <2> QED BY <1>1, <1>3, <2>1
<1> QED BY <1>2, <1>5, <1>6 DEF Holds

\* A part of a part is a part.
LEMMA HoldsTransitive ==
  ASSUME NEW X, NEW text \in Seq(X), NEW part \in Seq(X), NEW id,
         Len(id) \in Nat, Holds(text, part), Holds(part, id)
  PROVE  Holds(text, id)
<1>1. PICK a \in Nat : /\ a + Len(part) <= Len(text)
                       /\ \A j \in 1..Len(part) : text[a + j] = part[j]
  BY DEF Holds
<1>2. PICK b \in Nat : /\ b + Len(id) <= Len(part)
                       /\ \A j \in 1..Len(id) : part[b + j] = id[j]
  BY DEF Holds
<1>3. PICK c \in Nat : c = a + b OBVIOUS
<1>4. c + Len(id) <= Len(text) BY <1>1, <1>2, <1>3
<1>5. ASSUME NEW j \in 1..Len(id) PROVE text[c + j] = id[j]
  <2>1. PICK k \in 1..Len(part) : k = b + j BY <1>2
  <2>2. a + k = c + j BY <1>3, <2>1
  <2> QED BY <1>1, <1>2, <2>1, <2>2
<1> QED BY <1>4, <1>5 DEF Holds

\* A text holds itself.
LEMMA HoldsItself == ASSUME NEW X, NEW s \in Seq(X) PROVE Holds(s, s)
<1>1. 0 + Len(s) <= Len(s) /\ \A j \in 1..Len(s) : s[0 + j] = s[j] OBVIOUS
<1> QED BY <1>1 DEF Holds

\* The texts FlattenSeq makes of the first i members, one after another.
FlattensUpTo(m, S, X) ==
  {f \in [1..Len(S) -> Seq(X)] :
     \A i \in 1..Len(S) : i <= m => f[i] = IF i = 1 THEN S[i] ELSE f[i - 1] \o S[i]}

\* There are such texts for every i, by the least i for which there are none.
LEMMA FlattensExist ==
  ASSUME NEW X, NEW S \in Seq(Seq(X)), NEW m \in Nat
  PROVE  FlattensUpTo(m, S, X) # {}
<1> DEFINE Missing == {n \in Nat : FlattensUpTo(n, S, X) = {}}
<1> SUFFICES ASSUME Missing # {} PROVE FALSE
  OBVIOUS
<1>1. PICK n \in Missing : \A k \in Missing : n <= k
  BY LeastOf
<1>2. n \in Nat /\ FlattensUpTo(n, S, X) = {} BY <1>1
<1>3. CASE n = 0
  <2>1. PICK f : f = [i \in 1..Len(S) |-> <<>>] OBVIOUS
  <2>2. f \in [1..Len(S) -> Seq(X)] BY <2>1
  <2>3. \A i \in 1..Len(S) : ~(i <= n) BY <1>3
  <2>4. f \in FlattensUpTo(n, S, X) BY <2>2, <2>3 DEF FlattensUpTo
  <2> QED BY <1>2, <2>4
<1>4. CASE n # 0
  <2>1. n - 1 \in Nat /\ ~(n <= n - 1) BY <1>2, <1>4
  <2>2. PICK k \in Nat : k = n - 1 BY <2>1
  <2>3. FlattensUpTo(k, S, X) # {} BY <1>1, <2>1, <2>2
  <2>4. PICK f \in [1..Len(S) -> Seq(X)] :
          \A i \in 1..Len(S) : i <= k => f[i] = IF i = 1 THEN S[i] ELSE f[i - 1] \o S[i]
    BY <2>3 DEF FlattensUpTo
  <2>5. CASE n \notin 1..Len(S)
    <3>1. \A i \in 1..Len(S) : i <= n => i <= k BY <1>2, <2>2, <2>5
    <3>2. f \in FlattensUpTo(n, S, X) BY <2>4, <3>1 DEF FlattensUpTo
    <3> QED BY <1>2, <3>2
  <2>6. CASE n \in 1..Len(S)
    <3>1. PICK v : v = IF n = 1 THEN S[n] ELSE f[n - 1] \o S[n] OBVIOUS
    <3>2. v \in Seq(X)
      <4>1. S[n] \in Seq(X) BY <2>6
      <4>2. n # 1 => f[n - 1] \in Seq(X)
        <5>1. n # 1 => n - 1 \in 1..Len(S) BY <2>6
        <5> QED BY <2>4, <5>1
      <4> QED BY <3>1, <4>1, <4>2, ConcatProperties
    <3>3. PICK g : g = [f EXCEPT ![n] = v] OBVIOUS
    <3>4. g \in [1..Len(S) -> Seq(X)] BY <2>4, <2>6, <3>2, <3>3
    <3>5. ASSUME NEW i \in 1..Len(S), i <= n
          PROVE  g[i] = IF i = 1 THEN S[i] ELSE g[i - 1] \o S[i]
      <4>1. i # 1 => i - 1 \in 1..Len(S) /\ i - 1 # n BY <3>5, <1>2
      <4>2. i # 1 => g[i - 1] = f[i - 1] BY <2>4, <3>3, <4>1
      <4>3. CASE i = n BY <2>4, <3>1, <3>3, <4>2, <4>3
      <4>4. CASE i # n
        <5>1. i <= k BY <1>2, <2>2, <3>5, <4>4
        <5>2. g[i] = f[i] BY <2>4, <3>3, <4>4
        <5> QED BY <2>4, <4>2, <5>1, <5>2
      <4> QED BY <4>3, <4>4
    <3>6. g \in FlattensUpTo(n, S, X) BY <3>4, <3>5 DEF FlattensUpTo
    <3> QED BY <1>2, <3>6
  <2> QED BY <2>5, <2>6
<1> QED BY <1>3, <1>4

Flattens(f, S, X) ==
  /\ FlattenSeq(S) = f[Len(S)]
  /\ \A i \in 1..Len(S) : /\ f[i] \in Seq(X)
                          /\ f[i] = IF i = 1 THEN S[i] ELSE f[i - 1] \o S[i]

\* FlattenSeq returns the last of the texts it makes of the first members.
LEMMA FlattenedBy ==
  ASSUME NEW X, NEW S \in Seq(Seq(X)), Len(S) # 0
  PROVE  \E f : Flattens(f, S, X)
<1> DEFINE Body(f) == [i \in 1..Len(S) |-> IF i = 1 THEN S[i] ELSE f[i - 1] \o S[i]]
           flat == CHOOSE f : f = Body(f)
<1>1. FlattenSeq(S) = flat[Len(S)]
  BY DEF FlattenSeq
<1>2. \E f : f = Body(f)
  <2>1. PICK f \in [1..Len(S) -> Seq(X)] :
          \A i \in 1..Len(S) : i <= Len(S) => f[i] = IF i = 1 THEN S[i] ELSE f[i - 1] \o S[i]
    <3>1. Len(S) \in Nat OBVIOUS
    <3>2. FlattensUpTo(Len(S), S, X) # {} BY <3>1, FlattensExist
    <3> QED BY <3>2 DEF FlattensUpTo
  <2> HIDE DEF flat
  <2>a. \A i \in 1..Len(S) : f[i] = IF i = 1 THEN S[i] ELSE f[i - 1] \o S[i]
    <3> HIDE DEF Body
    <3>1. \A i \in 1..Len(S) : i <= Len(S) OBVIOUS
    <3> QED BY <2>1, <3>1
  <2>b. \A i \in 1..Len(S) : Body(f)[i] = IF i = 1 THEN S[i] ELSE f[i - 1] \o S[i]
    OBVIOUS
  <2>2. \A i \in 1..Len(S) : f[i] = Body(f)[i]
    <3> HIDE DEF Body
    <3> QED BY <2>a, <2>b
  <2>3. f = [i \in 1..Len(S) |-> f[i]] /\ Body(f) = [i \in 1..Len(S) |-> Body(f)[i]]
    BY <2>1
  <2>4. f = Body(f) BY <2>2, <2>3
  <2> QED BY <2>4
<1>3. flat = Body(flat) BY <1>2
<1>4. \A i \in 1..Len(S) : flat[i] = IF i = 1 THEN S[i] ELSE flat[i - 1] \o S[i]
  <2>1. \A i \in 1..Len(S) : Body(flat)[i] = IF i = 1 THEN S[i] ELSE flat[i - 1] \o S[i]
    <3> HIDE DEF flat
    <3> QED OBVIOUS
  <2>2. \A i \in 1..Len(S) : flat[i] = Body(flat)[i]
    <3> HIDE DEF flat, Body
    <3> QED BY <1>3
  <2> HIDE DEF flat, Body
  <2> QED BY <2>1, <2>2
<1> HIDE DEF flat
<1> DEFINE Bad == {i \in 1..Len(S) : flat[i] \notin Seq(X)}
<1>5. Bad = {}
  <2> SUFFICES ASSUME Bad # {} PROVE FALSE
    OBVIOUS
  <2>1. PICK n \in Bad : \A k \in Bad : n <= k
    <3>1. Bad \in SUBSET Nat OBVIOUS
    <3> QED BY <3>1, LeastOf
  <2>2. n \in 1..Len(S) /\ flat[n] \notin Seq(X) /\ S[n] \in Seq(X) BY <2>1
  <2>3. n # 1 BY <1>4, <2>2
  <2>4. PICK p \in 1..Len(S) : p = n - 1 BY <2>2, <2>3
  <2>5. flat[p] \in Seq(X) BY <2>1, <2>2, <2>4
  <2>6. flat[n] = flat[p] \o S[n] BY <1>4, <2>2, <2>3, <2>4
  <2> QED BY <2>2, <2>5, <2>6, ConcatProperties
<1>6. Flattens(flat, S, X) BY <1>1, <1>4, <1>5 DEF Flattens
<1> QED BY <1>6

\* What FlattenSeq returns is a text that holds every member.
LEMMA FlattenedHolds ==
  ASSUME NEW X, NEW S \in Seq(Seq(X)), Len(S) # 0
  PROVE  /\ FlattenSeq(S) \in Seq(X)
         /\ \A i \in 1..Len(S) : Holds(FlattenSeq(S), S[i])
<1>1. PICK flat : /\ FlattenSeq(S) = flat[Len(S)]
                  /\ \A i \in 1..Len(S) :
                       /\ flat[i] \in Seq(X)
                       /\ flat[i] = IF i = 1 THEN S[i] ELSE flat[i - 1] \o S[i]
  BY FlattenedBy DEF Flattens
<1>4. \A i \in 1..Len(S) : flat[i] = IF i = 1 THEN S[i] ELSE flat[i - 1] \o S[i]
  BY <1>1
<1> DEFINE Good(i) == flat[i] \in Seq(X) /\ \A j \in 1..i : Holds(flat[i], S[j])
           Bad == {i \in 1..Len(S) : ~Good(i)}
<1>5. Bad = {}
  <2> SUFFICES ASSUME Bad # {} PROVE FALSE
    OBVIOUS
  <2>1. PICK n \in Bad : \A k \in Bad : n <= k
    <3>1. Bad \in SUBSET Nat OBVIOUS
    <3> QED BY <3>1, LeastOf
  <2>2. n \in 1..Len(S) /\ ~Good(n) BY <2>1
  <2>3. S[n] \in Seq(X) /\ Holds(S[n], S[n]) BY <2>2, HoldsItself
  <2>4. CASE n = 1
    <3>1. flat[1] = S[1] BY <1>4, <2>2, <2>4
    <3>2. \A j \in 1..n : j = 1 BY <2>4
    <3> QED BY <2>2, <2>3, <2>4, <3>1, <3>2
  <2>5. CASE n # 1
    <3>1. PICK p \in 1..Len(S) : p = n - 1 BY <2>2, <2>5
    <3>2. p \notin Bad BY <2>1, <2>2, <3>1
    <3>3. flat[p] \in Seq(X) /\ \A j \in 1..p : Holds(flat[p], S[j]) BY <3>2
    <3>4. flat[n] = flat[p] \o S[n] BY <1>4, <2>2, <2>5, <3>1
    <3>5. flat[n] \in Seq(X) BY <2>3, <3>3, <3>4, ConcatProperties
    <3>6. ASSUME NEW j \in 1..n PROVE Holds(flat[n], S[j])
      <4>1. CASE j = n BY <2>3, <3>3, <3>4, <4>1, HoldsSecond
      <4>2. CASE j # n
        <5>1. j \in 1..p /\ j \in 1..Len(S) BY <2>2, <3>1, <4>2
        <5>2. Holds(flat[p], S[j]) /\ S[j] \in Seq(X) BY <3>3, <5>1
        <5> QED BY <2>3, <3>3, <3>4, <5>2, HoldsFirst
      <4> QED BY <4>1, <4>2
    <3> QED BY <2>2, <3>5, <3>6
  <2> QED BY <2>4, <2>5
<1>6. Len(S) \in 1..Len(S) OBVIOUS
<1>7. Good(Len(S)) BY <1>5, <1>6
<1> QED BY <1>1, <1>7

\* The lists of rows a solve may be about: a batch, or one of its rows.
Asked == RowIds \cup {<<id>> : id \in UNION {Range(ids) : ids \in RowIds}}

\* The lists of rows are lists of texts, and not empty.
LEMMA AskedAreTexts ==
  ASSUME NEW r \in Asked
  PROVE  r \in Seq(Seq(STRING)) /\ Len(r) \in Nat \ {0}
<1>1. ASSUME NEW ids \in RowIds PROVE ids \in Seq(Seq(STRING))
  <2>1. PICK k \in 1..MaxBatch :
          ids \in {s \in [1..k -> Ids] : IsInjective(s)} \cup {SubSeq(Anonymous, 1, k)}
    BY <1>1 DEF RowIds
  <2>2. MaxBatch \in Nat /\ Anonymous \in Seq(Seq(STRING)) /\ MaxBatch = Len(Anonymous)
    BY BatchAssumption DEF MaxBatch
  <2>3. k \in Nat /\ 1 <= k /\ k <= Len(Anonymous) BY <2>1, <2>2
  <2>4. CASE ids \in [1..k -> Ids]
    <3>1. \A i \in 1..k : ids[i] \in Seq(STRING) BY <2>4, BatchAssumption
    <3>2. ids = [i \in 1..k |-> ids[i]] BY <2>4
    <3> QED BY <2>3, <3>1, <3>2
  <2>5. CASE ids = SubSeq(Anonymous, 1, k)
    BY <2>2, <2>3, <2>5, SubSeqProperties
  <2> QED BY <2>1, <2>4, <2>5
<1>2. CASE r \in RowIds BY <1>1, <1>2, RowIdsAreRows
<1>3. CASE r \notin RowIds
  <2>1. PICK ids \in RowIds : \E id \in Range(ids) : r = <<id>> BY <1>3 DEF Asked
  <2>2. PICK id \in Range(ids) : r = <<id>> BY <2>1
  <2>3. ids \in Seq(Seq(STRING)) /\ DOMAIN ids = 1..Len(ids) BY <1>1, RowIdsAreRows
  <2>4. id \in Seq(STRING) BY <2>3, ElementOfSeq DEF Range
  <2> QED BY <2>2, <2>4
<1> QED BY <1>2, <1>3

\* The members of a list joined: what stands before each of them.
Joined(r) == [j \in 1..Len(r) |-> IF j = 1 THEN r[j] ELSE <<Bar>> \o r[j]]

LEMMA JoinedAreTexts ==
  ASSUME NEW r \in Asked
  PROVE  LET X == STRING \cup {Bar}
         IN  /\ r \in Seq(Seq(X)) /\ Joined(r) \in Seq(Seq(X))
             /\ Len(r) \in Nat \ {0} /\ Len(Joined(r)) = Len(r)
             /\ \A i \in 1..Len(r) : r[i] \in Seq(X) /\ Joined(r)[i] \in Seq(X)
             /\ Join(r) = FlattenSeq(Joined(r))
<1> DEFINE X == STRING \cup {Bar}
<1>1. r \in Seq(Seq(X)) /\ Len(r) \in Nat \ {0}
  <2>1. r \in Seq(Seq(STRING)) /\ Len(r) \in Nat \ {0} BY AskedAreTexts
  <2>2. \A i \in 1..Len(r) : r[i] \in Seq(X)
    <3> SUFFICES ASSUME NEW i \in 1..Len(r) PROVE r[i] \in Seq(X)
      OBVIOUS
    <3>1. r[i] \in Seq(STRING) BY <2>1, ElementOfSeq
    <3>2. PICK s \in Seq(STRING) : s = r[i] BY <3>1
    <3>3. \A j \in 1..Len(s) : s[j] \in X BY ElementOfSeq
    <3>4. s = [j \in 1..Len(s) |-> s[j]] /\ Len(s) \in Nat OBVIOUS
    <3> QED BY <3>2, <3>3, <3>4
  <2>3. r = [i \in 1..Len(r) |-> r[i]] BY <2>1
  <2> QED BY <2>1, <2>2, <2>3
<1>2. <<Bar>> \in Seq(X) OBVIOUS
<1> HIDE DEF X
<1>3. PICK S : S = Joined(r) OBVIOUS
<1>4. \A j \in 1..Len(r) : r[j] \in Seq(X) BY <1>1, ElementOfSeq
<1>5. \A j \in 1..Len(r) : S[j] \in Seq(X)
  BY <1>2, <1>3, <1>4, ConcatProperties DEF Joined
<1>6. S \in Seq(Seq(X)) /\ Len(S) = Len(r)
  <2>1. S = [j \in 1..Len(r) |-> S[j]] BY <1>3 DEF Joined
  <2> QED BY <1>1, <1>5, <2>1
<1>7. Join(r) = FlattenSeq(S) BY <1>3 DEF Join, Joined
<1> QED BY <1>1, <1>3, <1>4, <1>5, <1>6, <1>7 DEF X

\* Each row of a list is a part of its key, so that in_scope finds it.
LEMMA KeyHoldsRows ==
  ASSUME NEW r \in Asked, NEW id \in Range(r)
  PROVE  InScope(id, Join(r))
<1> DEFINE X == STRING \cup {Bar}
<1>4. <<Bar>> \in Seq(X) OBVIOUS
<1>1. /\ r \in Seq(Seq(X)) /\ Joined(r) \in Seq(Seq(X))
      /\ Len(r) \in Nat \ {0} /\ Len(Joined(r)) = Len(r)
      /\ \A i \in 1..Len(r) : r[i] \in Seq(X) /\ Joined(r)[i] \in Seq(X)
      /\ Join(r) = FlattenSeq(Joined(r))
  BY JoinedAreTexts
<1> HIDE DEF X
<1>2. PICK i \in 1..Len(r) : id = r[i] BY <1>1 DEF Range
<1>3. PICK S : S = Joined(r) OBVIOUS
<1>5. \A j \in 1..Len(r) : r[j] \in Seq(X) BY <1>1
<1>6. \A j \in 1..Len(r) : S[j] \in Seq(X) BY <1>1, <1>3
<1>7. S \in Seq(Seq(X)) /\ Len(S) = Len(r) BY <1>1, <1>3
<1>8. Join(r) = FlattenSeq(S) BY <1>1, <1>3
<1>9. FlattenSeq(S) \in Seq(X) /\ Holds(FlattenSeq(S), S[i])
  BY <1>1, <1>7, FlattenedHolds
<1>10. Holds(S[i], id)
  <2>1. Holds(id, id) BY <1>2, <1>5, HoldsItself
  <2>2. CASE i = 1 BY <1>2, <1>3, <2>1, <2>2 DEF Joined
  <2>3. CASE i # 1
    <3>1. S[i] = <<Bar>> \o id BY <1>2, <1>3, <2>3 DEF Joined
    <3> QED BY <1>2, <1>4, <1>5, <2>1, <3>1, HoldsSecond
  <2> QED BY <2>2, <2>3
<1>11. Holds(FlattenSeq(S), id)
  <2>1. PICK text \in Seq(X), part \in Seq(X) : text = FlattenSeq(S) /\ part = S[i]
    BY <1>6, <1>9
  <2> QED BY <1>2, <1>5, <1>9, <1>10, <2>1, HoldsTransitive
<1> QED BY <1>2, <1>5, <1>8, <1>9, <1>11, HoldsIsSubSeq DEF InScope

\* A list of rows as it lies in its key: the rows at their places, one after
\* another, a separator between two.
Lies(r, text, at) ==
  /\ at[1] = 0 /\ Len(text) = at[Len(r)] + Len(r[Len(r)])
  /\ \A i \in 1..Len(r) :
       /\ at[i] \in Nat /\ at[i] + Len(r[i]) <= Len(text)
       /\ \A j \in 1..Len(r[i]) : text[at[i] + j] = r[i][j]
       /\ i < Len(r) => /\ at[i + 1] = at[i] + Len(r[i]) + 1
                        /\ text[at[i + 1]] = Bar

\* The key of a list is the list laid out.
LEMMA KeyLies ==
  ASSUME NEW r \in Asked PROVE \E at : Lies(r, Join(r), at)
<1> DEFINE X == STRING \cup {Bar}
<1>1. /\ r \in Seq(Seq(X)) /\ Joined(r) \in Seq(Seq(X))
      /\ Len(r) \in Nat \ {0} /\ Len(Joined(r)) = Len(r)
      /\ \A i \in 1..Len(r) : r[i] \in Seq(X) /\ Joined(r)[i] \in Seq(X)
      /\ Join(r) = FlattenSeq(Joined(r))
  BY JoinedAreTexts
<1>2. <<Bar>> \in Seq(X) /\ Len(<<Bar>>) = 1 /\ <<Bar>>[1] = Bar OBVIOUS
<1> HIDE DEF X
<1>3. PICK S : S = Joined(r) OBVIOUS
<1>4. PICK n \in Nat \ {0} : n = Len(r) BY <1>1
<1>a. S \in Seq(Seq(X)) /\ Len(S) = n /\ Len(S) # 0 BY <1>1, <1>3, <1>4
<1>b. \E f : Flattens(f, S, X) BY <1>a, FlattenedBy
<1>5. PICK f : /\ Join(r) = f[n]
               /\ \A i \in 1..n : /\ f[i] \in Seq(X)
                                 /\ f[i] = IF i = 1 THEN S[i] ELSE f[i - 1] \o S[i]
  BY <1>1, <1>3, <1>a, <1>b DEF Flattens
<1>6. PICK e : e = [i \in 1..n |-> Len(f[i])] OBVIOUS
<1>7. \A i \in 1..n : e[i] \in Nat /\ e[i] = Len(f[i]) BY <1>5, <1>6
<1>8. /\ e[1] = Len(r[1])
      /\ \A j \in 1..Len(r[1]) : f[1][j] = r[1][j]
  BY <1>3, <1>4, <1>5, <1>6 DEF Joined
<1>9. ASSUME NEW i \in 1..n, i # 1
      PROVE  /\ e[i] = e[i - 1] + 1 + Len(r[i])
             /\ \A j \in 1..e[i - 1] : f[i][j] = f[i - 1][j]
             /\ f[i][e[i - 1] + 1] = Bar
             /\ \A j \in 1..Len(r[i]) : f[i][e[i - 1] + 1 + j] = r[i][j]
  <2>1. PICK p \in 1..n : p = i - 1 BY <1>9
  <2>2. PICK b \in Seq(X) : b = <<Bar>> BY <1>2
  <2>3. PICK u \in Seq(X) : u = f[p] BY <1>5
  <2>4. PICK v \in Seq(X) : v = r[i] BY <1>1, <1>4
  <2>5. f[i] = u \o (b \o v) /\ Len(b) = 1 /\ b[1] = Bar
    BY <1>2, <1>3, <1>4, <1>5, <1>9, <2>1, <2>2, <2>3, <2>4 DEF Joined
  <2>6. /\ b \o v \in Seq(X) /\ Len(b \o v) = 1 + Len(v)
        /\ \A j \in 1..1 + Len(v) : (b \o v)[j] = IF j <= 1 THEN b[j] ELSE v[j - 1]
    <3>1. /\ b \o v \in Seq(X) /\ Len(b \o v) = Len(b) + Len(v)
          /\ \A j \in 1..Len(b) + Len(v) : (b \o v)[j] = IF j <= Len(b) THEN b[j] ELSE v[j - Len(b)]
      BY ConcatProperties
    <3>2. PICK w : w = b \o v OBVIOUS
    <3>3. PICK m : m = Len(b) OBVIOUS
    <3>4. m = 1 BY <2>5, <3>3
    <3> QED BY <3>1, <3>2, <3>3, <3>4
  <2>7. PICK w \in Seq(X) : w = b \o v BY <2>6
  <2>8. /\ Len(u \o w) = Len(u) + Len(w)
        /\ \A j \in 1..Len(u) + Len(w) : (u \o w)[j] = IF j <= Len(u) THEN u[j] ELSE w[j - Len(u)]
    BY ConcatProperties
  <2>9. PICK g : g = f[i] OBVIOUS
  <2>10. /\ Len(g) = Len(u) + 1 + Len(v)
         /\ \A j \in 1..Len(u) + 1 + Len(v) : g[j] = IF j <= Len(u) THEN u[j] ELSE w[j - Len(u)]
    <3>1. g = u \o w BY <2>5, <2>7, <2>9
    <3>2. Len(w) = 1 + Len(v) BY <2>6, <2>7
    <3>3. Len(u) + Len(w) = Len(u) + 1 + Len(v) BY <3>2
    <3> QED BY <2>8, <3>1, <3>3
  <2>11. \A j \in 1..Len(u) : g[j] = u[j] BY <2>10
  <2>12. g[Len(u) + 1] = Bar
    <3>1. g[Len(u) + 1] = w[1] BY <2>10
    <3> QED BY <2>5, <2>6, <2>7, <3>1
  <2>13. ASSUME NEW j \in 1..Len(v) PROVE g[Len(u) + 1 + j] = v[j]
    <3>1. Len(u) + 1 + j \in 1..Len(u) + 1 + Len(v) /\ ~(Len(u) + 1 + j <= Len(u)) OBVIOUS
    <3>2. Len(u) + 1 + j - Len(u) = 1 + j OBVIOUS
    <3>3. g[Len(u) + 1 + j] = w[1 + j] BY <2>10, <3>1, <3>2
    <3>4. w[1 + j] = v[(1 + j) - 1] BY <2>6, <2>7
    <3>5. (1 + j) - 1 = j OBVIOUS
    <3> QED BY <3>3, <3>4, <3>5
  <2> QED BY <1>7, <2>1, <2>3, <2>4, <2>9, <2>10, <2>11, <2>12, <2>13
\* each text is a beginning of every later one
<1> DEFINE Begins(i, k) == e[i] <= e[k] /\ \A j \in 1..e[i] : f[k][j] = f[i][j]
           Bad == {k \in 1..n : \E i \in 1..k : ~Begins(i, k)}
<1>10. Bad = {}
  <2> SUFFICES ASSUME Bad # {} PROVE FALSE
    OBVIOUS
  <2>1. PICK k \in Bad : \A h \in Bad : k <= h
    <3>1. Bad \in SUBSET Nat OBVIOUS
    <3> QED BY <3>1, LeastOf
  <2>2. PICK i \in 1..k : ~Begins(i, k) BY <2>1
  <2>3. k \in 1..n /\ i # k BY <1>7, <2>1, <2>2
  <2>4. PICK p \in 1..n : p = k - 1 BY <2>2, <2>3
  <2>5. i \in 1..p /\ k # 1 BY <2>2, <2>3, <2>4
  <2>6. p \notin Bad BY <2>1, <2>3, <2>4
  <2>7. Begins(i, p) BY <2>5, <2>6
  <2>8. e[k] = e[p] + 1 + Len(r[k]) /\ \A j \in 1..e[p] : f[k][j] = f[p][j]
    BY <1>9, <2>3, <2>4, <2>5
  <2>9. e[i] \in Nat /\ e[p] \in Nat /\ Len(r[k]) \in Nat
    <3>1. r[k] \in Seq(X) BY <1>1, <1>4, <2>3
    <3> QED BY <1>7, <2>3, <2>4, <2>5, <3>1
  <2>10. e[i] <= e[k] BY <2>7, <2>8, <2>9
  <2>11. \A j \in 1..e[i] : f[k][j] = f[i][j] BY <2>7, <2>8, <2>9
  <2> QED BY <2>2, <2>10, <2>11
<1>11. \A i \in 1..n : Begins(i, n)
  <2>1. n \in 1..n OBVIOUS
  <2> QED BY <1>10, <2>1
<1> HIDE DEF Bad
<1>12. PICK at : at = [i \in 1..n |-> IF i = 1 THEN 0 ELSE e[i - 1] + 1] OBVIOUS
<1>13. ASSUME NEW i \in 1..n
       PROVE  /\ at[i] \in Nat /\ at[i] + Len(r[i]) = e[i]
              /\ \A j \in 1..Len(r[i]) : f[i][at[i] + j] = r[i][j]
              /\ i # 1 => f[i][at[i]] = Bar
  <2>1. Len(r[i]) \in Nat BY <1>1, <1>4
  <2>2. CASE i = 1
    <3>1. at[i] = 0 BY <1>12, <2>2
    <3>2. \A j \in 1..Len(r[i]) : 0 + j = j BY <2>1
    <3> QED BY <1>8, <2>1, <2>2, <3>1, <3>2
  <2>3. CASE i # 1
    <3>1. i - 1 \in 1..n BY <2>3
    <3>2. at[i] = e[i - 1] + 1 /\ e[i - 1] \in Nat BY <1>7, <1>12, <2>3, <3>1
    <3> QED BY <1>9, <2>1, <2>3, <3>2
  <2> QED BY <2>2, <2>3
<1>14. PICK text : text = f[n] OBVIOUS
<1>15. Len(text) = e[n] /\ n \in 1..n BY <1>7, <1>14
<1>16. ASSUME NEW i \in 1..n
       PROVE  /\ at[i] \in Nat /\ at[i] + Len(r[i]) <= Len(text)
              /\ \A j \in 1..Len(r[i]) : text[at[i] + j] = r[i][j]
              /\ i < n => at[i + 1] = at[i] + Len(r[i]) + 1 /\ text[at[i + 1]] = Bar
  <2>0. Len(r[i]) \in Nat /\ e[i] \in Nat BY <1>1, <1>4, <1>7
  <2>1. at[i] \in Nat /\ at[i] + Len(r[i]) = e[i] /\ e[i] <= Len(text)
    BY <1>11, <1>13, <1>15
  <2>2. \A j \in 1..Len(r[i]) : at[i] + j \in 1..e[i] BY <2>0, <2>1
  <2>3. \A j \in 1..Len(r[i]) : text[at[i] + j] = r[i][j]
    <3> SUFFICES ASSUME NEW j \in 1..Len(r[i]) PROVE text[at[i] + j] = r[i][j]
      OBVIOUS
    <3>1. PICK m \in 1..e[i] : m = at[i] + j BY <2>2
    <3>2. text[m] = f[i][m] BY <1>11, <1>14
    <3> QED BY <1>13, <3>1, <3>2
  <2>4. ASSUME i < n PROVE at[i + 1] = at[i] + Len(r[i]) + 1 /\ text[at[i + 1]] = Bar
    <3>1. PICK k \in 1..n : k = i + 1 BY <2>4
    <3>2. k # 1 /\ k - 1 = i BY <3>1
    <3>3. at[k] = e[i] + 1 BY <1>12, <3>2
    <3>4. f[k][at[k]] = Bar /\ at[k] + Len(r[k]) = e[k] BY <1>13, <3>2
    <3>5. Len(r[k]) \in Nat /\ e[k] \in Nat BY <1>1, <1>4, <1>7
    <3>6. at[k] \in 1..e[k] BY <2>0, <3>3, <3>4, <3>5
    <3>7. text[at[k]] = Bar BY <1>11, <1>14, <3>4, <3>6
    <3> QED BY <2>1, <3>1, <3>3, <3>7
  <2> QED BY <2>0, <2>1, <2>3, <2>4
<1>17. at[1] = 0 BY <1>12
<1>18. Len(text) = at[n] + Len(r[n]) BY <1>13, <1>15
<1>19. Lies(r, text, at) BY <1>4, <1>16, <1>17, <1>18 DEF Lies
<1> QED BY <1>5, <1>14, <1>19

\* Where two lists start a row at the same place of the same text and no row
\* holds the separator, they have the same row there, and both end or go on.
LEMMA SameRowHere ==
  ASSUME NEW r \in Asked, NEW s \in Asked, NEW text, NEW a, NEW b,
         Plain(r), Plain(s), Lies(r, text, a), Lies(s, text, b),
         NEW i \in 1..Len(r), i \in 1..Len(s), a[i] = b[i],
         Len(r[i]) <= Len(s[i])
  PROVE  r[i] = s[i] /\ (i < Len(r) => i < Len(s) /\ a[i + 1] = b[i + 1])
                     /\ (i < Len(s) => i < Len(r))
<1> DEFINE X == STRING \cup {Bar}
<1>1. /\ \A j \in 1..Len(r) : r[j] \in Seq(X)
      /\ \A j \in 1..Len(s) : s[j] \in Seq(X)
      /\ Len(r) \in Nat /\ Len(s) \in Nat
  BY JoinedAreTexts
<1> HIDE DEF X
<1>2. PICK x \in Seq(X) : x = r[i] BY <1>1
<1>3. PICK y \in Seq(X) : y = s[i] BY <1>1
<1>4. PICK p \in Nat : p = a[i] BY DEF Lies
<1>7. Len(text) \in Nat
  <2>1. PICK n \in 1..Len(r) : n = Len(r) BY <1>1
  <2>2. a[n] \in Nat /\ Len(text) = a[n] + Len(r[n]) BY <2>1 DEF Lies
  <2>3. Len(r[n]) \in Nat BY <1>1
  <2> QED BY <2>2, <2>3
<1>5. /\ p + Len(x) <= Len(text) /\ \A j \in 1..Len(x) : text[p + j] = x[j]
      /\ i < Len(r) => a[i + 1] = p + Len(x) + 1 /\ text[p + Len(x) + 1] = Bar
      /\ i = Len(r) => Len(text) = p + Len(x)
      /\ i < Len(r) => p + Len(x) + 1 <= Len(text)
  <2>1. ASSUME i < Len(r) PROVE p + Len(x) + 1 <= Len(text)
    <3>1. PICK k \in 1..Len(r) : k = i + 1 BY <1>1, <2>1
    <3>2. a[k] + Len(r[k]) <= Len(text) BY DEF Lies
    <3>3. a[i + 1] = a[i] + Len(r[i]) + 1 BY <2>1 DEF Lies
    <3>4. a[k] = p + Len(x) + 1 BY <1>2, <1>4, <3>1, <3>3
    <3>5. Len(r[k]) \in Nat BY <1>1
    <3> QED BY <1>2, <1>4, <1>7, <3>2, <3>4, <3>5
  <2>2. i < Len(r) => a[i + 1] = p + Len(x) + 1 /\ text[p + Len(x) + 1] = Bar
    <3>1. i < Len(r) => a[i + 1] = p + Len(x) + 1 /\ text[a[i + 1]] = Bar
      BY <1>2, <1>4 DEF Lies
    <3> QED BY <3>1
  <2> QED BY <1>2, <1>4, <2>1, <2>2 DEF Lies
<1>6. /\ p + Len(y) <= Len(text) /\ \A j \in 1..Len(y) : text[p + j] = y[j]
      /\ i < Len(s) => b[i + 1] = p + Len(y) + 1
      /\ i = Len(s) => Len(text) = p + Len(y)
      /\ i < Len(s) => p + Len(y) + 1 <= Len(text)
  <2>1. ASSUME i < Len(s) PROVE p + Len(y) + 1 <= Len(text)
    <3>1. PICK k \in 1..Len(s) : k = i + 1 BY <1>1, <2>1
    <3>2. b[k] + Len(s[k]) <= Len(text) BY DEF Lies
    <3>3. b[i + 1] = b[i] + Len(s[i]) + 1 BY <2>1 DEF Lies
    <3>4. b[k] = p + Len(y) + 1 BY <1>3, <1>4, <3>1, <3>3
    <3>5. Len(s[k]) \in Nat BY <1>1
    <3> QED BY <1>3, <1>4, <1>7, <3>2, <3>4, <3>5
  <2> QED BY <1>3, <1>4, <2>1 DEF Lies
<1>8. Len(x) = Len(y)
  <2> SUFFICES ASSUME Len(x) < Len(y) PROVE FALSE BY <1>2, <1>3
  <2>1. PICK j \in 1..Len(y) : j = Len(x) + 1 OBVIOUS
  <2>2. y[j] # Bar
    <3>1. ~Contains(y, Bar) BY <1>3 DEF Plain
    <3> QED BY <2>1, <3>1 DEF Contains
  <2>3. text[p + j] = y[j] BY <1>6, <2>1
  <2>4. p + j = p + Len(x) + 1 BY <2>1
  <2>5. i < Len(r) => FALSE BY <1>5, <2>2, <2>3, <2>4
  <2>6. i = Len(r) => FALSE BY <1>5, <1>6, <1>7
  <2> QED BY <1>1, <2>5, <2>6
<1>9. x = y
  <2>1. \A j \in 1..Len(x) : x[j] = y[j] BY <1>5, <1>6, <1>8
  <2> QED BY <1>8, <2>1, SeqEqual
<1>10. i < Len(r) => i < Len(s) BY <1>1, <1>5, <1>6, <1>7, <1>8
<1>11. i < Len(s) => i < Len(r) BY <1>1, <1>5, <1>6, <1>7, <1>8
<1> QED BY <1>2, <1>3, <1>5, <1>6, <1>8, <1>9, <1>10, <1>11

\* Two lists without the separator that are joined to the same text are the same.
LEMMA PlainKeysTellRowsApart ==
  ASSUME NEW r \in Asked, NEW s \in Asked, Plain(r), Plain(s), Join(r) = Join(s)
  PROVE  r = s
<1>1. PICK text : text = Join(r) OBVIOUS
<1>2. PICK a : Lies(r, text, a) BY <1>1, KeyLies
<1>3. PICK b : Lies(s, text, b) BY <1>1, KeyLies
<1>4. /\ r \in Seq(Seq(STRING)) /\ s \in Seq(Seq(STRING))
      /\ Len(r) \in Nat \ {0} /\ Len(s) \in Nat \ {0}
  BY AskedAreTexts
<1>5. ASSUME NEW i \in 1..Len(r), i \in 1..Len(s), a[i] = b[i]
      PROVE  /\ r[i] = s[i] /\ (i < Len(r) <=> i < Len(s))
             /\ i < Len(r) => a[i + 1] = b[i + 1]
  <2>1. Len(r[i]) \in Nat /\ Len(s[i]) \in Nat
    <3>1. r[i] \in Seq(STRING) /\ s[i] \in Seq(STRING) BY <1>4, <1>5, ElementOfSeq
    <3> QED BY <3>1
  <2>2. CASE Len(r[i]) <= Len(s[i]) BY <1>2, <1>3, <1>5, <2>2, SameRowHere
  <2>3. CASE Len(s[i]) <= Len(r[i]) BY <1>2, <1>3, <1>5, <2>3, SameRowHere
  <2> QED BY <2>1, <2>2, <2>3
<1> DEFINE Bad == {i \in 1..Len(r) : ~(i \in 1..Len(s) /\ a[i] = b[i])}
<1>6. Bad = {}
  <2> SUFFICES ASSUME Bad # {} PROVE FALSE
    OBVIOUS
  <2>1. PICK n \in Bad : \A k \in Bad : n <= k
    <3>1. Bad \in SUBSET Nat OBVIOUS
    <3> QED BY <3>1, LeastOf
  <2>2. n \in 1..Len(r) /\ ~(n \in 1..Len(s) /\ a[n] = b[n]) BY <2>1
  <2>3. n # 1 BY <1>2, <1>3, <1>4, <2>2 DEF Lies
  <2>4. PICK p \in 1..Len(r) : p = n - 1 BY <1>4, <2>2, <2>3
  <2>5. p \notin Bad BY <2>1, <2>2, <2>4
  <2>6. p \in 1..Len(s) /\ a[p] = b[p] BY <2>5
  <2>7. p < Len(r) /\ p + 1 = n BY <1>4, <2>2, <2>4
  <2>8. p < Len(s) /\ a[p + 1] = b[p + 1] BY <1>5, <2>6, <2>7
  <2>9. n \in 1..Len(s) BY <1>4, <2>2, <2>7, <2>8
  <2> QED BY <2>2, <2>7, <2>8, <2>9
<1>7. \A i \in 1..Len(r) : i \in 1..Len(s) /\ r[i] = s[i] BY <1>5, <1>6
<1>8. Len(r) = Len(s)
  <2>1. PICK n \in 1..Len(r) : n = Len(r) BY <1>4
  <2>2. n \in 1..Len(s) /\ a[n] = b[n] BY <1>6
  <2>4. n < Len(r) <=> n < Len(s) BY <1>5, <2>2
  <2>3. ~(n < Len(s)) BY <1>4, <2>1, <2>4
  <2> QED BY <1>4, <2>1, <2>2, <2>3
<1> QED BY <1>4, <1>7, <1>8, SeqEqual
-----------------------------------------------------------------------------
(***************************************************************************)
(* Warm starts.                                                            *)
(***************************************************************************)

\* A warm start that was saved under the key of its rows, and is still of use.
Saved(k, w, topo) ==
  /\ w = [rows |-> w.rows, topo |-> topo, void |-> FALSE]
  /\ w.rows \in Asked /\ k = Join(w.rows)

AllSaved(f, topo) == \A k \in DOMAIN f : Saved(k, f[k], topo)

\* The warm start a solve was given is of rows with the same key.
GivenFits == used # NotUsed /\ used.warm # None =>
  /\ used.rows \in Asked /\ used.warm.rows \in Asked
  /\ Join(used.warm.rows) = Join(used.rows) /\ used.warm.topo = used.topo

\* The inductive invariant, beside BatchInv.
WarmInv == AllSaved(warm, tmpl) /\ GivenFits

\* Forgetting keeps what is saved.
LEMMA WithoutKeeps ==
  ASSUME NEW f, NEW topo, AllSaved(f, topo), NEW keys
  PROVE  AllSaved(Without(f, keys), topo) /\ DOMAIN Without(f, keys) = DOMAIN f \ keys
  BY DEF AllSaved, Without

\* Marking what is not there marks nothing.
LEMMA VoidKeeps ==
  ASSUME NEW f, NEW topo, AllSaved(f, topo), NEW keys, keys \cap DOMAIN f = {}
  PROVE  AllSaved(Void(f, keys), topo)
<1>1. PICK g : g = Void(f, keys) OBVIOUS
<1>2. DOMAIN g = DOMAIN f /\ \A k \in DOMAIN f : g[k] = f[k]
  BY <1>1 DEF Void
<1> QED BY <1>1, <1>2 DEF AllSaved

\* Saving under the rows' own key keeps what is saved.
LEMMA WithKeeps ==
  ASSUME NEW f, NEW topo, AllSaved(f, topo), NEW k, NEW w, Saved(k, w, topo)
  PROVE  AllSaved(With(f, k, w), topo)
<1>1. PICK g : g = With(f, k, w) OBVIOUS
<1>2. DOMAIN g = DOMAIN f \cup {k} /\ \A x \in DOMAIN g : g[x] = IF x = k THEN w ELSE f[x]
  BY <1>1 DEF With
<1> QED BY <1>1, <1>2 DEF AllSaved

\* A solve forgets what overlaps, drops its own warm start if it fails and saves
\* the new one under its key.
LEMMA SolveSaves ==
  ASSUME BatchInv, WarmInv, NEW t \in Threads, Solve(t)
  PROVE  WarmInv'
<1>1. PICK c : c = call[t] OBVIOUS
<1>2. c.step = "solve" /\ Underway(c) /\ tmpl' = tmpl
  BY <1>1, CallerFits DEF Solve, Calling
<1>3. PICK rs : rs = Rows(t) OBVIOUS
<1>4. rs \in Asked
  <2>1. CASE c.mode = "batch" BY <1>1, <1>2, <1>3, <2>1 DEF Rows, Underway, Asked
  <2>2. CASE c.mode # "batch"
    <3>1. c.rows \in RowIds /\ DOMAIN c.rows = 1..Len(c.rows) /\ c.row \in 1..Len(c.rows)
      BY <1>2, RowIdsAreRows DEF Underway
    <3>2. PICK id : id = c.rows[c.row] OBVIOUS
    <3>3. id \in Range(c.rows) BY <3>1, <3>2 DEF Range
    <3>4. rs = <<id>> BY <1>1, <1>3, <2>2, <3>2 DEF Rows
    <3> QED BY <3>1, <3>3, <3>4 DEF Asked
  <2> QED BY <2>1, <2>2
<1>5. PICK k : k = Join(rs) OBVIOUS
<1>6. PICK f : f = warm OBVIOUS
<1>7. AllSaved(f, tmpl) BY <1>6 DEF WarmInv
<1>8. PICK u : u = used' OBVIOUS
<1>9. PICK given : given = IF k \in DOMAIN f THEN f[k] ELSE None OBVIOUS
<1>10. u.rows = rs /\ u.topo = c.topo /\ u.warm = given
  BY <1>1, <1>3, <1>5, <1>6, <1>8, <1>9 DEF Solve
<1>11. GivenFits'
  <2>1. c.topo = tmpl BY <1>2 DEF Underway
  <2>2. ASSUME given # None
        PROVE  given.rows \in Asked /\ Join(given.rows) = k /\ given.topo = tmpl
    <3>1. Saved(k, given, tmpl) BY <1>7, <1>9, <2>2 DEF AllSaved
    <3> QED BY <3>1 DEF Saved
  <2> QED BY <1>4, <1>5, <1>8, <1>10, <2>1, <2>2 DEF GivenFits
<1>12. PICK over : over = Overlapping(t, k) OBVIOUS
<1>13. PICK new : new = [rows |-> rs, topo |-> tmpl, void |-> FALSE] OBVIOUS
<1>14. \/ warm' = Void(Without(f, over \cup {k}), {k})
       \/ warm' = With(Without(f, over), k, new)
       \/ warm' = Without(f, over \cup {k})
  BY <1>3, <1>5, <1>6, <1>12, <1>13 DEF Solve, AfterFailure
<1>15. AllSaved(warm', tmpl)
  <2>1. CASE warm' = Void(Without(f, over \cup {k}), {k})
    <3>1. PICK g : g = Without(f, over \cup {k}) OBVIOUS
    <3>2. AllSaved(g, tmpl) /\ DOMAIN g = DOMAIN f \ (over \cup {k})
      BY <1>7, <3>1, WithoutKeeps
    <3>3. {k} \cap DOMAIN g = {} BY <3>2
    <3> QED BY <2>1, <3>1, <3>2, <3>3, VoidKeeps
  <2>2. CASE warm' = With(Without(f, over), k, new)
    <3>1. PICK g : g = Without(f, over) OBVIOUS
    <3>2. AllSaved(g, tmpl) BY <1>7, <3>1, WithoutKeeps
    <3>3. Saved(k, new, tmpl) BY <1>4, <1>5, <1>13 DEF Saved
    <3> QED BY <2>2, <3>1, <3>2, <3>3, WithKeeps
  <2>3. CASE warm' = Without(f, over \cup {k}) BY <1>7, <2>3, WithoutKeeps
  <2> QED BY <1>14, <2>1, <2>2, <2>3
<1> QED BY <1>2, <1>11, <1>15 DEF WarmInv

\* A reset in a scope forgets every list of rows that has the row: each of its
\* keys holds the row's name.
LEMMA ResetSaves == ASSUME WarmInv, ResetState PROVE WarmInv'
<1>1. GivenFits' /\ tmpl' = tmpl BY DEF ResetState, GivenFits
<1>2. CASE warm' = <<>>
  <2>1. AllSaved(warm', tmpl) BY <1>2 DEF AllSaved
  <2> QED BY <1>1, <2>1 DEF WarmInv
<1>3. CASE \E scope \in Ids :
             LET rest == Without(warm, {k \in DOMAIN warm : InScope(scope, k)})
             IN  warm' = Void(rest, {k \in DOMAIN rest : scope \in Range(rest[k].rows)})
  <2>1. PICK scope \in Ids :
          LET rest == Without(warm, {k \in DOMAIN warm : InScope(scope, k)})
          IN  warm' = Void(rest, {k \in DOMAIN rest : scope \in Range(rest[k].rows)})
    BY <1>3
  <2>2. PICK f : f = warm OBVIOUS
  <2>3. PICK named : named = {k \in DOMAIN f : InScope(scope, k)} OBVIOUS
  <2>4. PICK rest : rest = Without(f, named) OBVIOUS
  <2>5. PICK keys : keys = {k \in DOMAIN rest : scope \in Range(rest[k].rows)} OBVIOUS
  <2>6. warm' = Void(rest, keys) BY <2>1, <2>2, <2>3, <2>4, <2>5
  <2>7. AllSaved(rest, tmpl) /\ DOMAIN rest = DOMAIN f \ named
    BY <2>2, <2>4, WithoutKeeps DEF WarmInv
  <2>8. ASSUME NEW k \in DOMAIN rest PROVE scope \notin Range(rest[k].rows)
    <3>1. Saved(k, rest[k], tmpl) BY <2>7 DEF AllSaved
    <3>2. PICK r \in Asked : r = rest[k].rows /\ k = Join(r) BY <3>1 DEF Saved
    <3>3. ~InScope(scope, k) BY <2>3, <2>7
    <3> QED BY <3>2, <3>3, KeyHoldsRows
  <2>9. keys \cap DOMAIN rest = {} BY <2>5, <2>8
  <2>10. AllSaved(warm', tmpl) BY <2>6, <2>7, <2>9, VoidKeeps
  <2> QED BY <1>1, <2>10 DEF WarmInv
<1> QED BY <1>2, <1>3 DEF ResetState

\* Every step keeps what is saved.
LEMMA WarmKeeps ==
  ASSUME BatchInv, WarmInv, [BatchNext]_batchVars
  PROVE  WarmInv'
<1>1. ASSUME NEW t \in Threads, ProjectBatch(t) PROVE WarmInv'
  <2>1. CASE Solve(t) BY <2>1, SolveSaves
  <2>2. CASE BeginBatch(t) \/ Ensure(t) \/ SetUp(t) \/ Verify(t) \/ Return(t)
    <3>1. warm' = warm /\ tmpl' = tmpl
      BY <2>2 DEF BeginBatch, Ensure, SetUp, Verify, Return
    <3>2. used' \in {used, NotUsed}
      BY <2>2 DEF BeginBatch, Ensure, SetUp, Verify, Return
    <3> QED BY <3>1, <3>2 DEF WarmInv, GivenFits
  <2> QED BY <1>1, <2>1, <2>2 DEF ProjectBatch
<1>2. CASE ResetState BY <1>2, ResetSaves
<1>3. CASE BindSpec
  <2>1. warm' = <<>> /\ used' = NotUsed BY <1>3 DEF BindSpec, Forgotten
  <2>2. AllSaved(warm', tmpl') BY <2>1 DEF AllSaved
  <2> QED BY <2>1, <2>2 DEF WarmInv, GivenFits
<1>4. CASE ChangeOptions BY <1>4 DEF ChangeOptions, WarmInv, GivenFits
<1>5. CASE UNCHANGED batchVars BY <1>5 DEF batchVars, WarmInv, GivenFits
<1> QED BY <1>1, <1>2, <1>3, <1>4, <1>5 DEF BatchNext

\* What is kept in _warm_by_row is saved under the key of its rows.
THEOREM WarmInvariant == ASSUME Confined PROVE BatchSpec => []WarmInv
<1>1. BatchInit => WarmInv BY DEF BatchInit, WarmInv, AllSaved, GivenFits
<1>2. BatchInv /\ WarmInv /\ [BatchNext]_batchVars => WarmInv' BY WarmKeeps
<1> QED BY <1>1, <1>2, BatchInvariant, PTL DEF BatchSpec

\* Whatever the names are, a solve starts from a solution of rows with the same
\* joined key, of the present topology: of the very same rows, unless a name holds
\* the separator.
THEOREM WarmStartsFitRows ==
  ASSUME Confined PROVE BatchSpec => []WarmStartFitsRows
<1>1. WarmInv => WarmStartFitsRows
  BY PlainKeysTellRowsApart DEF WarmInv, GivenFits, WarmStartFitsRows
<1> QED BY <1>1, WarmInvariant, PTL

\* For one owner, a solve is asked for with what fits its rows in every respect:
\* the solver, its setup and the warm start.
THEOREM RowsAreServed ==
  ASSUME Confined PROVE BatchSpec => []RowsAndStartsFit
  BY RowsAreSolvedAsAsked, WarmStartsFitRows, PTL DEF RowsAndStartsFit

\* Whatever the names are, no warm start is kept that reset_state(scope_id) was to
\* forget, or that a failed solve was given.
THEOREM VoidWarmStartsAreForgotten ==
  ASSUME Confined PROVE BatchSpec => []VoidIsForgotten
<1>1. WarmInv => VoidIsForgotten
  BY DEF WarmInv, AllSaved, Saved, VoidIsForgotten
<1> QED BY <1>1, WarmInvariant, PTL
=============================================================================
