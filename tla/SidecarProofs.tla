----------------------------- MODULE SidecarProofs -----------------------------
(***************************************************************************)
(* Proofs about Sidecar for every set of threads, every set of restart     *)
(* limits and every number of calls and of explicit starts.                *)
(***************************************************************************)
EXTENDS Sidecar, FiniteSetTheorems, SequenceTheorems, TLAPS

\* What the two pipes hold after a message was written, read or dropped.
LEMMA QueuesTyped ==
  /\ <<>> \in Seq(0..MaxCalls) /\ <<>> \in Seq(Messages)
  /\ TypeOK => /\ \A i \in 0..MaxCalls : Append(inbox, i) \in Seq(0..MaxCalls)
               /\ \A m \in Messages : Append(outbox, m) \in Seq(Messages)
               /\ inbox # <<>> => /\ Head(inbox) \in 0..MaxCalls
                                  /\ Tail(inbox) \in Seq(0..MaxCalls)
               /\ outbox # <<>> => /\ Head(outbox) \in Messages
                                   /\ Tail(outbox) \in Seq(Messages)
<1>1. <<>> \in Seq(0..MaxCalls) /\ <<>> \in Seq(Messages)
  BY EmptySeq
<1>2. TypeOK => inbox \in Seq(0..MaxCalls) /\ outbox \in Seq(Messages)
  BY DEF TypeOK
<1> QED
  BY <1>1, <1>2, HeadTailProperties, AppendProperties

\* A call that ends leaves its thread idle, with an ending.
LEMMA EndTyped ==
  ASSUME TypeOK, NEW t \in Threads,
         NEW how \in {"worker", "public", "raised", "escaped"},
         NEW answer \in 0..MaxCalls, End(t, how, answer)
  PROVE  /\ pc' \in [Threads -> Places]
         /\ outcome' \in [Threads -> [how : Endings, answer : 0..MaxCalls]]
<1>1. [how |-> how, answer |-> answer] \in [how : Endings, answer : 0..MaxCalls]
  BY DEF Endings
<1> QED
  BY <1>1 DEF TypeOK, End, Goto, Places

\* The same for an ending without an answer.
LEMMA RaiseTyped ==
  ASSUME TypeOK, NEW t \in Threads,
         NEW how \in {"raised", "escaped"}, End(t, how, 0)
  PROVE  /\ pc' \in [Threads -> Places]
         /\ outcome' \in [Threads -> [how : Endings, answer : 0..MaxCalls]]
<1>1. [how |-> how, answer |-> 0] \in [how : Endings, answer : 0..MaxCalls]
  BY ConfigAssumption DEF Endings
<1> QED
  BY <1>1 DEF TypeOK, End, Goto, Places

\* Whatever the kind, a message with an id of a call, or 0, is a message.
LEMMA MsgTyped ==
  ASSUME NEW k \in Kinds, NEW i \in 0..MaxCalls
  PROVE  Msg(k, i) \in Messages
BY DEF Msg, Messages

\* A reply of the worker is typed.
LEMMA ReplyTyped ==
  ASSUME TypeOK, inbox # <<>>, NEW m \in Messages, Reply(m)
  PROVE  inbox' \in Seq(0..MaxCalls) /\ outbox' \in Seq(Messages)
BY QueuesTyped DEF Reply

\* A read that meets the end of the stream, or gives up, keeps the types.
LEMMA NoLineTyped ==
  ASSUME TypeOK, AtEof \/ GaveUp
  PROVE  /\ inbox' \in Seq(0..MaxCalls) /\ outbox' \in Seq(Messages)
         /\ helloSeen' \in BOOLEAN /\ strays' \in Nat /\ torn' \in BOOLEAN
<1>1. inbox' = inbox /\ outbox' = outbox /\ helloSeen' = helloSeen /\ torn' = FALSE
  BY DEF AtEof, GaveUp
<1>2. strays' \in Nat
  BY DEF AtEof, GaveUp, TypeOK
<1> QED
  BY <1>1, <1>2 DEF TypeOK

\* Whatever a reader gets, the pipe it read stays typed.
LEMMA LineTyped ==
  ASSUME TypeOK, NEW m, GotLine(m)
  PROVE  /\ inbox' \in Seq(0..MaxCalls) /\ outbox' \in Seq(Messages)
         /\ helloSeen' \in BOOLEAN /\ strays' \in Nat /\ torn' \in BOOLEAN
<1>1. inbox' = inbox /\ outbox' = Tail(outbox) /\ outbox # <<>>
  BY DEF GotLine
<1>2. helloSeen' = helloSeen /\ strays' = strays /\ torn' = FALSE
  BY DEF GotLine
<1>3. inbox' \in Seq(0..MaxCalls) /\ outbox' \in Seq(Messages)
  BY <1>1, QueuesTyped DEF TypeOK
<1> QED
  BY <1>2, <1>3 DEF TypeOK

\* What start() leaves behind for its caller is well typed.
LEMMA AfterStartTyped ==
  ASSUME TypeOK, NEW t \in Threads, NEW ok \in BOOLEAN, AfterStart(t, ok)
  PROVE  /\ lock' \in Threads \cup {NoThread}
         /\ pc' \in [Threads -> Places]
         /\ outcome' = outcome
  BY DEF AfterStart, TypeOK, Goto, Fail, Places

\* Every step keeps the variables in their types.
LEMMA TypeCorrect == Spec => []TypeOK
<1>1. Init => TypeOK
  <2> SUFFICES ASSUME Init PROVE TypeOK
    OBVIOUS
  <2>1. inbox \in Seq(0..MaxCalls) /\ outbox \in Seq(Messages)
    BY QueuesTyped DEF Init
  <2>2. outcome \in [Threads -> [how : Endings, answer : 0..MaxCalls]]
    BY ConfigAssumption DEF Init, Endings
  <2>4. /\ started \in BOOLEAN /\ helloSeen \in BOOLEAN /\ torn \in BOOLEAN
        /\ lock = NoThread /\ proc = "none" /\ config \in Configs
    BY Zenon DEF Init
  <2>5. /\ restarts \in Nat /\ strays \in Nat /\ spawned \in Nat
        /\ calls \in 0..MaxCalls /\ opens \in 0..MaxOpens
    BY ConfigAssumption DEF Init
  <2>6. /\ pc \in [Threads -> Places]
        /\ goal \in [Threads -> {"solve", "restart", "open"}]
        /\ req \in [Threads -> 0..MaxCalls]
    BY ConfigAssumption DEF Init, Places
  <2> QED
    BY <2>1, <2>2, <2>4, <2>5, <2>6, Zenon DEF TypeOK
<1>2. TypeOK /\ [Next]_vars => TypeOK'
  <2> SUFFICES ASSUME TypeOK, [Next]_vars PROVE TypeOK'
    OBVIOUS
  <2> USE ConfigAssumption DEF TypeOK, pipeVars, Goto, Places
  <2>1. ASSUME NEW t \in Threads, Call(t) PROVE TypeOK'
    BY <2>1 DEF Call, Endings
  <2>2. ASSUME NEW t \in Threads, FindRunning(t) PROVE TypeOK'
    BY <2>2 DEF FindRunning
  <2>3. ASSUME NEW t \in Threads, FindBudgetSpent(t) PROVE TypeOK'
    BY <2>3 DEF FindBudgetSpent, Fail
  <2>4. ASSUME NEW t \in Threads, FindStopped(t) PROVE TypeOK'
    BY <2>4 DEF FindStopped
  <2>5. ASSUME NEW t \in Threads, Open(t) PROVE TypeOK'
    BY <2>5 DEF Open
  <2>6. ASSUME NEW t \in Threads, Close(t) PROVE TypeOK'
    BY <2>6 DEF Close
  <2>26. ASSUME NEW t \in Threads, Closed(t) PROVE TypeOK'
    <3>1. inbox' \in Seq(0..MaxCalls) /\ outbox' \in Seq(Messages)
      BY <2>26, QueuesTyped DEF Closed, Forget
    <3>3. /\ proc' = "none" /\ started' = FALSE /\ helloSeen' = FALSE
          /\ strays' = 0 /\ torn' = FALSE /\ lock' = NoThread
          /\ pc' \in [Threads -> Places]
          /\ UNCHANGED <<restarts, calls, opens, goal, req, outcome, spawned, config>>
      BY <2>26 DEF Closed, Forget
    <3> QED
      BY <3>1, <3>3
  <2>7. ASSUME NEW t \in Threads, Spawn(t) PROVE TypeOK'
    <3>1. inbox' \in Seq(0..MaxCalls)
      BY <2>7 DEF Spawn
    <3>2. outbox' \in Seq(Messages)
      BY <2>7, QueuesTyped DEF Spawn
    <3>4. /\ proc' = "alive" /\ started' = FALSE /\ helloSeen' = FALSE
          /\ strays' = 0 /\ torn' = FALSE /\ spawned' \in Nat
          /\ pc' \in [Threads -> Places]
          /\ UNCHANGED <<lock, restarts, calls, opens, goal, req, outcome, config>>
      BY <2>7 DEF Spawn
    <3> QED
      BY <3>1, <3>2, <3>4
  <2>8. ASSUME NEW t \in Threads, SpawnRefused(t) PROVE TypeOK'
    BY <2>8, AfterStartTyped, QueuesTyped DEF SpawnRefused, Forget
  <2>9. ASSUME NEW t \in Threads, SpawnRaises(t) PROVE TypeOK'
    <3>1. inbox' \in Seq(0..MaxCalls) /\ outbox' \in Seq(Messages)
      BY <2>9, QueuesTyped DEF SpawnRaises, Forget
    <3>2. pc' \in [Threads -> Places]
      BY <2>9, RaiseTyped DEF SpawnRaises
    <3>3. outcome' \in [Threads -> [how : Endings, answer : 0..MaxCalls]]
      BY <2>9, RaiseTyped DEF SpawnRaises
    <3> QED
      BY <2>9, <3>1, <3>2, <3>3 DEF SpawnRaises, Forget
  <2>10. ASSUME NEW t \in Threads, HelloAcked(t) PROVE TypeOK'
    BY <2>10, LineTyped, AfterStartTyped DEF HelloAcked
  <2>11. ASSUME NEW t \in Threads, HelloFails(t) PROVE TypeOK'
    <3>1. /\ inbox' \in Seq(0..MaxCalls) /\ outbox' \in Seq(Messages)
          /\ helloSeen' \in BOOLEAN /\ strays' \in Nat /\ torn' \in BOOLEAN
      BY <2>11, LineTyped, NoLineTyped DEF HelloFails
    <3> QED
      BY <2>11, <3>1, AfterStartTyped DEF HelloFails
  <2>12. ASSUME NEW t \in Threads, Send(t) PROVE TypeOK'
    BY <2>12 DEF Send
  <2>27. ASSUME NEW t \in Threads, Sent(t) PROVE TypeOK'
    BY <2>27 DEF Sent
  <2>13. ASSUME NEW t \in Threads, SendFails(t) PROVE TypeOK'
    BY <2>13 DEF SendFails, Fail
  <2>14. ASSUME NEW t \in Threads, Accept(t) PROVE TypeOK'
    <3>1. PICK m \in Messages : GotLine(m) /\ End(t, "worker", m.id)
      BY <2>14 DEF Accept
    <3>2. m.id \in 0..MaxCalls
      BY <3>1 DEF Messages
    <3> QED
      BY <2>14, <3>1, <3>2, LineTyped, EndTyped DEF Accept
  <2>15. ASSUME NEW t \in Threads, Reject(t) PROVE TypeOK'
    <3>1. CASE (AtEof \/ GaveUp) /\ Fail(t)
      BY <2>15, <3>1, NoLineTyped DEF Reject, Fail
    <3>2. ASSUME NEW m \in Messages, GotLine(m),
                 \/ End(t, "escaped", 0) /\ lock' = NoThread
                 \/ Fail(t)
          PROVE  TypeOK'
      <4>1. pc' \in [Threads -> Places] /\ lock' \in Threads \cup {NoThread}
        BY <3>2, RaiseTyped DEF Fail
      <4>3. outcome' \in [Threads -> [how : Endings, answer : 0..MaxCalls]]
        BY <3>2, RaiseTyped DEF Fail
      <4> QED
        BY <2>15, <3>2, <4>1, <4>3, LineTyped DEF Reject
    <3> QED
      BY <2>15, <3>1, <3>2 DEF Reject
  <2>16. ASSUME NEW t \in Threads, RaiseClosed(t) PROVE TypeOK'
    BY <2>16, RaiseTyped DEF RaiseClosed
  <2>17. ASSUME NEW t \in Threads, FallbackRestart(t) PROVE TypeOK'
    BY <2>17 DEF FallbackRestart
  <2>18. ASSUME NEW t \in Threads, FallbackNoRestart(t) PROVE TypeOK'
    BY <2>18 DEF FallbackNoRestart
  <2>19. ASSUME NEW t \in Threads, PublicSolve(t) PROVE TypeOK'
    <3>1. CASE End(t, "public", req[t])
      BY <2>19, <3>1, EndTyped DEF PublicSolve
    <3>2. CASE End(t, "raised", 0)
      BY <2>19, <3>2, RaiseTyped DEF PublicSolve
    <3> QED
      BY <2>19, <3>1, <3>2 DEF PublicSolve
  <2>20. CASE WorkerHello
    <3>1. \E k \in Kinds : Reply(Msg(k, 0))
      BY <2>20 DEF WorkerHello, Kinds
    <3>2. inbox' \in Seq(0..MaxCalls) /\ outbox' \in Seq(Messages)
      BY <2>20, <3>1, MsgTyped, ReplyTyped DEF WorkerHello
    <3> QED
      BY <2>20, <3>2 DEF WorkerHello
  <2>21. CASE WorkerSolve
    <3>1. inbox # <<>> /\ Head(inbox) \in 0..MaxCalls
      BY <2>21, QueuesTyped DEF WorkerSolve
    <3>2. \E k \in Kinds, i \in 0..MaxCalls : Reply(Msg(k, i))
      BY <2>21, <3>1 DEF WorkerSolve, Kinds
    <3>3. inbox' \in Seq(0..MaxCalls) /\ outbox' \in Seq(Messages)
      BY <3>1, <3>2, MsgTyped, ReplyTyped
    <3> QED
      BY <2>21, <3>3 DEF WorkerSolve
  <2>22. CASE WorkerDies
    BY <2>22 DEF WorkerDies
  <2>23. CASE StrayReads
    <3>1. outbox' \in Seq(Messages)
      BY <2>23, QueuesTyped DEF StrayReads
    <3>2. strays' \in Nat
      BY <2>23 DEF StrayReads
    <3>3. torn' \in BOOLEAN
      BY <2>23 DEF StrayReads
    <3> QED
      BY <2>23, <3>1, <3>2, <3>3 DEF StrayReads
  <2>24. CASE StraysEnd
    BY <2>24 DEF StraysEnd
  <2>25. CASE UNCHANGED vars
    BY <2>25 DEF vars
  <2> QED
    BY <2>1, <2>2, <2>3, <2>4, <2>5, <2>6, <2>7, <2>8, <2>9, <2>10, <2>11,
       <2>12, <2>13, <2>14, <2>15, <2>16, <2>17, <2>18, <2>19, <2>20, <2>21,
       <2>22, <2>23, <2>24, <2>25, <2>26, <2>27 DEF Next, Step
<1> QED
  BY <1>1, <1>2, PTL DEF Spec
-----------------------------------------------------------------------------
\* A step of t moves no other thread, and takes the lock when it is free, gives it
\* back on the way out, or stays inside or outside of the conversation.
Moves(t) == /\ \A u \in Threads \ {t} : pc'[u] = pc[u]
            /\ \/ /\ pc[t] \in Critical \/ lock = NoThread
                  /\ lock' = IF pc'[t] \in Critical THEN t ELSE NoThread
               \/ lock' = lock /\ (pc'[t] \in Critical <=> pc[t] \in Critical)

\* Every step of a thread moves it in one of these ways.
LEMMA StepMoves ==
  ASSUME TypeOK, NEW t \in Threads, Call(t) \/ Open(t) \/ Close(t) \/ Step(t)
  PROVE  Moves(t)
<1> USE DEF TypeOK, Moves, Critical, Goto
<1>1. CASE Call(t)
  BY <1>1 DEF Call
<1>2. CASE FindRunning(t)
  BY <1>2 DEF FindRunning
<1>3. CASE FindBudgetSpent(t)
  BY <1>3 DEF FindBudgetSpent, Fail
<1>4. CASE FindStopped(t)
  BY <1>4 DEF FindStopped
<1>5. CASE Open(t)
  BY <1>5 DEF Open
<1>6. CASE Close(t)
  BY <1>6 DEF Close
<1>7. CASE Spawn(t)
  BY <1>7 DEF Spawn
<1>8. CASE SpawnRefused(t)
  BY <1>8 DEF SpawnRefused, AfterStart, Fail
<1>9. CASE SpawnRaises(t)
  BY <1>9 DEF SpawnRaises, End
<1>10. CASE HelloAcked(t)
  BY <1>10 DEF HelloAcked, AfterStart, Fail
<1>11. CASE HelloFails(t)
  BY <1>11 DEF HelloFails, AfterStart, Fail
<1>12. CASE Send(t) \/ Sent(t) \/ Closed(t)
  BY <1>12 DEF Send, Sent, Closed
<1>13. CASE SendFails(t)
  BY <1>13 DEF SendFails, Fail
<1>14. CASE Accept(t)
  BY <1>14 DEF Accept, End
<1>15. CASE Reject(t)
  BY <1>15 DEF Reject, Fail, End
<1>16. CASE RaiseClosed(t)
  BY <1>16 DEF RaiseClosed, End
<1>17. CASE FallbackRestart(t)
  BY <1>17 DEF FallbackRestart
<1>18. CASE FallbackNoRestart(t)
  BY <1>18 DEF FallbackNoRestart
<1>19. CASE PublicSolve(t)
  BY <1>19 DEF PublicSolve, End
<1> QED
  BY <1>1, <1>2, <1>3, <1>4, <1>5, <1>6, <1>7, <1>8, <1>9, <1>10, <1>11, <1>12,
     <1>13, <1>14, <1>15, <1>16, <1>17, <1>18, <1>19 DEF Step

\* The worker and the abandoned readers take no part in the locking.
LEMMA WorkerMovesNobody ==
  ASSUME WorkerHello \/ WorkerSolve \/ WorkerDies \/ StrayReads \/ StraysEnd
         \/ UNCHANGED vars
  PROVE  UNCHANGED <<pc, lock, goal, req, outcome, restarts, spawned, opens, config>>
BY DEF WorkerHello, WorkerSolve, WorkerDies, StrayReads, StraysEnd, vars

\* Conversations with the worker are serialised: at most one thread is between
\* _ensure_running and its reply, and the lock is free when none is.
THEOREM Serialised == Spec => []OneConversation
<1>1. Init => OneConversation
  BY ConfigAssumption DEF Init, OneConversation, Critical
<1>2. TypeOK /\ OneConversation /\ [Next]_vars => OneConversation'
  <2> SUFFICES ASSUME TypeOK, OneConversation, [Next]_vars PROVE OneConversation'
    OBVIOUS
  <2>1. ASSUME NEW t \in Threads, Call(t) \/ Open(t) \/ Close(t) \/ Step(t)
        PROVE  OneConversation'
    <3>1. Moves(t)
      BY <2>1, StepMoves
    <3> QED
      BY <3>1, ConfigAssumption DEF OneConversation, Moves
  <2>2. CASE \/ WorkerHello \/ WorkerSolve \/ WorkerDies \/ StrayReads \/ StraysEnd
             \/ UNCHANGED vars
    BY <2>2, WorkerMovesNobody DEF OneConversation
  <2> QED
    BY <2>1, <2>2 DEF Next
<1> QED
  BY <1>1, <1>2, TypeCorrect, PTL DEF Spec
-----------------------------------------------------------------------------
\* The answer of a step of t is t's, and is none or that of t's request.
Answers(t) == /\ \A u \in Threads \ {t} : outcome'[u] = outcome[u] /\ req'[u] = req[u]
              /\ \/ outcome'[t] = outcome[t] /\ req'[t] = req[t]
                 \/ outcome'[t].how # "worker"
                 \/ outcome'[t].answer = req'[t]

\* Every step of a thread keeps its answer that of its request.
LEMMA StepAnswers ==
  ASSUME TypeOK, NEW t \in Threads, Call(t) \/ Open(t) \/ Close(t) \/ Step(t)
  PROVE  Answers(t)
<1> USE DEF TypeOK, Answers
<1>1. CASE Call(t)
  BY <1>1 DEF Call
<1>2. CASE Accept(t)
  BY <1>2 DEF Accept, Usable, End
<1>3. CASE Reject(t)
  BY <1>3 DEF Reject, Fail, End
<1>4. CASE SpawnRaises(t) \/ RaiseClosed(t) \/ PublicSolve(t)
  BY <1>4 DEF SpawnRaises, RaiseClosed, PublicSolve, End
<1>5. CASE SpawnRefused(t) \/ HelloAcked(t) \/ HelloFails(t)
  BY <1>5 DEF SpawnRefused, HelloAcked, HelloFails, AfterStart, Fail
<1>6. CASE \/ Open(t) \/ Close(t) \/ FindRunning(t) \/ FindBudgetSpent(t)
           \/ FindStopped(t) \/ Spawn(t) \/ Send(t) \/ Sent(t) \/ SendFails(t)
           \/ Closed(t) \/ FallbackRestart(t) \/ FallbackNoRestart(t)
  BY <1>6 DEF Open, Close, FindRunning, FindBudgetSpent, FindStopped, Spawn, Send, Sent,
              SendFails, Closed, FallbackRestart, FallbackNoRestart, Fail
<1> QED
  BY <1>1, <1>2, <1>3, <1>4, <1>5, <1>6 DEF Step

\* An action that project returns as the worker's answers that very request.
THEOREM Matched == Spec => []AnswerMatchesRequest
<1>1. Init => AnswerMatchesRequest
  BY DEF Init, AnswerMatchesRequest
<1>2. TypeOK /\ AnswerMatchesRequest /\ [Next]_vars => AnswerMatchesRequest'
  <2> SUFFICES ASSUME TypeOK, AnswerMatchesRequest, [Next]_vars
               PROVE  AnswerMatchesRequest'
    OBVIOUS
  <2>1. ASSUME NEW t \in Threads, Call(t) \/ Open(t) \/ Close(t) \/ Step(t)
        PROVE  AnswerMatchesRequest'
    <3>1. Answers(t)
      BY <2>1, StepAnswers
    <3> QED
      BY <3>1 DEF AnswerMatchesRequest, Answers
  <2>2. CASE \/ WorkerHello \/ WorkerSolve \/ WorkerDies \/ StrayReads \/ StraysEnd
             \/ UNCHANGED vars
    BY <2>2, WorkerMovesNobody DEF AnswerMatchesRequest
  <2> QED
    BY <2>1, <2>2 DEF Next
<1> QED
  BY <1>1, <1>2, TypeCorrect, PTL DEF Spec
-----------------------------------------------------------------------------
\* The next worker to be spawned needs no further restart to be counted.
Paid(place) == place \in {"spawning", "closing"}
PaidAhead == (\E t \in Threads : Paid(pc[t])) \/ proc = "none"

\* The invariant that is inductive: a worker paid ahead is left room for.
BoundInv == /\ restarts <= config.maxRestarts + 1
            /\ spawned <= restarts + opens + 1
            /\ PaidAhead => spawned <= restarts + opens

\* A step that counts neither a restart nor a worker keeps the bounds, when it is
\* paid for by one more call of start or close, or pays nothing ahead.
LEMMA CountsNothing ==
  ASSUME restarts \in Nat, spawned \in Nat, opens \in Nat,
         config.maxRestarts \in Nat, BoundInv,
         UNCHANGED <<restarts, spawned, config>>,
         \/ opens' = opens + 1
         \/ opens' = opens /\ (PaidAhead' => PaidAhead)
  PROVE  BoundInv'
<1>1. CASE opens' = opens + 1
  BY <1>1 DEF BoundInv
<1>2. CASE opens' = opens /\ (PaidAhead' => PaidAhead)
  BY <1>2 DEF BoundInv
<1> QED
  BY <1>1, <1>2

\* A restart within the budget pays for a worker.
LEMMA CountsRestart ==
  ASSUME restarts \in Nat, spawned \in Nat, opens \in Nat,
         config.maxRestarts \in Nat, BoundInv,
         restarts <= config.maxRestarts, restarts' = restarts + 1,
         UNCHANGED <<opens, spawned, config>>
  PROVE  BoundInv'
  BY DEF BoundInv

\* No step spends more restarts or workers than the budget.
LEMMA StepBounds ==
  ASSUME TypeOK, TypeOK', OneConversation, BoundInv, NEW t \in Threads,
         Call(t) \/ Open(t) \/ Close(t) \/ Step(t)
  PROVE  BoundInv'
<1>0. /\ restarts \in Nat /\ spawned \in Nat /\ opens \in Nat
      /\ config.maxRestarts \in Nat
  <2>1. opens \in Nat /\ Limits \subseteq Nat
    BY ConfigAssumption DEF TypeOK
  <2>2. config.maxRestarts \in Limits
    BY DEF TypeOK, Configs
  <2> QED
    BY <2>1, <2>2 DEF TypeOK
<1>1. ASSUME UNCHANGED <<restarts, spawned, config, opens>>,
             proc' = "none" => proc = "none",
             \A u \in Threads : Paid(pc'[u]) => Paid(pc[u])
      PROVE  BoundInv'
  BY <1>0, <1>1, CountsNothing DEF PaidAhead
<1>2. ASSUME UNCHANGED <<restarts, spawned, config, opens, proc>>,
             NEW place, ~Paid(place), Goto(t, place)
      PROVE  BoundInv'
  <2>1. \A u \in Threads : Paid(pc'[u]) => Paid(pc[u])
    BY <1>2 DEF Goto, TypeOK
  <2> QED
    BY <1>1, <1>2, <2>1
<1>3. CASE Call(t)
  BY <1>2, <1>3 DEF Call, Paid
<1>4. CASE Open(t) \/ Close(t)
  <2>1. opens' = opens + 1 /\ UNCHANGED <<restarts, spawned, config>>
    BY <1>4 DEF Open, Close
  <2> QED
    BY <1>0, <2>1, CountsNothing
<1>5. CASE FindStopped(t)
  <2>1. /\ restarts <= config.maxRestarts
        /\ restarts' = IF started \/ proc # "none" THEN restarts + 1 ELSE restarts
        /\ UNCHANGED <<opens, spawned, config, proc>>
    BY <1>5 DEF FindStopped
  <2>2. CASE restarts' = restarts + 1
    BY <1>0, <2>1, <2>2, CountsRestart
  <2>3. CASE UNCHANGED restarts /\ proc = "none"
    BY <1>0, <2>1, <2>3, CountsNothing DEF PaidAhead
  <2> QED
    BY <2>1, <2>2, <2>3
<1>6. CASE Spawn(t)
  <2>1. /\ spawned' = spawned + 1 /\ proc' = "alive"
        /\ UNCHANGED <<restarts, opens, config>>
        /\ pc[t] = "spawning" /\ Goto(t, "handshake")
    BY <1>6 DEF Spawn
  <2>2. \A u \in Threads : ~Paid(pc'[u])
    BY <2>1, ConfigAssumption DEF OneConversation, Critical, Goto, TypeOK, Paid
  <2>3. spawned <= restarts + opens
    BY <2>1 DEF BoundInv, PaidAhead, Paid
  <2>4. ~PaidAhead'
    BY <2>1, <2>2 DEF PaidAhead
  <2>5. spawned' <= restarts' + opens' + 1
    BY <1>0, <2>1, <2>3
  <2>6. restarts' <= config'.maxRestarts + 1
    BY <2>1 DEF BoundInv
  <2> QED
    BY <2>4, <2>5, <2>6 DEF BoundInv
<1>7. CASE FallbackRestart(t)
  <2>1. /\ restarts <= config.maxRestarts /\ restarts' = restarts + 1
        /\ UNCHANGED <<opens, spawned, config>>
    BY <1>0, <1>7 DEF FallbackRestart
  <2> QED
    BY <1>0, <2>1, CountsRestart
<1>8. CASE SpawnRefused(t) \/ SpawnRaises(t) \/ Closed(t)
  <2>1. Paid(pc[t]) /\ UNCHANGED <<restarts, opens, spawned, config>>
    BY <1>8 DEF SpawnRefused, SpawnRaises, Closed, Paid
  <2> QED
    BY <1>0, <2>1, CountsNothing DEF PaidAhead
<1>9. CASE HelloAcked(t) \/ HelloFails(t)
  <2>1. UNCHANGED <<restarts, spawned, config, opens, proc>>
    BY <1>9 DEF HelloAcked, HelloFails
  <2>2. Goto(t, "ready") \/ Goto(t, "fallback") \/ Goto(t, "public") \/ Goto(t, "idle")
    BY <1>9 DEF HelloAcked, HelloFails, AfterStart, Fail
  <2> QED
    BY <1>2, <2>1, <2>2 DEF Paid
<1>10. CASE Accept(t) \/ Reject(t) \/ RaiseClosed(t) \/ PublicSolve(t)
  <2>1. UNCHANGED <<restarts, spawned, config, opens, proc>>
    BY <1>10 DEF Accept, Reject, RaiseClosed, PublicSolve
  <2>2. Goto(t, "idle") \/ Goto(t, "fallback")
    BY <1>10 DEF Accept, Reject, RaiseClosed, PublicSolve, End, Fail
  <2> QED
    BY <1>2, <2>1, <2>2 DEF Paid
<1>11. CASE \/ FindRunning(t) \/ FindBudgetSpent(t) \/ Send(t) \/ Sent(t)
            \/ SendFails(t) \/ FallbackNoRestart(t)
  <2>1. UNCHANGED <<restarts, spawned, config, opens, proc>>
    BY <1>11 DEF FindRunning, FindBudgetSpent, Send, Sent, SendFails, FallbackNoRestart
  <2>2. \/ Goto(t, "ready") \/ Goto(t, "writing") \/ Goto(t, "reading")
        \/ Goto(t, "fallback") \/ Goto(t, "public")
    BY <1>11 DEF FindRunning, FindBudgetSpent, Send, Sent, SendFails,
                 FallbackNoRestart, Fail
  <2> QED
    BY <1>2, <2>1, <2>2 DEF Paid
<1> QED
  BY <1>3, <1>4, <1>5, <1>6, <1>7, <1>8, <1>9, <1>10, <1>11 DEF Step

\* The worker processes spawned are bounded by the restart budget, the user's
\* explicit starts and closes, and the first one.
THEOREM Bounded == Spec => []WorkersBounded
<1>1. Init => BoundInv
  <2> SUFFICES ASSUME Init PROVE BoundInv
    OBVIOUS
  <2>1. restarts = 0 /\ spawned = 0 /\ opens = 0 /\ config.maxRestarts \in Nat
    BY ConfigAssumption DEF Init, Configs
  <2> QED
    BY <2>1 DEF BoundInv
<1>2. TypeOK /\ TypeOK' /\ OneConversation /\ BoundInv /\ [Next]_vars => BoundInv'
  <2> SUFFICES ASSUME TypeOK, TypeOK', OneConversation, BoundInv, [Next]_vars
               PROVE  BoundInv'
    OBVIOUS
  <2>1. CASE \/ WorkerHello \/ WorkerSolve \/ WorkerDies \/ StrayReads \/ StraysEnd
             \/ UNCHANGED vars
    <3>1. proc' = "none" => proc = "none"
      BY <2>1 DEF WorkerHello, WorkerSolve, WorkerDies, StrayReads, StraysEnd, vars
    <3> QED
      BY <2>1, <3>1, WorkerMovesNobody DEF BoundInv, PaidAhead
  <2> QED
    BY <2>1, StepBounds DEF Next
<1>3. BoundInv => WorkersBounded
  BY DEF BoundInv, WorkersBounded
<1> QED
  BY <1>1, <1>2, <1>3, TypeCorrect, Serialised, PTL DEF Spec
-----------------------------------------------------------------------------
\* How many readers of a call in progress there are: one conversation has one.
ReaderCount == IF \E t \in Threads : Awaiting(t) THEN 1 ELSE 0

\* At most one thread reads from the pipe.
LEMMA OneReader ==
  ASSUME OneConversation
  PROVE  Cardinality({t \in Threads : Awaiting(t)}) = ReaderCount
<1>1. CASE \E t \in Threads : Awaiting(t)
  <2>1. PICK t \in Threads : Awaiting(t)
    BY <1>1
  <2>2. {u \in Threads : Awaiting(u)} = {t}
    BY <2>1, ConfigAssumption DEF OneConversation, Awaiting, Reading, Critical
  <2> QED
    BY <1>1, <2>2, FS_Singleton DEF ReaderCount
<1>2. CASE ~\E t \in Threads : Awaiting(t)
  <2>1. {u \in Threads : Awaiting(u)} = {}
    BY <1>2
  <2> QED
    BY <1>2, <2>1, FS_EmptySet DEF ReaderCount
<1> QED
  BY <1>1, <1>2

\* What a message written, read or answered does to the two pipes together.
Owed == Len(inbox) + Len(outbox)

\* Both directions of the pipe have a length.
LEMMA PipeLengths ==
  ASSUME TypeOK
  PROVE  /\ Len(inbox) \in Nat /\ Len(outbox) \in Nat
         /\ inbox # <<>> => Len(Tail(inbox)) = Len(inbox) - 1
         /\ outbox # <<>> => Len(Tail(outbox)) = Len(outbox) - 1
         /\ \A i : Len(Append(inbox, i)) = Len(inbox) + 1
         /\ \A m : Len(Append(outbox, m)) = Len(outbox) + 1
         /\ outbox # <<>> => Len(outbox) > 0
         /\ inbox # <<>> => Len(inbox) > 0
<1>1. inbox \in Seq(0..MaxCalls) /\ outbox \in Seq(Messages)
  BY DEF TypeOK
<1> QED
  BY <1>1

\* A line that was read is no longer owed.
LEMMA LineOwed ==
  ASSUME TypeOK, NEW m, GotLine(m)
  PROVE  Owed' = Owed - 1 /\ strays' = strays
BY PipeLengths DEF GotLine, Owed

\* A request becomes a reply: as much is owed.
LEMMA ReplyOwed ==
  ASSUME TypeOK, inbox # <<>>, NEW m, Reply(m)
  PROVE  Owed' = Owed
BY PipeLengths DEF Reply, Owed

\* The invariant that is inductive: what the live worker owes.
OwedInv == proc = "alive" => Owed = strays + ReaderCount

\* Only the thread that moves starts or stops reading, and nobody else reads then.
LEMMA StepReaders ==
  ASSUME OneConversation, OneConversation', NEW t \in Threads, Moves(t)
  PROVE  /\ Awaiting(t) => ReaderCount = 1 /\ (~Awaiting(t)' => ReaderCount' = 0)
         /\ Awaiting(t)' => ReaderCount' = 1 /\ (~Awaiting(t) => ReaderCount = 0)
         /\ ~Awaiting(t) /\ ~Awaiting(t)' => ReaderCount' = ReaderCount
<1> USE ConfigAssumption DEF OneConversation, Awaiting, Reading, Critical, Moves, ReaderCount
<1>1. Awaiting(t) /\ ~Awaiting(t)' => \A u \in Threads : ~Awaiting(u)'
  OBVIOUS
<1>2. Awaiting(t)' /\ ~Awaiting(t) => \A u \in Threads : ~Awaiting(u)
  OBVIOUS
<1>3. ~Awaiting(t) /\ ~Awaiting(t)' => \A u \in Threads : Awaiting(u)' <=> Awaiting(u)
  OBVIOUS
<1> QED
  BY <1>1, <1>2, <1>3

\* Every step keeps what is owed that of its readers.
LEMMA StepOwes ==
  ASSUME TypeOK, OneConversation, OneConversation', OwedInv, NEW t \in Threads,
         Call(t) \/ Open(t) \/ Close(t) \/ Step(t)
  PROVE  OwedInv'
<1> USE DEF TypeOK, OwedInv, Goto
<1>0. Moves(t)
  BY StepMoves
<1>1. ReaderCount \in {0, 1}
  BY DEF ReaderCount
<1>2. CASE Closed(t) \/ SpawnRefused(t) \/ SpawnRaises(t) \/ SendFails(t)
  BY <1>2 DEF Closed, SpawnRefused, SpawnRaises, SendFails
<1>3. CASE Spawn(t)
  <2>1. Awaiting(t)'
    BY <1>3 DEF Spawn, Awaiting, Reading
  <2>2. Owed' = 1 /\ strays' = 0
    BY <1>3 DEF Spawn, Owed
  <2> QED
    BY <2>1, <2>2, <1>0, StepReaders
<1>4. CASE Send(t)
  <2>1. Awaiting(t)' /\ ~Awaiting(t)
    BY <1>4 DEF Send, Awaiting, Reading
  <2>2. Owed' = Owed + 1 /\ UNCHANGED <<strays, proc>>
    BY <1>4, PipeLengths DEF Send, Owed
  <2> QED
    BY <2>1, <2>2, <1>0, <1>1, StepReaders
<1>5. CASE HelloAcked(t) \/ HelloFails(t) \/ Accept(t) \/ Reject(t)
  <2>1. Awaiting(t) /\ ~Awaiting(t)' /\ proc' = proc
    BY <1>5 DEF HelloAcked, HelloFails, Accept, Reject, Awaiting, Reading, AfterStart, Fail, End
  <2>2. (\E m : GotLine(m)) \/ GaveUp \/ AtEof
    BY <1>5 DEF HelloAcked, HelloFails, Accept, Reject
  <2>3. CASE \E m : GotLine(m)
    <3>1. Owed' = Owed - 1 /\ strays' = strays
      BY <2>3, LineOwed
    <3> QED
      BY <2>1, <3>1, <1>0, StepReaders
  <2>4. CASE GaveUp
    <3>1. Owed' = Owed /\ strays' = strays + 1
      BY <2>4 DEF GaveUp, Owed
    <3> QED
      BY <2>1, <3>1, <1>0, StepReaders
  <2>5. CASE AtEof
    BY <2>1, <2>5 DEF AtEof
  <2> QED
    BY <2>2, <2>3, <2>4, <2>5
<1>7. CASE Sent(t)
  <2>1. Awaiting(t) /\ Awaiting(t)'
    BY <1>7 DEF Sent, Awaiting, Reading
  <2>2. UNCHANGED <<proc, inbox, outbox, strays>>
    BY <1>7 DEF Sent, pipeVars
  <2> QED
    BY <2>1, <2>2, <1>0, StepReaders DEF Owed
<1>6. CASE \/ Call(t) \/ Open(t) \/ Close(t) \/ FindRunning(t)
           \/ FindBudgetSpent(t) \/ FindStopped(t) \/ RaiseClosed(t)
           \/ FallbackRestart(t) \/ FallbackNoRestart(t) \/ PublicSolve(t)
  <2>1. ~Awaiting(t) /\ ~Awaiting(t)'
    BY <1>6 DEF Call, Open, Close, FindRunning, FindBudgetSpent, FindStopped,
                RaiseClosed, FallbackRestart, FallbackNoRestart, PublicSolve, Awaiting,
                Reading, Fail, End
  <2>2. UNCHANGED <<proc, inbox, outbox, strays>>
    BY <1>6 DEF Call, Open, Close, FindRunning, FindBudgetSpent, FindStopped,
                RaiseClosed, FallbackRestart, FallbackNoRestart, PublicSolve, pipeVars
  <2> QED
    BY <2>1, <2>2, <1>0, StepReaders DEF Owed
<1> QED
  BY <1>2, <1>3, <1>4, <1>5, <1>6, <1>7 DEF Step

\* The live worker owes one reply to every reader, abandoned or not.
THEOREM Paired == Spec => []EveryReplyHasAReader
<1>1. Init => OwedInv
  BY DEF Init, OwedInv
<1>2. TypeOK /\ OneConversation /\ OneConversation' /\ OwedInv /\ [Next]_vars => OwedInv'
  <2> SUFFICES ASSUME TypeOK, OneConversation, OneConversation', OwedInv, [Next]_vars
               PROVE  OwedInv'
    OBVIOUS
  <2>1. CASE WorkerHello \/ WorkerSolve
    <3>1. inbox # <<>> /\ \E m : Reply(m)
      BY <2>1 DEF WorkerHello, WorkerSolve
    <3>2. Owed' = Owed
      BY <3>1, ReplyOwed
    <3>3. UNCHANGED <<proc, strays, pc>>
      BY <2>1 DEF WorkerHello, WorkerSolve
    <3> QED
      BY <3>2, <3>3 DEF OwedInv, ReaderCount, Awaiting, Reading
  <2>2. CASE WorkerDies \/ StraysEnd
    BY <2>2 DEF WorkerDies, StraysEnd, OwedInv
  <2>3. CASE StrayReads
    <3>1. Owed' = Owed - 1
      BY <2>3, PipeLengths DEF StrayReads, Owed
    <3>2. strays' = strays - 1 /\ UNCHANGED <<proc, pc>> /\ strays \in Nat
      BY <2>3 DEF StrayReads, TypeOK
    <3>3. Owed \in Nat /\ ReaderCount \in {0, 1}
      BY PipeLengths DEF Owed, ReaderCount
    <3> QED
      BY <3>1, <3>2, <3>3 DEF OwedInv, ReaderCount, Awaiting, Reading
  <2>4. CASE UNCHANGED vars
    BY <2>4 DEF vars, OwedInv, Owed, ReaderCount, Awaiting, Reading
  <2> QED
    BY <2>1, <2>2, <2>3, <2>4, StepOwes DEF Next
<1>3. OneConversation /\ OwedInv => EveryReplyHasAReader
  BY OneReader DEF OwedInv, Owed, EveryReplyHasAReader
<1> QED
  BY <1>1, <1>2, <1>3, TypeCorrect, Serialised, PTL DEF Spec
-----------------------------------------------------------------------------
\* A thread inside project has a request, and start() was not what it called.
CallInv == \A t \in Threads :
             /\ pc[t] # "idle" /\ goal[t] # "open" => req[t] # 0
             /\ pc[t] \in {"entering", "ready", "writing", "reading", "fallback",
                           "public"}
                  => goal[t] # "open"

\* A call that waits for an answer has sent its request.
LEMMA StepCalls ==
  ASSUME TypeOK, CallInv, NEW t \in Threads,
         Call(t) \/ Open(t) \/ Close(t) \/ Step(t)
  PROVE  CallInv'
<1> USE DEF TypeOK, CallInv, Goto
<1>1. CASE Call(t)
  BY <1>1 DEF Call
<1>2. CASE Open(t) \/ Close(t) \/ Closed(t)
  BY <1>2 DEF Open, Close, Closed
<1>3. CASE FindRunning(t) \/ FindBudgetSpent(t) \/ FindStopped(t)
  BY <1>3 DEF FindRunning, FindBudgetSpent, FindStopped, Fail
<1>4. CASE Spawn(t)
  BY <1>4 DEF Spawn
<1>5. CASE SpawnRefused(t) \/ HelloAcked(t) \/ HelloFails(t)
  BY <1>5 DEF SpawnRefused, HelloAcked, HelloFails, AfterStart, Fail
<1>6. CASE SpawnRaises(t)
  BY <1>6 DEF SpawnRaises, End
<1>7. CASE Send(t) \/ Sent(t) \/ SendFails(t)
  BY <1>7 DEF Send, Sent, SendFails, Fail
<1>8. CASE Accept(t) \/ Reject(t)
  BY <1>8 DEF Accept, Reject, Fail, End
<1>9. CASE RaiseClosed(t) \/ FallbackRestart(t) \/ FallbackNoRestart(t) \/ PublicSolve(t)
  BY <1>9 DEF RaiseClosed, FallbackRestart, FallbackNoRestart, PublicSolve, End
<1> QED
  BY <1>1, <1>2, <1>3, <1>4, <1>5, <1>6, <1>7, <1>8, <1>9 DEF Step

\* A thread in a call has the request of that call.
LEMMA CallsHaveRequests == Spec => []CallInv
<1>1. Init => CallInv
  BY DEF Init, CallInv
<1>2. TypeOK /\ CallInv /\ [Next]_vars => CallInv'
  <2> SUFFICES ASSUME TypeOK, CallInv, [Next]_vars PROVE CallInv'
    OBVIOUS
  <2>1. CASE \/ WorkerHello \/ WorkerSolve \/ WorkerDies \/ StrayReads \/ StraysEnd
             \/ UNCHANGED vars
    BY <2>1, WorkerMovesNobody DEF CallInv
  <2> QED
    BY <2>1, StepCalls DEF Next
<1> QED
  BY <1>1, <1>2, TypeCorrect, PTL DEF Spec

\* The pipes of a worker whose handshake is over hold neither hello nor ack.
NoHello == \A i \in 1..Len(inbox) : inbox[i] # 0
NoAck == \A i \in 1..Len(outbox) : outbox[i].kind \notin {"hello_ack", "bad_ack"}

\* No handshake is sent but by one that begins.
LEMMA NoHelloKept ==
  ASSUME TypeOK, NoHello
  PROVE  /\ inbox' = <<>> => NoHello'
         /\ inbox # <<>> /\ inbox' = Tail(inbox) => NoHello'
         /\ \A i : i # 0 /\ inbox' = Append(inbox, i) => NoHello'
<1>1. inbox \in Seq(0..MaxCalls)
  BY DEF TypeOK
<1>2. CASE inbox' = <<>>
  <2>1. Len(inbox') = 0
    BY <1>2
  <2> QED
    BY <1>2, <2>1 DEF NoHello
<1>3. CASE inbox # <<>> /\ inbox' = Tail(inbox)
  <2>1. /\ Len(inbox') = Len(inbox) - 1
        /\ \A i \in 1..Len(inbox') : inbox'[i] = inbox[i + 1]
    BY <1>1, <1>3
  <2> QED
    BY <1>1, <2>1 DEF NoHello
<1>4. ASSUME NEW i, i # 0, inbox' = Append(inbox, i) PROVE NoHello'
  BY <1>1, <1>4 DEF NoHello
<1> QED
  BY <1>2, <1>3, <1>4

\* Nor is any answered that was not sent.
LEMMA NoAckKept ==
  ASSUME TypeOK, NoAck
  PROVE  /\ outbox' = <<>> => NoAck'
         /\ outbox # <<>> /\ outbox' = Tail(outbox) => NoAck'
         /\ \A m : /\ m.kind \notin {"hello_ack", "bad_ack"}
                  /\ outbox' = Append(outbox, m)
                  => NoAck'
<1>1. outbox \in Seq(Messages)
  BY DEF TypeOK
<1>2. CASE outbox' = <<>>
  <2>1. Len(outbox') = 0
    BY <1>2
  <2> QED
    BY <1>2, <2>1 DEF NoAck
<1>3. CASE outbox # <<>> /\ outbox' = Tail(outbox)
  <2>1. /\ Len(outbox') = Len(outbox) - 1
        /\ \A i \in 1..Len(outbox') : outbox'[i] = outbox[i + 1]
    BY <1>1, <1>3
  <2> QED
    BY <1>1, <2>1 DEF NoAck
<1>4. ASSUME NEW m, m.kind \notin {"hello_ack", "bad_ack"},
             outbox' = Append(outbox, m)
      PROVE  NoAck'
  BY <1>1, <1>4 DEF NoAck
<1> QED
  BY <1>2, <1>3, <1>4

\* The invariant that is inductive: the handshake is alone on new pipes, and
\* solves are sent only after it.
HandshakeInv == /\ started => NoHello /\ NoAck
                /\ \A t \in Threads : pc[t] \in {"ready", "writing", "reading"} => started
                /\ \A t \in Threads : pc[t] = "handshake" => strays = 0 /\ Owed <= 1

\* A handshake ends before the pipe is read for anything else.
LEMMA StepShakes ==
  ASSUME TypeOK, OneConversation, CallInv, HandshakeInv, NEW t \in Threads,
         Call(t) \/ Open(t) \/ Close(t) \/ Step(t)
  PROVE  HandshakeInv'
<1> USE ConfigAssumption DEF TypeOK, HandshakeInv, Goto
<1>1. CASE Closed(t)
  <2>1. \A u \in Threads : pc'[u] \notin {"ready", "writing", "reading", "handshake"}
    BY <1>1 DEF Closed, OneConversation, Critical
  <2>2. started' = FALSE
    BY <1>1 DEF Closed, Forget
  <2> QED
    BY <2>1, <2>2
<1>2. CASE SpawnRefused(t) \/ SpawnRaises(t)
  <2>1. \A u \in Threads : pc'[u] \notin {"ready", "writing", "reading", "handshake"}
    BY <1>2 DEF SpawnRefused, SpawnRaises, AfterStart, Fail, End, OneConversation, Critical
  <2>2. started' = FALSE
    BY <1>2 DEF SpawnRefused, SpawnRaises, Forget
  <2> QED
    BY <2>1, <2>2
<1>3. CASE Spawn(t)
  <2>1. \A u \in Threads : pc'[u] \notin {"ready", "writing", "reading"}
    BY <1>3 DEF Spawn, OneConversation, Critical
  <2>2. started' = FALSE /\ strays' = 0 /\ Owed' = 1
    BY <1>3 DEF Spawn, Owed
  <2> QED
    BY <2>1, <2>2
<1>4. CASE HelloAcked(t)
  <2>1. \A u \in Threads : pc'[u] \notin {"writing", "reading", "handshake"}
    BY <1>4 DEF HelloAcked, AfterStart, Fail, OneConversation, Critical
  <2>2. Owed <= 1 /\ outbox # <<>> /\ outbox' = Tail(outbox) /\ inbox' = inbox
    BY <1>4 DEF HelloAcked, GotLine
  <2>3. Len(inbox') = 0 /\ Len(outbox') = 0
    <3>1. Len(outbox) > 0 /\ Len(outbox) \in Nat /\ Len(inbox) \in Nat
          /\ Len(Tail(outbox)) = Len(outbox) - 1
      BY <2>2, PipeLengths
    <3>2. Len(inbox) + Len(outbox) <= 1
      BY <2>2 DEF Owed
    <3>3. Len(inbox) = 0 /\ Len(outbox) = 1
      <4>1. \A a, b \in Nat : b > 0 /\ a + b <= 1 => a = 0 /\ b = 1
        OBVIOUS
      <4> QED
        BY <4>1, <3>1, <3>2
    <3> QED
      BY <2>2, <3>1, <3>3
  <2>4. NoHello' /\ NoAck'
    BY <2>3 DEF NoHello, NoAck
  <2>5. started'
    BY <1>4 DEF HelloAcked
  <2> QED
    BY <2>1, <2>4, <2>5
<1>5. CASE HelloFails(t)
  <2>1. \A u \in Threads : pc'[u] \notin {"ready", "writing", "reading", "handshake"}
    BY <1>5 DEF HelloFails, AfterStart, Fail, OneConversation, Critical
  <2>2. started' = started /\ inbox' = inbox
    BY <1>5 DEF HelloFails, GotLine, GaveUp, AtEof
  <2>3. \/ outbox' = outbox
        \/ outbox # <<>> /\ outbox' = Tail(outbox)
    BY <1>5 DEF HelloFails, GotLine, GaveUp, AtEof
  <2> QED
    BY <2>1, <2>2, <2>3, NoAckKept DEF NoHello, NoAck
<1>6. CASE Send(t)
  <2>1. \A u \in Threads : pc'[u] # "handshake"
    BY <1>6 DEF Send, OneConversation, Critical
  <2>2. \A u \in Threads : pc'[u] \in {"ready", "writing", "reading"} =>
                             pc[u] \in {"ready", "writing", "reading"}
    BY <1>6 DEF Send
  <2>3. req[t] # 0 /\ inbox' = Append(inbox, req[t]) /\ UNCHANGED <<outbox, started>>
    BY <1>6 DEF Send, CallInv
  <2> QED
    BY <2>1, <2>2, <2>3, NoHelloKept DEF NoAck
<1>7. CASE Accept(t) \/ Reject(t)
  <2>1. \A u \in Threads : pc'[u] \notin {"ready", "writing", "reading", "handshake"}
    BY <1>7 DEF Accept, Reject, Fail, End, OneConversation, Critical
  <2>2. started' = started /\ inbox' = inbox
    BY <1>7 DEF Accept, Reject, GotLine, GaveUp, AtEof
  <2>3. \/ outbox' = outbox
        \/ outbox # <<>> /\ outbox' = Tail(outbox)
    BY <1>7 DEF Accept, Reject, GotLine, GaveUp, AtEof
  <2> QED
    BY <2>1, <2>2, <2>3, NoAckKept DEF NoHello, NoAck
<1>8. CASE FindRunning(t)
  <2>1. started /\ pc' = [pc EXCEPT ![t] = "ready"]
        /\ UNCHANGED <<started, inbox, outbox, strays>>
    BY <1>8 DEF FindRunning, pipeVars
  <2> QED
    BY <2>1 DEF NoHello, NoAck, Owed
<1>10. CASE Sent(t)
  <2>1. pc[t] = "writing" /\ pc' = [pc EXCEPT ![t] = "reading"]
        /\ UNCHANGED <<started, inbox, outbox, strays>>
    BY <1>10 DEF Sent, pipeVars
  <2> QED
    BY <2>1 DEF NoHello, NoAck, Owed
<1>9. CASE \/ Call(t) \/ Open(t) \/ Close(t) \/ FindBudgetSpent(t)
           \/ FindStopped(t) \/ SendFails(t) \/ RaiseClosed(t)
           \/ FallbackRestart(t) \/ FallbackNoRestart(t) \/ PublicSolve(t)
  <2>1. \A u \in Threads : pc'[u] \in {"ready", "writing", "reading", "handshake"} =>
                             pc'[u] = pc[u]
    BY <1>9 DEF Call, Open, Close, FindBudgetSpent, FindStopped, SendFails, RaiseClosed,
                FallbackRestart, FallbackNoRestart, PublicSolve, Fail, End
  <2>2. UNCHANGED <<started, inbox, outbox, strays>>
    BY <1>9 DEF Call, Open, Close, FindBudgetSpent, FindStopped, SendFails, RaiseClosed,
                FallbackRestart, FallbackNoRestart, PublicSolve, pipeVars
  <2> QED
    BY <2>1, <2>2 DEF NoHello, NoAck, Owed
<1> QED
  BY <1>1, <1>2, <1>3, <1>4, <1>5, <1>6, <1>7, <1>8, <1>9, <1>10 DEF Step

\* No solve meets the late answer of a handshake.
THEOREM NothingForeign == Spec => []NoForeignReply
<1>1. Init => HandshakeInv
  BY DEF Init, HandshakeInv
<1>2. /\ TypeOK /\ OneConversation /\ CallInv /\ HandshakeInv /\ [Next]_vars
      => HandshakeInv'
  <2> SUFFICES ASSUME TypeOK, OneConversation, CallInv, HandshakeInv, [Next]_vars
               PROVE  HandshakeInv'
    OBVIOUS
  <2>1. CASE WorkerHello \/ WorkerSolve
    <3>1. inbox # <<>> /\ \E m : Reply(m)
      BY <2>1 DEF WorkerHello, WorkerSolve
    <3>2. Owed' = Owed /\ inbox' = Tail(inbox)
      BY <3>1, ReplyOwed DEF Reply
    <3>3. UNCHANGED <<started, strays, pc>>
      BY <2>1 DEF WorkerHello, WorkerSolve
    <3>4. started => NoHello'
      BY <3>1, <3>2, NoHelloKept DEF HandshakeInv
    <3>5. started => Head(inbox) # 0
      BY <3>1 DEF HandshakeInv, NoHello, TypeOK
    <3>6. started => NoAck'
      <4>1. started => \E m : /\ m.kind \notin {"hello_ack", "bad_ack"}
                              /\ outbox' = Append(outbox, m)
        BY <2>1, <3>5 DEF WorkerHello, WorkerSolve, Reply, Msg
      <4> QED
        BY <4>1, NoAckKept DEF HandshakeInv
    <3> QED
      BY <3>2, <3>3, <3>4, <3>6 DEF HandshakeInv
  <2>2. CASE WorkerDies
    <3>1. UNCHANGED <<started, strays, pc, outbox>> /\ inbox' = <<>>
      BY <2>2 DEF WorkerDies
    <3>2. Owed' <= Owed
      BY <3>1, PipeLengths DEF Owed
    <3>3. Owed \in Nat /\ Owed' \in Nat
      BY <3>1, PipeLengths DEF Owed
    <3> QED
      BY <3>1, <3>2, <3>3, NoHelloKept DEF HandshakeInv, NoAck
  <2>3. CASE StrayReads
    <3>1. strays # 0 /\ outbox # <<>> /\ outbox' = Tail(outbox)
          /\ UNCHANGED <<started, pc, inbox>>
      BY <2>3 DEF StrayReads
    <3> QED
      BY <3>1, NoAckKept DEF HandshakeInv, NoHello
  <2>4. CASE StraysEnd \/ UNCHANGED vars
    <3>1. UNCHANGED <<started, pc, inbox, outbox>> /\ strays' \in {0, strays}
      BY <2>4 DEF StraysEnd, vars
    <3> QED
      BY <3>1 DEF HandshakeInv, NoHello, NoAck, Owed
  <2> QED
    BY <2>1, <2>2, <2>3, <2>4, StepShakes DEF Next
<1>3. TypeOK /\ HandshakeInv => NoForeignReply
  <2>1. TypeOK => DOMAIN outbox = 1..Len(outbox)
    BY DEF TypeOK
  <2> QED
    BY <2>1 DEF HandshakeInv, NoAck, NoForeignReply
<1> QED
  BY <1>1, <1>2, <1>3, TypeCorrect, Serialised, CallsHaveRequests, PTL DEF Spec
=============================================================================
