------------------------------- MODULE Sidecar -------------------------------
(***************************************************************************)
(* The Windows sidecar: client threads that share one WindowsSidecarClient *)
(* (conicshield/platform/windows_sidecar_client.py), the pipe pair, the    *)
(* abandoned reader threads, and the worker process                        *)
(* (conicshield/workers/moreau_worker.py).                                 *)
(*                                                                         *)
(* The client's RLock is held from _ensure_running to the reply; it is     *)
(* NOT held between a failed call and the restart that _apply_fallback     *)
(* makes for it.  A request, its digest and its answer are the number of   *)
(* the call; stdin and stdout are queues of messages.  Only the current    *)
(* worker's pipes are kept: a replaced worker has been killed.             *)
(***************************************************************************)
EXTENDS Naturals, Sequences, FiniteSets

CONSTANTS Threads,      \* the threads that call project
          Limits,       \* the values SidecarClientConfig.max_restarts may have
          Rooms,        \* how many unread requests the worker's stdin may hold
          MaxCalls,     \* bound: calls of project made in all
          MaxOpens,     \* bound: explicit calls of start and of close
          NoThread

ASSUME ConfigAssumption == /\ Limits \subseteq Nat /\ Rooms \subseteq Nat
                           /\ MaxCalls \in Nat /\ MaxOpens \in Nat
                           /\ NoThread \notin Threads

VARIABLES
  lock,      \* the holder of _lock
  proc,      \* _proc: "none", or a worker that is "alive" or "dead"
  started,   \* _started
  restarts,  \* _restarts
  inbox,     \* what the worker has still to read from its stdin
  outbox,    \* what has still to be read from the worker's stdout
  helloSeen, \* hello_seen of the worker
  strays,    \* reader threads of timed-out _read calls, still in readline
  torn,      \* a stray took bytes of the line that the present _read gets
  calls,     \* how many calls of project were made
  opens,     \* how many explicit starts and closes
  pc,        \* where each thread is
  goal,      \* what start() was called for
  req,       \* the call a thread is in
  outcome,   \* history: how the last call of t ended
  spawned,   \* history: how many worker processes were spawned
  config     \* whether fallback_policy is FAIL_CLOSED, max_restarts, and the
             \* room of the pipe to the worker

clientVars == <<lock, started, restarts>>
pipeVars == <<inbox, outbox, helloSeen, strays, torn>>
vars == <<lock, proc, started, restarts, inbox, outbox, helloSeen, strays, torn,
          calls, opens, pc, goal, req, outcome, spawned, config>>

Kinds == {"hello_ack", "bad_ack", "solved", "refused", "expired", "error",
          "garbage"}
Messages == [kind : Kinds, id : 0..MaxCalls]

\* A message with the digest it echoes (0 for none).
Msg(k, i) == [kind |-> k, id |-> i]

\* "entering" and "fallback" wait for the lock; those of Critical hold it.
Places == {"idle", "entering", "spawning", "handshake", "ready", "writing",
           "reading", "fallback", "public", "closing"}
Critical == {"spawning", "handshake", "ready", "writing", "reading", "closing"}
Configs == [failClosed : BOOLEAN, maxRestarts : Limits, room : Rooms]
Endings == {"none", "worker", "public", "raised", "escaped"}

TypeOK == /\ lock \in Threads \cup {NoThread}
          /\ proc \in {"none", "alive", "dead"}
          /\ started \in BOOLEAN
          /\ restarts \in Nat
          /\ inbox \in Seq(0..MaxCalls)
          /\ outbox \in Seq(Messages)
          /\ helloSeen \in BOOLEAN
          /\ strays \in Nat
          /\ torn \in BOOLEAN
          /\ calls \in 0..MaxCalls
          /\ opens \in 0..MaxOpens
          /\ pc \in [Threads -> Places]
          /\ goal \in [Threads -> {"solve", "restart", "open"}]
          /\ req \in [Threads -> 0..MaxCalls]
          /\ outcome \in [Threads -> [how : Endings, answer : 0..MaxCalls]]
          /\ spawned \in Nat
          /\ config \in Configs

Init == /\ lock = NoThread
        /\ proc = "none" /\ started = FALSE /\ restarts = 0
        /\ inbox = <<>> /\ outbox = <<>> /\ helloSeen = FALSE
        /\ strays = 0 /\ torn = FALSE
        /\ calls = 0 /\ opens = 0
        /\ pc = [t \in Threads |-> "idle"]
        /\ goal = [t \in Threads |-> "solve"]
        /\ req = [t \in Threads |-> 0]
        /\ outcome = [t \in Threads |-> [how |-> "none", answer |-> 0]]
        /\ spawned = 0
        /\ config \in Configs
-----------------------------------------------------------------------------
Goto(t, place) == pc' = [pc EXCEPT ![t] = place]

End(t, how, answer) ==
  /\ Goto(t, "idle")
  /\ outcome' = [outcome EXCEPT ![t] = [how |-> how, answer |-> answer]]

\* MUTANT of Fail: the lock is not released on the error path.
FailHoldingLock(t) == /\ Goto(t, "fallback")
                      /\ UNCHANGED <<lock, outcome>>

\* SidecarWorkerError leaves the with block of project: the lock is released
\* and _apply_fallback is entered.
Fail(t) == /\ lock' = NoThread
           /\ Goto(t, "fallback")
           /\ UNCHANGED outcome

\* A thread calls project(); the id of the call stands for the trace id, the
\* actions and the binding digest of the request.
Call(t) ==
  /\ pc[t] = "idle" /\ calls < MaxCalls
  /\ calls' = calls + 1
  /\ req' = [req EXCEPT ![t] = calls + 1]
  /\ Goto(t, "entering")
  /\ goal' = [goal EXCEPT ![t] = "solve"]
  /\ outcome' = [outcome EXCEPT ![t] = [how |-> "none", answer |-> 0]]
  /\ UNCHANGED <<lock, proc, started, restarts, pipeVars, opens,
                 spawned, config>>

\* MUTANT of FindRunning: _started is not looked at.
FindProcess(t) ==
  /\ pc[t] = "entering" /\ lock = NoThread
  /\ proc = "alive"
  /\ lock' = t
  /\ Goto(t, "ready")
  /\ UNCHANGED <<proc, started, restarts, pipeVars, calls, opens, goal, req,
                 outcome, spawned, config>>

\* _ensure_running: there is a worker that completed its handshake.
FindRunning(t) ==
  /\ pc[t] = "entering" /\ lock = NoThread
  /\ proc = "alive" /\ started
  /\ lock' = t
  /\ Goto(t, "ready")
  /\ UNCHANGED <<proc, started, restarts, pipeVars, calls, opens, goal, req,
                 outcome, spawned, config>>

NotRunning == ~(proc = "alive" /\ started)

\* _ensure_running: "worker restart budget exhausted".
FindBudgetSpent(t) ==
  /\ pc[t] = "entering" /\ lock = NoThread
  /\ NotRunning /\ restarts > config.maxRestarts
  /\ Fail(t)
  /\ UNCHANGED <<proc, started, restarts, pipeVars, calls, opens, goal, req,
                 spawned, config>>

\* _ensure_running: start, counted as a restart when there was a worker before.
FindStopped(t) ==
  /\ pc[t] = "entering" /\ lock = NoThread
  /\ NotRunning /\ restarts <= config.maxRestarts
  /\ lock' = t
  /\ restarts' = IF started \/ proc # "none" THEN restarts + 1 ELSE restarts
  /\ Goto(t, "spawning")
  /\ UNCHANGED <<proc, started, pipeVars, calls, opens, goal, req,
                 outcome, spawned, config>>

\* The user calls start(): the with statement, start_sidecar_from_env.
Open(t) ==
  /\ pc[t] = "idle" /\ opens < MaxOpens /\ lock = NoThread
  /\ opens' = opens + 1
  /\ lock' = t
  /\ goal' = [goal EXCEPT ![t] = "open"]
  /\ Goto(t, "spawning")
  /\ UNCHANGED <<proc, started, restarts, pipeVars, calls, req, outcome,
                 spawned, config>>

\* _stop_unlocked: _proc is forgotten, its process told to go or killed.
Forget == /\ started' = FALSE
          /\ inbox' = <<>> /\ outbox' = <<>> /\ helloSeen' = FALSE
          /\ strays' = 0 /\ torn' = FALSE

\* The user calls close(), which writes shutdown to a live worker.
Close(t) ==
  /\ pc[t] = "idle" /\ opens < MaxOpens /\ lock = NoThread
  /\ opens' = opens + 1
  /\ lock' = t
  /\ Goto(t, "closing")
  /\ goal' = [goal EXCEPT ![t] = "open"]
  /\ UNCHANGED <<proc, started, restarts, pipeVars, calls, req, outcome, spawned,
                 config>>

\* The pipe to the worker is full: a write waits until the worker has read, or
\* died.  What remains of a request is in the pipe once no more than the room
\* is unread; a shutdown is short, and waits for other messages only.
Full == proc = "alive" /\ Len(inbox) > config.room
NoneFits == proc = "alive" /\ inbox # <<>> /\ Len(inbox) >= config.room

\* shutdown is written, or could not be; the process goes, or is killed.
Closed(t) ==
  /\ pc[t] = "closing" /\ ~NoneFits
  /\ proc' = "none"
  /\ Forget
  /\ lock' = NoThread
  /\ Goto(t, "idle")
  /\ UNCHANGED <<restarts, calls, opens, goal, req, outcome, spawned, config>>

\* start(): stop the old worker, spawn a new one and write hello to it.
Spawn(t) ==
  /\ pc[t] = "spawning"
  /\ proc' = "alive"
  /\ started' = FALSE
  /\ inbox' = <<0>> /\ outbox' = <<>> /\ helloSeen' = FALSE
  /\ strays' = 0 /\ torn' = FALSE
  /\ Goto(t, "handshake")
  /\ spawned' = spawned + 1
  /\ UNCHANGED <<lock, restarts, calls, opens, goal, req, outcome, config>>

\* What follows start(), which ended well or with a SidecarWorkerError.
AfterStart(t, ok) ==
  \/ /\ goal[t] = "solve" /\ ok
     /\ Goto(t, "ready")
     /\ UNCHANGED <<lock, outcome>>
  \/ goal[t] = "solve" /\ ~ok /\ Fail(t)
  \/ /\ goal[t] # "solve"
     /\ Goto(t, IF goal[t] = "restart" THEN "public" ELSE "idle")
     /\ lock' = NoThread
     /\ UNCHANGED outcome

\* start(): "wsl.exe not found"; the old worker is gone all the same.
SpawnRefused(t) ==
  /\ pc[t] = "spawning"
  /\ proc' = "none"
  /\ Forget
  /\ AfterStart(t, FALSE)
  /\ UNCHANGED <<restarts, calls, opens, goal, req, spawned, config>>

\* start(): Popen raises OSError, which neither project nor _apply_fallback
\* catches.
SpawnRaises(t) ==
  /\ pc[t] = "spawning"
  /\ proc' = "none"
  /\ Forget
  /\ lock' = NoThread
  /\ IF goal[t] = "open" THEN Goto(t, "idle") /\ UNCHANGED outcome
                         ELSE End(t, "escaped", 0)
  /\ UNCHANGED <<restarts, calls, opens, goal, req, spawned, config>>

\* The readline of t's _read returns the line m.  Strays read the same
\* unbuffered stdout byte by byte: when there is one, the line may be torn.
GotLine(m) ==
  /\ outbox # <<>>
  /\ outbox' = Tail(outbox)
  /\ torn' = FALSE
  /\ \/ ~torn /\ m = Head(outbox)
     \/ (torn \/ strays > 0) /\ m = Msg("garbage", 0)
  /\ UNCHANGED <<inbox, helloSeen, strays>>

\* MUTANT of GaveUp: the reader thread is taken to be gone.
GaveUpCleanly == /\ torn' = FALSE
                 /\ UNCHANGED <<strays, inbox, outbox, helloSeen>>

\* thread.join(timeout) gives up: the reader thread stays behind.
GaveUp == /\ strays' = strays + 1
          /\ torn' = FALSE
          /\ UNCHANGED <<inbox, outbox, helloSeen>>

\* readline returns b"": the worker exited.
AtEof == /\ proc = "dead" /\ outbox = <<>>
         /\ torn' = FALSE
         /\ UNCHANGED <<inbox, outbox, helloSeen, strays>>

HelloAcked(t) ==
  /\ pc[t] = "handshake"
  /\ GotLine(Msg("hello_ack", 0))
  /\ started' = TRUE
  /\ AfterStart(t, TRUE)
  /\ UNCHANGED <<proc, restarts, calls, opens, goal, req, spawned, config>>

\* The worker stays in _proc, but not started.
HelloFails(t) ==
  /\ pc[t] = "handshake"
  /\ \/ AtEof \/ GaveUp
     \/ \E m \in Messages : m.kind # "hello_ack" /\ GotLine(m)
  /\ AfterStart(t, FALSE)
  /\ UNCHANGED <<proc, started, restarts, calls, opens, goal, req, spawned,
                 config>>

\* _write: write and flush block, under the lock and without a timeout, for as
\* long as the pipe is full.
Send(t) ==
  /\ pc[t] = "ready" /\ proc = "alive"
  /\ inbox' = Append(inbox, req[t])
  /\ Goto(t, "writing")
  /\ UNCHANGED <<lock, proc, started, restarts, outbox, helloSeen, strays, torn,
                 calls, opens, goal, req, outcome, spawned, config>>

\* flush returns: all of the request is in the pipe or was read.
Sent(t) ==
  /\ pc[t] = "writing" /\ ~Full
  /\ Goto(t, "reading")
  /\ UNCHANGED <<lock, proc, started, restarts, pipeVars, calls, opens, goal, req,
                 outcome, spawned, config>>

\* BrokenPipeError on write.
SendFails(t) ==
  /\ pc[t] \in {"ready", "writing"} /\ proc # "alive"
  /\ Fail(t)
  /\ UNCHANGED <<proc, started, restarts, pipeVars, calls, opens, goal, req,
                 spawned, config>>

\* A complete, verified reply whose digest is that of the request.
Usable(m, id) == m.kind = "solved" /\ m.id = id

Accept(t) ==
  /\ pc[t] = "reading"
  /\ \E m \in Messages : /\ GotLine(m) /\ Usable(m, req[t])
                         /\ End(t, "worker", m.id)
  /\ lock' = NoThread
  /\ UNCHANGED <<proc, started, restarts, calls, opens, goal, req,
                 spawned, config>>

\* Death, timeout, an error or invalid line, another request's digest, a
\* refused solve.  (A hello_ack would make from_message raise a
\* SidecarProtocolError, which project does not catch.)
Reject(t) ==
  /\ pc[t] = "reading"
  /\ \/ (AtEof \/ GaveUp) /\ Fail(t)
     \/ \E m \in Messages :
          /\ GotLine(m) /\ ~Usable(m, req[t])
          /\ IF m.kind \in {"hello_ack", "bad_ack"}
             THEN End(t, "escaped", 0) /\ lock' = NoThread
             ELSE Fail(t)
  /\ UNCHANGED <<proc, started, restarts, calls, opens, goal, req, spawned,
                 config>>
-----------------------------------------------------------------------------
\* _apply_fallback under FAIL_CLOSED.
RaiseClosed(t) ==
  /\ pc[t] = "fallback" /\ config.failClosed
  /\ End(t, "raised", 0)
  /\ UNCHANGED <<lock, proc, started, restarts, pipeVars, calls, opens, goal,
                 req, spawned, config>>

\* _apply_fallback: the bounded restart for subsequent solves.
FallbackRestart(t) ==
  /\ pc[t] = "fallback" /\ ~config.failClosed /\ lock = NoThread
  /\ restarts < config.maxRestarts
  /\ restarts' = restarts + 1
  /\ lock' = t
  /\ goal' = [goal EXCEPT ![t] = "restart"]
  /\ Goto(t, "spawning")
  /\ UNCHANGED <<proc, started, pipeVars, calls, opens, req, outcome,
                 spawned, config>>

FallbackNoRestart(t) ==
  /\ pc[t] = "fallback" /\ ~config.failClosed /\ lock = NoThread
  /\ restarts >= config.maxRestarts
  /\ Goto(t, "public")
  /\ UNCHANGED <<lock, proc, started, restarts, pipeVars, calls, opens, goal,
                 req, outcome, spawned, config>>

\* The public projector releases a verified action or raises.
PublicSolve(t) ==
  /\ pc[t] = "public"
  /\ \/ End(t, "public", req[t])
     \/ End(t, "raised", 0)
  /\ UNCHANGED <<lock, proc, started, restarts, pipeVars, calls, opens, goal,
                 req, spawned, config>>
-----------------------------------------------------------------------------
\* run_worker_loop: one message is read and answered.
Reply(m) == outbox' = Append(outbox, m) /\ inbox' = Tail(inbox)

WorkerHello ==
  /\ proc = "alive" /\ inbox # <<>> /\ Head(inbox) = 0
  /\ helloSeen' = TRUE
  /\ \/ Reply(Msg("hello_ack", 0))
     \/ Reply(Msg("bad_ack", 0))
  /\ UNCHANGED <<lock, proc, started, restarts, strays, torn, calls, opens, pc,
                 goal, req, outcome, spawned, config>>

\* A solve is answered once: solved and verified, refused with the digest
\* (ok = false), expired without it, or an error message.
WorkerSolve ==
  /\ proc = "alive" /\ inbox # <<>> /\ Head(inbox) # 0
  /\ LET id == Head(inbox)
     IN  IF helloSeen
         THEN \/ Reply(Msg("solved", id))
              \/ Reply(Msg("refused", id))
              \/ Reply(Msg("expired", 0))
         ELSE Reply(Msg("error", 0))
  /\ UNCHANGED <<lock, proc, started, restarts, helloSeen, strays, torn, calls,
                 opens, pc, goal, req, outcome, spawned, config>>

\* The worker dies: a crash, or an exit because of --require-moreau.  What it
\* has written can still be read.
WorkerDies ==
  /\ proc = "alive"
  /\ proc' = "dead"
  /\ inbox' = <<>>
  /\ UNCHANGED <<lock, started, restarts, outbox, helloSeen, strays, torn,
                 calls, opens, pc, goal, req, outcome, spawned,
                 config>>

Reading(t) == pc[t] \in {"handshake", "reading"}

\* It reads, or will when its write returns.
Awaiting(t) == Reading(t) \/ pc[t] = "writing"

\* The readline of an abandoned reader returns the next line, and may have
\* left some of its bytes to the reader of a call in progress, or to none.
StrayReads ==
  /\ strays > 0 /\ outbox # <<>>
  /\ strays' = strays - 1
  /\ outbox' = Tail(outbox)
  /\ torn' \in IF \E t \in Threads : Reading(t) THEN {torn, TRUE} ELSE {FALSE}
  /\ UNCHANGED <<lock, proc, started, restarts, inbox, helloSeen, calls, opens,
                 pc, goal, req, outcome, spawned, config>>

StraysEnd ==
  /\ strays > 0 /\ proc = "dead" /\ outbox = <<>>
  /\ strays' = 0
  /\ UNCHANGED <<lock, proc, started, restarts, inbox, outbox, helloSeen, torn,
                 calls, opens, pc, goal, req, outcome, spawned,
                 config>>

Step(t) == \/ FindRunning(t) \/ FindBudgetSpent(t) \/ FindStopped(t)
           \/ Spawn(t) \/ SpawnRefused(t) \/ SpawnRaises(t)
           \/ HelloAcked(t) \/ HelloFails(t)
           \/ Send(t) \/ Sent(t) \/ SendFails(t) \/ Closed(t)
           \/ Accept(t) \/ Reject(t)
           \/ RaiseClosed(t) \/ FallbackRestart(t) \/ FallbackNoRestart(t)
           \/ PublicSolve(t)

Next == \/ \E t \in Threads : Call(t) \/ Open(t) \/ Close(t) \/ Step(t)
        \/ WorkerHello \/ WorkerSolve \/ WorkerDies
        \/ StrayReads \/ StraysEnd

Spec == Init /\ [][Next]_vars

\* A thread inside a call is scheduled, and each of its waits has a timeout but
\* for those of a write.  Nothing makes the worker read or answer.
FairSpec == Spec /\ \A t \in Threads : WF_vars(Step(t))
-----------------------------------------------------------------------------
(***************************************************************************)
(* Correctness.                                                            *)
(***************************************************************************)

\* The lock serialises conversations with the worker: whoever writes a
\* request, waits for its reply or restarts the worker holds it, and it is
\* free otherwise, whichever way (return, error, escape) a call left it.
OneConversation == \A t \in Threads : pc[t] \in Critical <=> lock = t

\* "workers recompute and reject mismatches": an action that project returns
\* as the worker's answers the very request of that call, although the late
\* answers of calls that timed out still come through the same pipe.
AnswerMatchesRequest ==
  \A t \in Threads : outcome[t].how = "worker" => outcome[t].answer = req[t]

\* The request/reply pairing survives timeouts: the live worker owes one
\* reply to every reader, abandoned or not, so a late answer is read by
\* somebody and never shifts the answers of the calls that follow for ever.
EveryReplyHasAReader ==
  proc = "alive" =>
    Len(inbox) + Len(outbox) =
      strays + Cardinality({t \in Threads : Awaiting(t)})

\* A solve never meets the answer of a handshake that its client gave up on,
\* which would leave project with an uncaught SidecarProtocolError (line 395).
NoForeignReply ==
  \A t \in Threads : pc[t] = "reading" =>
    \A i \in DOMAIN outbox : outbox[i].kind \notin {"hello_ack", "bad_ack"}

\* The two counting places (332-337 and 512-513) together bound the workers:
\* each spawn was counted as a restart, asked for by the user, or the first.
WorkersBounded == /\ restarts <= config.maxRestarts + 1
                  /\ spawned <= restarts + opens + 1

\* t holds the lock in a write that the worker does not let return.
Jammed(t) == \/ pc[t] = "writing" /\ Full
             \/ pc[t] = "closing" /\ NoneFits

\* Every call of project, start and close ends, by a result or an exception,
\* although the worker may stop answering at any moment: every wait for an
\* answer has a timeout, and no path keeps the lock.  What the code leaves to
\* the worker is named: no write stays jammed, for a worker that neither reads
\* nor dies keeps the writer, and with it whoever waits for the lock.
EveryCallEnds ==
  (\A t \in Threads : []<>~Jammed(t)) =>
     \A t \in Threads : (pc[t] # "idle") ~> (pc[t] = "idle")

=============================================================================
