--------------------------- MODULE ReleasePipeline ---------------------------
(***************************************************************************)
(* run_verified_release_pipeline (conicshield/verification/fallback.py):   *)
(* the ladder primary, cold retry, public fallback, fail-safe that every   *)
(* projector runs, with its attempt limit and its shared deadline; one     *)
(* call after another.                                                     *)
(*                                                                         *)
(* A candidate is abstracted to what verification finds in it, a status to *)
(* what the release policy says of it.  A solve takes time, so a rung is   *)
(* entered and left in two steps and the deadline may pass between them.   *)
(***************************************************************************)
EXTENDS Naturals, Sequences

CONSTANTS MaxAttempts,     \* FallbackConfig.max_attempts
          ColdRetry,       \* enable_cold_retry
          PublicFallback,  \* there is a public_fallback
          FailSafe,        \* a fail-safe policy other than REJECT is declared
          HasDeadline,     \* deadline_sec is given
          Acceptable       \* the statuses the release policy accepts

Candidates == {"none", "nonfinite", "violating", "good"}
Statuses == {"optimal", "inaccurate", "limit", "error"}

ASSUME PipelineAssumption ==
  /\ MaxAttempts \in Nat
  /\ {ColdRetry, PublicFallback, FailSafe, HasDeadline} \subseteq BOOLEAN
  /\ Acceptable \subseteq Statuses

VARIABLES
  rung,     \* the rung that is next or in progress, or how the call ended
  solving,  \* the rung is in progress
  attempts, \* attempts
  spent,    \* the deadline has passed
  warmed,   \* primary.warm_started
  history,  \* the kinds and decisions of history
  released  \* the candidate and status that were released

vars == <<rung, solving, attempts, spent, warmed, history, released>>

Kinds == <<"primary", "cold_retry", "fallback", "fail_safe">>
KindSet == {Kinds[i] : i \in 1..4}
Rank(kind) == CHOOSE i \in 1..4 : Kinds[i] = kind
Ended == {"idle", "released", "raised"}

\* SolveAttemptResult; a solve that raised has no candidate.
Attempts == {a \in [cand : Candidates, status : Statuses,
                    raised : BOOLEAN, warm : BOOLEAN] :
               a.raised => a.cand = "none" /\ a.status = "error"}

Accepted(kind) == CASE kind = "primary"    -> "accepted_primary"
                    [] kind = "cold_retry" -> "accepted_after_retry"
                    [] kind = "fallback"   -> "accepted_fallback"
                    [] kind = "fail_safe"  -> "accepted_fail_safe"
Decisions == {Accepted(kind) : kind \in KindSet} \cup
             {"rejected_backend_error", "rejected_nonfinite", "rejected_status",
              "rejected_residual", "error"}
Nothing == [cand |-> "none", status |-> "error"]

TypeOK == /\ rung \in KindSet \cup Ended
          /\ solving \in BOOLEAN
          /\ attempts \in Nat
          /\ spent \in BOOLEAN
          /\ warmed \in BOOLEAN
          /\ history \in Seq([kind : KindSet, decision : Decisions])
          /\ released \in [cand : Candidates, status : Statuses]

Init == /\ rung = "idle" /\ solving = FALSE
        /\ attempts = 0 /\ spent = FALSE /\ warmed = FALSE
        /\ history = <<>> /\ released = Nothing
-----------------------------------------------------------------------------
\* max(1, int(config.max_attempts))
Limit == IF MaxAttempts < 1 THEN 1 ELSE MaxAttempts

\* MUTANT of CanTry: the deadline is only looked at by the caller.
CanTryLate == attempts < Limit

CanTry == attempts < Limit /\ ~spent

\* MUTANT of Applies: the cold retry does not ask whether the primary solve
\* was warm.
AppliesAnyway(kind) ==
  CASE kind = "primary"    -> TRUE
    [] kind = "cold_retry" -> ColdRetry
    [] kind = "fallback"   -> PublicFallback
    [] kind = "fail_safe"  -> FailSafe

\* The rung is configured (and, for the cold retry, worth while).
Applies(kind) ==
  CASE kind = "primary"    -> TRUE
    [] kind = "cold_retry" -> ColdRetry /\ warmed
    [] kind = "fallback"   -> PublicFallback
    [] kind = "fail_safe"  -> FailSafe

\* MUTANT of Below: a rejected primary goes straight to the public fallback.
BelowSkipsRetry(kind) == IF kind = "fail_safe" THEN "raised"
                         ELSE IF kind = "primary" THEN "fallback"
                         ELSE Kinds[Rank(kind) + 1]

Below(kind) == IF kind = "fail_safe" THEN "raised" ELSE Kinds[Rank(kind) + 1]

\* MUTANT of Decision: residuals are checked for the primary solve only.
DecisionStatusOnly(kind, a) ==
  IF a.raised \/ a.status = "error" THEN "rejected_backend_error"
  ELSE IF a.cand \in {"none", "nonfinite"} THEN "rejected_nonfinite"
  ELSE IF a.status \notin Acceptable THEN "rejected_status"
  ELSE IF a.cand = "violating" /\ kind = "primary" THEN "rejected_residual"
  ELSE Accepted(kind)

\* classify_release: an acceptable status and residuals within tolerance.
Decision(kind, a) ==
  IF a.raised \/ a.status = "error" THEN "rejected_backend_error"
  ELSE IF a.cand \in {"none", "nonfinite"} THEN "rejected_nonfinite"
  ELSE IF a.status \notin Acceptable THEN "rejected_status"
  ELSE IF a.cand = "violating" THEN "rejected_residual"
  ELSE Accepted(kind)

\* _record: what the history says of an attempt.
Recorded(kind, a) == IF a.raised THEN "error" ELSE Decision(kind, a)

\* The pipeline is called; a deadline of zero is spent at once.
Begin == /\ rung \in Ended
         /\ rung' = "primary" /\ solving' = FALSE
         /\ attempts' = 0 /\ warmed' = FALSE
         /\ spent' \in IF HasDeadline THEN BOOLEAN ELSE {FALSE}
         /\ history' = <<>> /\ released' = Nothing

\* The time budget runs out.
Expire == /\ HasDeadline /\ ~spent /\ rung \notin Ended
          /\ spent' = TRUE
          /\ UNCHANGED <<rung, solving, attempts, warmed, history, released>>

Try(kind) == /\ rung = kind /\ ~solving
             /\ Applies(kind) /\ CanTry
             /\ solving' = TRUE
             /\ UNCHANGED <<rung, attempts, spent, warmed, history, released>>

\* "release pipeline exhausted before primary solve", or the next rung.
Skip(kind) == /\ rung = kind /\ ~solving
              /\ ~(Applies(kind) /\ CanTry)
              /\ rung' = IF kind = "primary" THEN "raised" ELSE Below(kind)
              /\ UNCHANGED <<solving, attempts, spent, warmed, history, released>>

\* _try_candidate, with what the solve of this rung gave.
Finish(kind, a) ==
  /\ rung = kind /\ solving
  /\ solving' = FALSE
  /\ attempts' = attempts + 1
  /\ warmed' = IF kind = "primary" THEN a.warm ELSE warmed
  /\ history' = Append(history, [kind |-> kind, decision |-> Recorded(kind, a)])
  /\ IF Decision(kind, a) = Accepted(kind)
     THEN rung' = "released" /\ released' = [cand |-> a.cand, status |-> a.status]
     ELSE rung' = Below(kind) /\ UNCHANGED released
  /\ UNCHANGED spent

FinishSolve == \E a \in Attempts : \/ Finish("primary", a)
                                   \/ ~a.warm /\ Finish("cold_retry", a)
                                   \/ ~a.warm /\ Finish("fallback", a)

\* The synthetic candidate is "optimal" by declaration.
FinishFailSafe ==
  \E cand \in {"violating", "good"} :
    Finish("fail_safe", [cand |-> cand, status |-> "optimal",
                         raised |-> FALSE, warm |-> FALSE])

\* build_fail_safe_action raises: recorded, not counted as an attempt.
NoFailSafe ==
  /\ rung = "fail_safe" /\ solving
  /\ rung' = "raised" /\ solving' = FALSE
  /\ history' = Append(history, [kind |-> "fail_safe",
                                 decision |-> "rejected_backend_error"])
  /\ UNCHANGED <<attempts, spent, warmed, released>>

Progress == \/ \E kind \in KindSet : Try(kind) \/ Skip(kind)
            \/ FinishSolve \/ FinishFailSafe \/ NoFailSafe

Next == Begin \/ Expire \/ Progress

Spec == Init /\ [][Next]_vars
-----------------------------------------------------------------------------
(***************************************************************************)
(* Correctness.                                                            *)
(***************************************************************************)

\* "Backend-independent gate: status + residuals must both pass": what is
\* released, on whichever rung, was found good with an accepted status, and
\* the decision reported is the last of the history and names that rung.
ReleasedIsVerified ==
  rung = "released" =>
    /\ released.cand = "good" /\ released.status \in Acceptable \ {"error"}
    /\ history # <<>>
    /\ history[Len(history)].decision = Accepted(history[Len(history)].kind)

\* The ladder is climbed down: no rung is tried twice or after a lower one,
\* a cold retry follows a warm primary solve only, nothing follows an accepted
\* attempt, and there are never more attempts than max_attempts.
LadderInOrder ==
  /\ attempts <= Limit
  /\ \A i, j \in DOMAIN history : i < j =>
       /\ Rank(history[i].kind) < Rank(history[j].kind)
       /\ history[i].decision # Accepted(history[i].kind)
  /\ \A i \in DOMAIN history : history[i].kind = "cold_retry" => warmed

\* "Every attempt consumes the shared deadline budget": no rung is entered
\* once the deadline has passed.
NoAttemptAfterDeadline == [][spent /\ solving' => solving]_vars

\* The rung was tried, whatever came of it.
Tried(kind) == \E i \in DOMAIN history : history[i].kind = kind

NonePassedOver ==
  \A i \in DOMAIN history, kind \in KindSet :
    Applies(kind) /\ Rank(kind) < Rank(history[i].kind) => Tried(kind)

GaveUpForCause ==
  rung = "raised" => \/ spent \/ attempts = Limit
                     \/ \A kind \in KindSet : Applies(kind) => Tried(kind)

\* A rung is passed over for good reason only.  Above a rung that was tried
\* every configured one was tried: what refused it (time, attempts) would have
\* refused those below.  And the pipeline gives up only when every configured
\* rung was tried, or time or attempts ran out.
GivesUpExhausted == NonePassedOver /\ GaveUpForCause

\* How a call of the pipeline goes, from its first rung to its end: down the
\* ladder, past a rung for good reason only, to a verified release or to a
\* refusal that has a cause.
LadderIsSound == LadderInOrder /\ ReleasedIsVerified /\ GivesUpExhausted
=============================================================================
