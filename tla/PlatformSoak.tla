---------------------------- MODULE PlatformSoak ----------------------------
(***************************************************************************)
(* Soak reports of several machines and their aggregate                    *)
(* (experimental/assurance/platform_soak.py, multi_host_soak_sim.py,       *)
(* status_report.py).  A machine runs the soak at whatever its worktree    *)
(* holds and leaves a report; reports are collected and aggregated into    *)
(* the evidence that several hosts agree; all of it can be declared        *)
(* invalid in place; and a status page is rendered from the aggregate.     *)
(*                                                                         *)
(* The digests of the problem and of the sealed action are tuples of what  *)
(* they digest.  Numerical residuals, blockers and notes decide nothing.   *)
(* A report never claims level 4 nor a live sensitivity here: the bundle   *)
(* of the soak is built without a sensitivity.                             *)
(***************************************************************************)
EXTENDS Naturals, FiniteSets, Sequences

CONSTANTS Machines, HasGit, Native,   \* the machines; with git; with Moreau
          Revisions, CorpusOf,        \* revisions, and the corpus of each
          Start,                      \* the revision all have at first
          Roles,                      \* of REQUIRED_MATRIX_ROLES, or unspecified
          Soaks,                      \* calls: kind of host, role, outcome
          Requests,                   \* of an aggregation: expected, required
          MaxRuns, MaxChanges

ASSUME PlatformSoakAssumption ==
  /\ HasGit \subseteq Machines /\ Native \subseteq Machines /\ Start \in Revisions
  /\ CorpusOf \in [Revisions -> Nat] /\ MaxRuns \in Nat /\ MaxChanges \in Nat
  /\ IsFiniteSet(Machines) /\ IsFiniteSet(Roles)
  /\ {"latest", "simulation", "clone"} \cap Roles = {}
  /\ \A soak \in Soaks : soak.role \in Roles
  /\ \A q \in Requests : \A r, s \in q.expected : r = s

VARIABLES
  worktree,   \* per machine: the revision checked out, and what was edited
  files,      \* the reports on disk, by path
  aggregate,  \* platform_soak_aggregate.json, if any
  runs,       \* ghost: the soaks run: machine, revision and edits of each
  revoked,    \* ghost: the soaks whose reports a whole invalidation covered
  changes     \* bound on the changes of a worktree

soakVars == <<worktree, files, aggregate, runs, revoked, changes>>

NativeRoles == {"linux_wsl_moreau_cpu", "linux_moreau_cuda"}
MoreauRoles == NativeRoles \cup {"windows_wsl_sidecar"}

\* A machine's last report, its report per host id, and what a simulation
\* leaves: its primary's report and the synthetic clone of it.
Paths == Machines \X (Roles \cup {"latest", "simulation", "clone"})
OnDisk == {p \in Paths : files[p] # {}}

SoakInit ==
  /\ worktree = [m \in Machines |-> [revision |-> Start, edited |-> "nothing"]]
  /\ files = [p \in Paths |-> {}] /\ aggregate = {}
  /\ runs = <<>> /\ revoked = {} /\ changes = 0

\* Another revision is checked out, or files are edited.  Only a soak reads a
\* worktree: none is changed after the last one.
Change(m) ==
  /\ changes < MaxChanges /\ changes' = changes + 1 /\ Len(runs) < MaxRuns
  /\ \/ \E r \in Revisions \ {worktree[m].revision} :
          worktree' = [worktree EXCEPT ![m].revision = r]
     \/ \E e \in {"nothing", "code", "problem"} \ {worktree[m].edited} :
          worktree' = [worktree EXCEPT ![m].edited = e]
  /\ UNCHANGED <<files, aggregate, runs, revoked>>
-----------------------------------------------------------------------------
(* Running the soak.                                                       *)

\* resolve_matrix_role: a synthetic host cannot take a role of Moreau's.
RoleAllowed(role, kind) == kind = "synthetic" => role \notin MoreauRoles

\* begin_experiment_provenance: without git there is no commit, and not dirty.
Commit(m) == IF m \in HasGit THEN {worktree[m].revision} ELSE {}
Dirty(m) == m \in HasGit /\ worktree[m].edited # "nothing"

Problem(m) == IF worktree[m].edited = "problem" THEN <<"edited", worktree[m].revision>>
                                                ELSE <<"corpus", CorpusOf[worktree[m].revision]>>

\* run_platform_soak: the report.  The host id is made of the machine and the
\* role when none is given.  The sealed action is that of the problem, up to
\* what two solvers differ in.
Report(m, host, soak) ==
  [host |-> host, kind |-> soak.kind, role |-> soak.role, passed |-> soak.passed,
   commit |-> Commit(m), dirty |-> Dirty(m), corpus |-> CorpusOf[worktree[m].revision],
   problem |-> Problem(m), sealed |-> <<"sealed", Problem(m), soak.variant>>,
   native |-> soak.role \in NativeRoles /\ m \in Native,
   synthetic |-> FALSE, run |-> Len(runs) + 1]

Ran(m) == /\ Len(runs) < MaxRuns
          /\ runs' = Append(runs, [machine |-> m, revision |-> worktree[m].revision,
                                   edited |-> worktree[m].edited])

\* The last report is written before the one named after the host: a run cut
\* off in between leaves the old report under that name.
RunSoak(m) ==
  /\ Ran(m)
  /\ \E soak \in Soaks, whole \in BOOLEAN :
       /\ RoleAllowed(soak.role, soak.kind)
       /\ LET r == Report(m, <<m, soak.role>>, soak)
          IN  files' = [p \in Paths |->
                IF p = <<m, "latest">> \/ (whole /\ p = <<m, soak.role>>) THEN {r} ELSE files[p]]
  /\ UNCHANGED <<worktree, aggregate, revoked, changes>>

\* synthesize_second_host_report
Clone(r, match) ==
  [r EXCEPT !.host = <<"synthetic-host-b">>, !.kind = "synthetic",
            !.sealed = IF match THEN @ ELSE [@ EXCEPT ![1] = "mismatched"]]

\* run_multi_host_soak_simulation.  Its aggregate is written elsewhere than
\* the one the status is read from, and has a synthetic host.
Simulate(m) ==
  /\ Ran(m)
  /\ \E soak \in Soaks, match \in BOOLEAN :
       /\ soak.kind = "real" /\ soak.role = "linux_public"
       /\ LET r == Report(m, <<"sim-host-a">>, soak)
          IN  files' = [files EXCEPT ![<<m, "simulation">>] = {r},
                                     ![<<m, "clone">>] = {Clone(r, match)}]
  /\ UNCHANGED <<worktree, aggregate, revoked, changes>>
-----------------------------------------------------------------------------
(* aggregate_platform_soaks: rows are the reports, expected the commit     *)
(* asked for, if any, required the matrices asked for.                     *)

RealHosts(rows) == {r.host : r \in {x \in rows : x.kind = "real"}}
Synthetic(rows) == {r \in rows : r.kind = "synthetic"}
Values(rows, field) == {r[field] : r \in rows}
Commits(rows) == UNION Values(rows, "commit")

ClaimsMoreau(rows) == \E r \in rows : r.role \in MoreauRoles
NoNative(rows) == ClaimsMoreau(rows) /\ ~\E r \in rows : r.native

\* MUTANT of StaleCommits: hosts may disagree when no commit is asked for.
StaleCommitsExpectedOnly(rows, expected) ==
  expected # {} /\ (Commits(rows) # expected)

\* stale_commit_notes: hosts without a commit count only when all are without.
StaleCommits(rows, expected) ==
  \/ Cardinality(Commits(rows)) > 1
  \/ expected # {} /\ (Commits(rows) \ expected # {} \/ Commits(rows) = {})

\* _claims_l3_or_higher: synthetic sensitivity counts as a claim.
UnfoundedL3(rows) == \E r \in rows : r.synthetic

LacksPublic(rows, required) ==
  "public" \in required /\ ~({"linux_public", "windows_public"} \subseteq Values(rows, "role"))
LacksMoreau(rows, required) ==
  "moreau" \in required /\ Values(rows, "role") \cap NativeRoles = {}

\* The list rejection_reasons.
Reasons(rows, expected, required) ==
  {reason \in {"insufficient_real_hosts", "synthetic_hosts", "sealed_digest_mismatch",
               "problem_digest_mismatch", "dirty_worktree", "stale_or_mismatched_commit",
               "provenance_mismatch", "synthetic_sensitivity", "missing_gradient_for_l3",
               "moreau_claim_without_native_host", "incomplete_public_matrix",
               "incomplete_moreau_matrix"} :
     \/ reason = "insufficient_real_hosts" /\ Cardinality(RealHosts(rows)) < 2
     \/ reason = "synthetic_hosts" /\ Synthetic(rows) # {}
     \/ reason = "sealed_digest_mismatch" /\ Cardinality(Values(rows, "sealed")) > 1
     \/ reason = "problem_digest_mismatch" /\ Cardinality(Values(rows, "problem")) > 1
     \/ reason = "dirty_worktree" /\ \E r \in rows : r.dirty
     \/ reason = "stale_or_mismatched_commit" /\ StaleCommits(rows, expected)
     \/ reason = "provenance_mismatch" /\ Cardinality(Values(rows, "corpus")) > 1
     \/ reason \in {"synthetic_sensitivity", "missing_gradient_for_l3"} /\ UnfoundedL3(rows)
     \/ reason = "moreau_claim_without_native_host" /\ NoNative(rows)
     \/ reason = "incomplete_public_matrix" /\ LacksPublic(rows, required)
     \/ reason = "incomplete_moreau_matrix" /\ LacksMoreau(rows, required)}

\* gate_ready, written out a second time in the code.
GateReady(rows, expected, required) ==
  /\ Cardinality(RealHosts(rows)) >= 2 /\ Synthetic(rows) = {}
  /\ Cardinality(Values(rows, "sealed")) = 1 /\ Cardinality(Values(rows, "problem")) = 1
  /\ Cardinality(Values(rows, "corpus")) = 1 /\ ~StaleCommits(rows, expected)
  /\ ~NoNative(rows) /\ ~LacksPublic(rows, required) /\ ~LacksMoreau(rows, required)
  /\ \A r \in rows : r.passed /\ ~r.dirty /\ ~r.synthetic

\* main with --aggregate.  What is written depends on nothing but the reports:
\* one aggregation, at any moment, is the bound.
Aggregate ==
  /\ aggregate = {}
  /\ \E S \in (SUBSET OnDisk) \ {{}}, q \in Requests :
       LET rows == UNION {files[p] : p \in S}
       IN  aggregate' = {[rows |-> rows, expected |-> q.expected, invalid |-> FALSE,
                          ready |-> GateReady(rows, q.expected, q.required),
                          reasons |-> Reasons(rows, q.expected, q.required)]}
  /\ UNCHANGED <<worktree, files, runs, revoked, changes>>
-----------------------------------------------------------------------------
(* Declaring what is on disk invalid.                                      *)

\* MUTANT of Annotated: only the schema of a report says that it is deprecated.
AnnotatedSchemaOnly(r) == r

\* annotate_deprecated_soak_artifact, of a report and of an aggregate.
Annotated(r) == [r EXCEPT !.synthetic = TRUE]
AnnotatedAggregate(a) == [a EXCEPT !.ready = FALSE, !.invalid = TRUE]

\* The files whose name begins with platform_soak: not the clone.  (Cut off in
\* the middle, the command fails and has to be run again.)
Covered == {p \in OnDisk : p[2] # "clone"}
Annotate(S) ==
  files' = [p \in Paths |-> IF p \in S THEN {Annotated(r) : r \in files[p]} ELSE files[p]]

\* invalidate_on_disk_soak_artifacts, which status_report.py calls as well
\* before it renders the gate from the aggregate.
Invalidate ==
  /\ Annotate(Covered)
  /\ aggregate' = {AnnotatedAggregate(a) : a \in aggregate}
  /\ revoked' = revoked \cup {r.run : r \in UNION {files[p] : p \in Covered}}
  /\ UNCHANGED <<worktree, runs, changes>>

SoakNext == \/ \E m \in Machines : Change(m) \/ RunSoak(m) \/ Simulate(m)
            \/ Aggregate \/ Invalidate

SoakSpec == SoakInit /\ [][SoakNext]_soakVars
-----------------------------------------------------------------------------
\* Whatever reports are collected, of whatever runs, roles and leftovers of
\* runs cut off: a ready aggregate joins real hosts that solved the same
\* problem to the same action, and the machines with git among them ran the
\* soak at one revision, with nothing edited, the one asked for if any was.
ReadyIsOneRevision ==
  \A a \in aggregate : a.ready =>
    LET soaks == {runs[r.run] : r \in a.rows}
        known == {s \in soaks : s.machine \in HasGit}
    IN  /\ Cardinality(RealHosts(a.rows)) >= 2 /\ Synthetic(a.rows) = {}
        /\ \A s, t \in known : s.revision = t.revision /\ s.edited = "nothing"
        /\ \A s \in known : a.expected \subseteq {s.revision}
        /\ a.expected # {} => known # {}
        /\ \A s, t \in soaks : s.edited # "problem" /\ t.edited # "problem" =>
             CorpusOf[s.revision] = CorpusOf[t.revision]

Suppliable(rows) ==
  {"insufficient_real_hosts", "moreau_claim_without_native_host",
   "incomplete_public_matrix", "incomplete_moreau_matrix"}
  \cup (IF Commits(rows) = {} THEN {"stale_or_mismatched_commit"} ELSE {})

\* A rejection stands.  What was declared invalid never counts again: no report
\* that a whole invalidation covered is among the rows of a ready aggregate,
\* whichever copy of it was collected, before the invalidation or after.  What
\* an aggregate was rejected for cannot be outvoted: whatever other file on
\* disk is added to it, what its reports were rejected for is found again, but
\* for what was missing and may be supplied: hosts, roles, a native Moreau,
\* and a commit when none had one.  And though the code decides readiness in
\* two places, a reason found or a report that failed rules it out, and
\* nothing else does.
RejectionsStand ==
  \A a \in aggregate :
    /\ a.ready => {r.run : r \in a.rows} \cap revoked = {}
    /\ ~a.invalid => (a.ready <=> a.reasons = {} /\ \A r \in a.rows : r.passed)
    /\ \A p \in OnDisk :
         a.reasons \ Suppliable(a.rows) \subseteq Reasons(a.rows \cup files[p], a.expected, {})
=============================================================================
