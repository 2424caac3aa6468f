-------------------------- MODULE GovernanceRelease --------------------------
(***************************************************************************)
(* The governed release of benchmark runs (conicshield/governance):        *)
(* finalize_run and sync_current_release_from_status, release_run with its *)
(* family bump, and publish_from_governance_status.                        *)
(*                                                                         *)
(* A release is a chain of file writes: CURRENT.json, HISTORY.json twice,  *)
(* registry.json, governance_status.json.  Nothing makes the chain atomic, *)
(* so each write is an action, and the process may die before any of them. *)
(* One operator runs one command at a time.  A single write is atomic.     *)
(*                                                                         *)
(* Families are numbered by their version.  config[r] stands for what      *)
(* decide_family_compatibility compares; a gate that is "unknown" acts as  *)
(* a red one.                                                              *)
(***************************************************************************)
EXTENDS Naturals, Sequences

CONSTANTS Runs,
          Configs,     \* the task surfaces a run's config.json can have
          Contracts,   \* task contract versions
          Outcomes,    \* the values of artifact, parity and promotion gate met
          MaxFamily,   \* bound: the last family version
          MaxFinalized, MaxReleases, \* bounds: calls of finalize, of release
          None

Families == 1..MaxFamily
Gates == {"green", "red"}

ASSUME GovernanceAssumption == /\ MaxFamily \in Nat \ {0}
                               /\ MaxFinalized \in Nat /\ MaxReleases \in Nat
                               /\ None \notin Runs
                               /\ Outcomes \subseteq [artifact : Gates,
                                     parity : Gates, promotion : Gates]

VARIABLES
  config,   \* config[r]: what r was run on
  status,   \* status[r]: governance_status.json, or None
  current,  \* current[f]: CURRENT.json, or None
  history,  \* history[f]: the entries of HISTORY.json, or None
  manifest, \* the families that have a FAMILY_MANIFEST
  registry, \* benchmark_families of registry.json
  job,      \* the command in progress: its next step, run and families
  commands, \* how many commands were started: finalize and release
  health    \* history: was the update of f ever cut off, and completed since

files == <<config, status, current, history, manifest, registry>>
vars == <<config, status, current, history, manifest, registry, job, commands, health>>

Statuses == [family : Families, contract : Contracts, native : BOOLEAN,
             state : {"experimental", "candidate", "review-locked", "published"},
             artifact : Gates, parity : Gates, promotion : Gates]
Releases == [run : Runs \cup {None}, contract : Contracts, native : BOOLEAN,
             artifact : Gates, parity : Gates, promotion : Gates]
ASSUME NoneAssumption == None \notin Statuses \cup Releases
Entries == [run : Runs, status : {"published", "deprecated"}]
Steps == {"idle", "sync", "enter", "fork", "open", "describe", "move",
          "current", "deprecate", "publish", "register", "close"}

Idle == [step |-> "idle", run |-> None, source |-> 1, target |-> 1, prev |-> None]

TypeOK ==
  /\ config \in [Runs -> Configs]
  /\ status \in [Runs -> Statuses \cup {None}]
  /\ current \in [Families -> Releases \cup {None}]
  /\ \A f \in Families : history[f] # None =>
       \A i \in DOMAIN history[f] : history[f][i] \in Entries
  /\ manifest \subseteq Families
  /\ \A i \in DOMAIN registry :
       registry[i] \in [family : Families, run : Runs \cup {None}]
  /\ job \in [step : Steps, run : Runs \cup {None}, source : Families,
              target : Families, prev : Runs \cup {None}]
  /\ commands.finalized \in 0..MaxFinalized
  /\ commands.released \in 0..MaxReleases
  /\ health \in [Families -> {"whole", "torn", "mended"}]

\* "uninitialized": a family nothing was published in.
Unreleased(c) == [run |-> None, contract |-> c, native |-> FALSE,
                  artifact |-> "red", parity |-> "red", promotion |-> "red"]

\* The tree holds version 1 of the family, without a release.
Init == /\ config \in [Runs -> Configs]
        /\ status = [r \in Runs |-> None]
        /\ \E c \in Contracts : current = [f \in Families |->
              IF f = 1 THEN Unreleased(c) ELSE None]
        /\ history = [f \in Families |-> IF f = 1 THEN <<>> ELSE None]
        /\ manifest = {1}
        /\ registry = <<[family |-> 1, run |-> None]>>
        /\ job = Idle /\ commands = [finalized |-> 0, released |-> 0]
        /\ health = [f \in Families |-> "whole"]
-----------------------------------------------------------------------------
At(step) == job.step = step
Goto(step) == job' = [job EXCEPT !.step = step]
Published(f) == current[f] # None /\ current[f].run # None

\* _compute_publishable_arms: may the native arm be published?
NativePublishable(inSummary, g) == /\ inSummary /\ g.artifact = "green"
                                   /\ g.parity = "green" /\ g.promotion = "green"

\* _review_lock_gate, with the file of family `path' as the current release.
ReviewLocked(r, f, c, path) ==
  \/ path = None \/ current[path] = None
  \/ /\ path = f /\ current[path].contract = c
     /\ Published(path) => /\ f \in manifest
                           /\ config[current[path].run] = config[r]

\* finalize_run, whatever the run's status was before.
Finalize(r, f, c, path, inSummary, g, sync) ==
  LET locked == g.artifact = "green" /\ ReviewLocked(r, f, c, path)
      state == CASE g.artifact # "green" -> "experimental"
                 [] locked /\ g.promotion = "green" -> "review-locked"
                 [] OTHER -> "candidate"
  IN  /\ At("idle") /\ commands.finalized < MaxFinalized
      /\ commands' = [commands EXCEPT !.finalized = @ + 1]
      /\ status' = [status EXCEPT ![r] =
           [family |-> f, contract |-> c, state |-> state,
            native |-> NativePublishable(inSummary, g),
            artifact |-> g.artifact, parity |-> g.parity, promotion |-> g.promotion]]
      /\ job' = IF sync /\ path # None
                THEN [Idle EXCEPT !.step = "sync", !.run = r, !.target = path] ELSE Idle
      /\ UNCHANGED <<config, current, history, manifest, registry, health>>

\* MUTANT of Sync: publishable_arms is copied, the gates are not.
SyncArmsOnly ==
  /\ At("sync")
  /\ current[job.target] # None /\ current[job.target].run = job.run
  /\ current' = [current EXCEPT ![job.target].native = status[job.run].native]
  /\ job' = Idle
  /\ UNCHANGED <<config, status, history, manifest, registry, commands, health>>

\* sync_current_release_from_status, of the current release only.
Sync ==
  LET s == status[job.run]
  IN  /\ At("sync")
      /\ current[job.target] # None /\ current[job.target].run = job.run
      /\ current' = [current EXCEPT ![job.target] =
           [@ EXCEPT !.native = s.native, !.artifact = s.artifact,
                     !.parity = s.parity, !.promotion = s.promotion]]
      /\ job' = Idle
      /\ UNCHANGED <<config, status, history, manifest, registry, commands, health>>

Releasable(r) == status[r] # None /\ status[r].state = "review-locked"

\* MUTANT of SameFamily: only the manifest is asked for.
SameFamilyUnchecked(r, f) == Published(f) => f \in manifest

\* decide_release_mode
SameFamily(r, f) ==
  Published(f) => f \in manifest /\ config[current[f].run] = config[r]
NewFamily(r, f) ==
  Published(f) /\ f \in manifest /\ config[current[f].run] # config[r]

\* release_run(family_id = f): the run is published in the family of its
\* status, unless it needs a new one.
Release(r, f) ==
  /\ At("idle") /\ commands.released < MaxReleases
  /\ commands' = [commands EXCEPT !.released = @ + 1]
  /\ Releasable(r)
  /\ \/ /\ SameFamily(r, f)
        /\ job' = [Idle EXCEPT !.step = "current", !.run = r, !.source = f,
                               !.target = status[r].family]
     \/ /\ NewFamily(r, f) /\ f + 1 \in Families
        /\ job' = [Idle EXCEPT !.step = "enter", !.run = r, !.source = f,
                               !.target = f + 1]
  /\ UNCHANGED <<files, health>>
-----------------------------------------------------------------------------
(***************************************************************************)
(* initialize_new_family, and release_run's change of the status.          *)
(***************************************************************************)
EnterFamily ==
  /\ At("enter")
  /\ registry' = Append(registry, [family |-> job.target, run |-> None])
  /\ Goto("fork")
  /\ UNCHANGED <<config, status, current, history, manifest, commands, health>>

ForkCurrent ==
  /\ At("fork")
  /\ current' = [current EXCEPT ![job.target] = Unreleased(status[job.run].contract)]
  /\ Goto("open")
  /\ UNCHANGED <<config, status, history, manifest, registry, commands, health>>

OpenHistory ==
  /\ At("open")
  /\ history' = [history EXCEPT ![job.target] = <<>>]
  /\ Goto("describe")
  /\ UNCHANGED <<config, status, current, manifest, registry, commands, health>>

DescribeFamily ==
  /\ At("describe")
  /\ manifest' = manifest \cup {job.target}
  /\ Goto("move")
  /\ UNCHANGED <<config, status, current, history, registry, commands, health>>

MoveRun ==
  /\ At("move")
  /\ status' = [status EXCEPT ![job.run].family = job.target]
  /\ Goto("current")
  /\ UNCHANGED <<config, current, history, manifest, registry, commands, health>>
-----------------------------------------------------------------------------
(***************************************************************************)
(* publish_from_governance_status.                                         *)
(***************************************************************************)

\* The new CURRENT.json of a run with status s.
ReleaseOf(r, s) == [run |-> r, contract |-> s.contract, native |-> s.native,
                    artifact |-> s.artifact, parity |-> s.parity,
                    promotion |-> s.promotion]

\* MUTANT of WriteCurrent: the previous run is read after the file was written.
WriteCurrentFirst ==
  /\ At("current") /\ current[job.target] # None
  /\ current' = [current EXCEPT ![job.target] = ReleaseOf(job.run, status[job.run])]
  /\ job' = [job EXCEPT !.step = "deprecate", !.prev = job.run]
  /\ UNCHANGED <<config, status, history, manifest, registry, commands, health>>

WriteCurrent ==
  /\ At("current") /\ current[job.target] # None
  /\ current' = [current EXCEPT ![job.target] = ReleaseOf(job.run, status[job.run])]
  /\ job' = [job EXCEPT !.step = "deprecate", !.prev = current[job.target].run]
  /\ UNCHANGED <<config, status, history, manifest, registry, commands, health>>

DeprecatePrevious ==
  /\ At("deprecate")
  /\ IF job.prev = None THEN UNCHANGED history
     ELSE /\ history[job.target] # None
          /\ history' = [history EXCEPT ![job.target] =
               Append(@, [run |-> job.prev, status |-> "deprecated"])]
  /\ Goto("publish")
  /\ UNCHANGED <<config, status, current, manifest, registry, commands, health>>

RecordPublished ==
  /\ At("publish") /\ history[job.target] # None
  /\ history' = [history EXCEPT ![job.target] =
       Append(@, [run |-> job.run, status |-> "published"])]
  /\ Goto("register")
  /\ UNCHANGED <<config, status, current, manifest, registry, commands, health>>

EntriesOf(f) == {i \in DOMAIN registry : registry[i].family = f}
FirstOf(f) == CHOOSE i \in EntriesOf(f) : \A j \in EntriesOf(f) : i <= j

\* MUTANT of Register: the loop changes the last entry of the registry.
RegisterLast ==
  /\ At("register")
  /\ registry' = [registry EXCEPT ![Len(registry)].run = job.run]
  /\ Goto("close")
  /\ UNCHANGED <<config, status, current, history, manifest, commands, health>>

\* The loop breaks at the first entry of the family.
Register ==
  /\ At("register")
  /\ IF EntriesOf(job.target) = {} THEN UNCHANGED registry
     ELSE registry' = [registry EXCEPT ![FirstOf(job.target)].run = job.run]
  /\ Goto("close")
  /\ UNCHANGED <<config, status, current, history, manifest, commands, health>>

\* The run becomes "published"; release_decision.json, which nothing reads,
\* is left out.
Close ==
  /\ At("close")
  /\ status' = [status EXCEPT ![job.run].state = "published"]
  /\ health' = [health EXCEPT ![job.target] = IF @ = "torn" THEN "mended" ELSE @]
  /\ job' = Idle
  /\ UNCHANGED <<config, current, history, manifest, registry, commands>>

\* The process is killed, or raises: a file it reads may be missing.
Crash ==
  /\ ~At("idle")
  /\ health' = IF At("sync") THEN health
               ELSE [health EXCEPT ![job.target] = "torn"]
  /\ job' = Idle
  /\ UNCHANGED <<files, commands>>

Command ==
  \/ \E r \in Runs, f \in Families, c \in Contracts, path \in Families \cup {None},
        inSummary, sync \in BOOLEAN, g \in Outcomes :
       Finalize(r, f, c, path, inSummary, g, sync)
  \/ \E r \in Runs, f \in Families : Release(r, f)

Next == \/ Command \/ Crash \/ Sync
        \/ EnterFamily \/ ForkCurrent \/ OpenHistory \/ DescribeFamily \/ MoveRun
        \/ WriteCurrent \/ DeprecatePrevious \/ RecordPublished \/ Register \/ Close

Spec == Init /\ [][Next]_vars
-----------------------------------------------------------------------------
(***************************************************************************)
(* Correctness.                                                            *)
(***************************************************************************)

\* The command in progress writes the files of f.
Updating(f) == ~At("idle") /\ ~At("sync") /\ job.target = f

\* "native arm present but parity_gate is not green" is never so of a current
\* release, however it was finalized again and synced after its publication.
NativeArmHasGreenGates ==
  \A f \in Families : current[f] # None /\ current[f].native =>
    {current[f].artifact, current[f].parity, current[f].promotion} = {"green"}

\* What audit_benchmark_tree asks of registry, CURRENT and HISTORY: when the
\* last update of a family was completed, all three name the same run,
\* although earlier ones were cut off between any two writes.
ReleaseFilesAgree ==
  \A f \in Families : Published(f) /\ health[f] # "torn" /\ ~Updating(f) =>
    /\ registry[FirstOf(f)].run = current[f].run
    /\ history[f][Len(history[f])] = [run |-> current[f].run, status |-> "published"]

\* While no update of a family was cut off, its HISTORY tells one release
\* after another: each published run is deprecated before the next is
\* published, and what CURRENT names is published last.
HistoryAlternates ==
  \A f \in Families : history[f] # None /\ health[f] = "whole" /\ ~Updating(f) =>
    \A i \in DOMAIN history[f] :
      IF i % 2 = 1 THEN history[f][i].status = "published"
      ELSE history[f][i] = [run |-> history[f][i - 1].run, status |-> "deprecated"]

\* A release that names the family its run was finalized for never replaces a
\* current run by one that changes the task surface.
CompatibleReplacement ==
  [][\A f \in Families :
       Published(f) /\ current'[f].run \in Runs \ {current[f].run} /\ job.source = f
         => config[current'[f].run] = config[current[f].run]]_vars
=============================================================================
