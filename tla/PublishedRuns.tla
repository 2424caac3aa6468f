---------------------------- MODULE PublishedRuns ----------------------------
(***************************************************************************)
(* The published bundles and the commands that refresh them, around the    *)
(* governed release: run_host_realistic_publish, the refresh cycle of      *)
(* host_realistic_refresh_cycle, upgrade_host_realistic_vendor, the index  *)
(* of the published runs, finalize_community_dataset, the audit and the    *)
(* reference authority.                                                    *)
(*                                                                         *)
(* A run has a directory under runs/ and may have one under                *)
(* published_runs/, which resolve_run_directory prefers.  config[r],       *)
(* status[r] and the rest describe the directory it resolves to, work[r]   *)
(* the one under runs/ that a published directory hides.  Each             *)
(* script is a chain of writes that may be cut off anywhere; removing,     *)
(* building and copying a directory are one write each, removing and       *)
(* building together when the run is not published: the model has no run   *)
(* without any directory.                                                  *)
(*                                                                         *)
(* A bundle is the number of its build.  governance_decision.md is no      *)
(* state: the scaffold always leaves one, and the word the cycle looks for *)
(* is in the template as well.                                             *)
(***************************************************************************)
EXTENDS GovernanceRelease

CONSTANTS Flagship,  \* the run the reference authority is about
          Listed,    \* benchmark_bundle_paths of its family's CURRENT.json
          Contract,  \* the task contract version the scripts pass
          Surface    \* what the flagship was run on

ASSUME PublishedAssumption == /\ Flagship \in Listed /\ Listed \subseteq Runs
                              /\ Contract \in Contracts /\ Surface \in Configs

VARIABLES
  published, \* the runs that have a directory under published_runs/
  work,      \* work[r]: the bundle under runs/ of a published run, or None
  build,     \* build[r]: the bundle r resolves to
  decided,   \* the runs whose directory holds release_decision.json
  meta,      \* meta[r]: is_family_current_run of COMMUNITY_METADATA, or None
  readme,    \* readme[r]: what README.md says of r being current, or None
  index,     \* PUBLISHED_RUN_INDEX.json: run to entry
  script     \* the script in progress

dataset == <<published, work, build, decided, meta, readme, index>>
treeVars == <<vars, dataset, script>>

Family == 1
Off == [task |-> "none", step |-> "off", run |-> None,
        force |-> FALSE, promote |-> FALSE]

CurrentRun == current[Family].run
\* What the flagship was finalized to in the committed tree.
Green == [artifact |-> "green", parity |-> "green", promotion |-> "green"]
Committed == [family |-> Family, contract |-> Contract, native |-> TRUE,
              state |-> "published", artifact |-> "green", parity |-> "green",
              promotion |-> "green"]

\* _governed_run_ids: every run the registry, a CURRENT or a HISTORY names.
NamedIn(f) == {current[f].run} \cup (IF history[f] = None THEN {}
                                     ELSE {history[f][i].run : i \in DOMAIN history[f]})
Governed == ({registry[i].run : i \in DOMAIN registry}
             \cup (UNION {NamedIn(f) : f \in {g \in Families : current[g] # None}})
             \cup Listed) \ {None}

\* What a README says of the run being its family's current one: a row of its
\* table, if there is one, and its first sentence.  The script keeps `current` as
\* text, and a text is true when it is not empty.
YesNo(b) == IF b THEN "yes" ELSE "no"
SaysCurrent(r, text) == r = Flagship \/ text # ""
ReadmeOf(r) == LET text == YesNo(r = CurrentRun)
               IN  [table |-> text, sentence |-> SaysCurrent(r, text)]
Plain == [table |-> "", sentence |-> FALSE]

StateOf(r) == IF status[r] = None THEN None ELSE status[r].state

\* The hashes of a run's files, and build_run_catalog_metadata.
Integrity(r) == [build |-> build[r], status |-> status[r], decided |-> r \in decided,
                 meta |-> meta[r], readme |-> readme[r]]
Catalog(r) == [state |-> StateOf(r), current |-> r = CurrentRun]
Entry(r) == [integrity |-> Integrity(r), catalog |-> Catalog(r)]

\* build_index
IndexNow == [r \in Governed |-> Entry(r)]
Indexable == Governed # {} /\ Governed \subseteq published

\* The committed tree: the flagship is published, released and indexed; the
\* other runs were produced under runs/.
TreeInit ==
  /\ \E c \in [Runs -> Configs] : config = [c EXCEPT ![Flagship] = Surface]
  /\ status = [r \in Runs |-> IF r = Flagship THEN Committed ELSE None]
  /\ current = [f \in Families |-> IF f = Family
                  THEN [run |-> Flagship, contract |-> Contract, native |-> TRUE,
                        artifact |-> "green", parity |-> "green", promotion |-> "green"]
                  ELSE None]
  /\ history = [f \in Families |-> IF f = Family
                  THEN <<[run |-> Flagship, status |-> "published"]>> ELSE None]
  /\ manifest = {Family} /\ registry = <<[family |-> Family, run |-> Flagship]>>
  /\ job = Idle /\ commands = [finalized |-> 0, released |-> 0]
  /\ health = [f \in Families |-> "whole"]
  /\ published = {Flagship} /\ work = [r \in Runs |-> None]
  /\ build = [r \in Runs |-> 0] /\ decided = {Flagship}
  /\ meta = [r \in Runs |-> IF r = Flagship THEN TRUE ELSE None]
  /\ readme = [r \in Runs |-> IF r = Flagship THEN ReadmeOf(r) ELSE None]
  /\ index = IndexNow /\ script = Off
-----------------------------------------------------------------------------
(* The scripts.                                                            *)

InStep(step) == script.step = step /\ At("idle")
Go(step) == script' = [script EXCEPT !.step = step]
Stop == script' = Off

\* A script is started; one that finalizes counts as a call of finalize.
Finalizing(task) == task \in {"refresh", "publish", "governance"}
Calls == [task : {"refresh"}, run : Runs, force : BOOLEAN, promote : BOOLEAN]
          \cup [task : {"publish"}, run : Runs, force : BOOLEAN, promote : {FALSE}]
          \cup [task : {"governance"}, run : Runs, force : {FALSE}, promote : {FALSE}]
          \cup [task : {"community", "index"}, run : {None}, force : {FALSE}, promote : {FALSE}]

Start(call) ==
  /\ InStep("off")
  /\ Finalizing(call.task) => commands.finalized < MaxFinalized
  /\ commands' = IF Finalizing(call.task)
                 THEN [commands EXCEPT !.finalized = @ + 1] ELSE commands
  /\ script' = [task |-> call.task, run |-> call.run, force |-> call.force,
                promote |-> call.promote,
                step |-> CASE call.task = "governance" -> "scaffold"
                           [] call.task = "community" -> "metadata"
                           [] call.task = "index" -> "index"
                           [] OTHER -> "build"]
  /\ UNCHANGED <<files, job, health, dataset>>

\* What is under runs/ for r.
Hidden(r) == r \in published
HasWork(r) == ~Hidden(r) \/ work[r] # None
WorkConfig(r) == IF Hidden(r) THEN work[r].config ELSE config[r]

\* --force removes the directory under runs/ first.
Remove ==
  LET r == script.run IN
  /\ InStep("build") /\ script.force /\ Hidden(r) /\ HasWork(r)
  /\ work' = [work EXCEPT ![r] = None]
  /\ UNCHANGED <<vars, published, build, decided, meta, readme, index, script>>

\* produce_reference_bundle refuses a directory that is not empty.  The bundle
\* built is validated.
Build ==
  LET r == script.run IN
  /\ InStep("build")
  /\ \/ /\ ~script.force /\ HasWork(r)
        /\ Stop /\ UNCHANGED <<config, status, work, build, decided>>
     \/ /\ ~HasWork(r) \/ (script.force /\ ~Hidden(r))
        /\ Go("scaffold")
        /\ \E c \in Configs :
             IF Hidden(r)
             THEN /\ work' = [work EXCEPT ![r] =
                       [config |-> c, build |-> commands.finalized, status |-> None]]
                  /\ UNCHANGED <<config, status, build, decided>>
             ELSE /\ config' = [config EXCEPT ![r] = c]
                  /\ status' = [status EXCEPT ![r] = None]
                  /\ build' = [build EXCEPT ![r] = commands.finalized]
                  /\ decided' = decided \ {r}
                  /\ UNCHANGED work
  /\ UNCHANGED <<current, history, manifest, registry, job, commands, health,
                 published, meta, readme, index>>

\* The review lock of a bundle with configuration c.
Lockable(c) == /\ current[Family].contract = Contract
               /\ Published(Family) => /\ Family \in manifest
                                       /\ config[CurrentRun] = c

\* _write_governance_scaffold: finalize_run on the directory under runs/.
Finalized(c, g) ==
  [family |-> Family, contract |-> Contract, native |-> NativePublishable(TRUE, g),
   artifact |-> g.artifact, parity |-> g.parity, promotion |-> g.promotion,
   state |-> CASE g.artifact # "green" -> "experimental"
               [] g.artifact = "green" /\ g.promotion = "green" /\ Lockable(c)
                    -> "review-locked"
               [] OTHER -> "candidate"]

Scaffold ==
  LET r == script.run IN
  /\ InStep("scaffold")
  /\ \/ /\ ~HasWork(r) /\ Stop /\ UNCHANGED <<status, work>>
     \/ /\ HasWork(r)
        /\ \E g \in Outcomes :
             IF Hidden(r)
             THEN /\ work' = [work EXCEPT ![r].status = Finalized(WorkConfig(r), g)]
                  /\ UNCHANGED status
             ELSE /\ status' = [status EXCEPT ![r] = Finalized(WorkConfig(r), g)]
                  /\ UNCHANGED work
        /\ IF script.task # "governance" THEN Go("clear")
           ELSE IF Hidden(r) THEN Go("sync") ELSE Stop
  /\ UNCHANGED <<config, current, history, manifest, registry, job, commands,
                 health, published, build, decided, meta, readme, index>>

\* _copy_to_published: a bundle is replaced only with --force, and removed
\* before it is copied again: until then r resolves to runs/.
Clear ==
  LET r == script.run IN
  /\ InStep("clear")
  /\ CASE ~Hidden(r) -> Go("copy") /\ UNCHANGED <<config, status, dataset>>
       [] Hidden(r) /\ ~script.force -> Stop /\ UNCHANGED <<config, status, dataset>>
       [] OTHER ->
            /\ Go("copy")
            /\ config' = [config EXCEPT ![r] = work[r].config]
            /\ status' = [status EXCEPT ![r] = work[r].status]
            /\ build' = [build EXCEPT ![r] = work[r].build]
            /\ work' = [work EXCEPT ![r] = None]
            /\ published' = published \ {r} /\ decided' = decided \ {r}
            /\ meta' = [meta EXCEPT ![r] = None]
            /\ readme' = [readme EXCEPT ![r] = None]
            /\ UNCHANGED index
  /\ UNCHANGED <<current, history, manifest, registry, job, commands, health>>

Copy ==
  LET r == script.run IN
  /\ InStep("copy")
  /\ published' = published \cup {r}
  /\ work' = [work EXCEPT ![r] =
       [config |-> config[r], build |-> build[r], status |-> status[r]]]
  /\ readme' = [readme EXCEPT ![r] = Plain]
  /\ Go("index")
  /\ UNCHANGED <<files, job, commands, health, build, decided, meta, index>>

\* _sync_governance_to_published, alone when the governance is refreshed: the
\* status of what is under runs/ becomes that of the published bundle.
SyncGovernance ==
  /\ InStep("sync")
  /\ status' = [status EXCEPT ![script.run] = work[script.run].status]
  /\ Go("index")
  /\ UNCHANGED <<config, current, history, manifest, registry, job, commands,
                 health, dataset>>

\* refresh_published_run_index: refused when a governed run is not on disk.
RefreshIndex ==
  /\ InStep("index")
  /\ IF Indexable THEN index' = IndexNow ELSE UNCHANGED index
  /\ IF Indexable /\ script.task = "refresh" THEN Go("release") ELSE Stop
  /\ UNCHANGED <<vars, published, work, build, decided, meta, readme>>

\* The cycle releases a bundle when told to, and whenever it refreshed the
\* current run; release_cli is called without --allow-family-bump.
ReleaseRefreshed ==
  LET r == script.run
      due == script.promote \/ CurrentRun = r
      may == Releasable(r) /\ SameFamily(r, Family)
  IN  /\ InStep("release")
      /\ \/ ~due /\ Go("metadata") /\ UNCHANGED <<job, commands>>
         \/ due /\ ~may /\ Stop /\ UNCHANGED <<job, commands>>
         \/ /\ due /\ may /\ commands.released < MaxReleases
            /\ commands' = [commands EXCEPT !.released = @ + 1]
            /\ job' = [Idle EXCEPT !.step = "current", !.run = r,
                                   !.source = Family, !.target = status[r].family]
            /\ Go("audit")
      /\ UNCHANGED <<files, health, dataset>>

\* audit_benchmark_tree, without an error and, as it is strict, a warning.
CleanFamily(i) ==
  LET f == registry[i].family IN
  /\ \A j \in DOMAIN registry : registry[j].family = f => j = i
  /\ f \in manifest /\ current[f] # None /\ history[f] # None
  /\ registry[i].run = current[f].run
  /\ Published(f) =>
       LET s == status[current[f].run] IN
       /\ \E j \in DOMAIN history[f] :
            history[f][j] = [run |-> current[f].run, status |-> "published"]
       /\ s # None /\ s.family = f /\ s.artifact = "green"
       /\ s.native => s.parity = "green"

AuditClean == \A i \in DOMAIN registry : CleanFamily(i)

Audit == /\ InStep("audit")
         /\ IF AuditClean THEN Go("metadata") ELSE Stop
         /\ UNCHANGED <<vars, dataset>>
-----------------------------------------------------------------------------
(* finalize_community_dataset and the reference authority.                 *)

Indexed == DOMAIN index

\* verify_run and verify_index_integrity: what a reader of the dataset asks.
Verifies(r) == r \in Indexed /\ index[r].integrity = Integrity(r)

\* MUTANT of SyncMetadata: the flag is taken from the catalog of the index.
SyncMetadataOfCatalog ==
  /\ InStep("metadata") /\ Indexed \subseteq published
  /\ meta' = [r \in Runs |-> IF r \in Indexed THEN index[r].catalog.current ELSE meta[r]]
  /\ Go("readmes")
  /\ UNCHANGED <<vars, published, work, build, decided, readme, index>>

\* sync_community_metadata, of the runs the index lists.
SyncMetadata ==
  /\ InStep("metadata") /\ Indexed \subseteq published
  /\ meta' = [r \in Runs |-> IF r \in Indexed THEN r = CurrentRun ELSE meta[r]]
  /\ Go("readmes")
  /\ UNCHANGED <<vars, published, work, build, decided, readme, index>>

\* sync_published_run_readmes.  The state a README shows is left out: it is
\* that of the index's catalog, which is older than the release.
SyncReadmes ==
  /\ InStep("readmes")
  /\ readme' = [r \in Runs |-> IF r \in Indexed THEN ReadmeOf(r) ELSE readme[r]]
  /\ Go("reindex")
  /\ UNCHANGED <<vars, published, work, build, decided, meta, index>>

RefreshAgain ==
  /\ InStep("reindex")
  /\ IF Indexable THEN index' = IndexNow /\ Go("profile") ELSE UNCHANGED index /\ Stop
  /\ UNCHANGED <<vars, published, work, build, decided, meta, readme>>

\* validate_published_bundle_profile
ProfileComplete ==
  \A r \in Indexed : /\ status[r] # None /\ r \in decided
                     /\ meta[r] # None /\ readme[r] # None

CheckProfile ==
  /\ InStep("profile")
  /\ IF ProfileComplete /\ script.task = "refresh" THEN Go("authority") ELSE Stop
  /\ UNCHANGED <<vars, dataset>>

\* build_reference_authority_snapshot: is the flagship what it should be?
Aligned ==
  /\ CurrentRun = Flagship /\ registry[FirstOf(Family)].run = Flagship
  /\ {current[Family].artifact, current[Family].parity,
      current[Family].promotion} = {"green"}
  /\ current[Family].native
  /\ status[Flagship] # None
  /\ status[Flagship].parity = "green" /\ status[Flagship].promotion = "green"

\* reference_authority_check changes no file of the dataset.
CheckAuthority == InStep("authority") /\ Stop /\ UNCHANGED <<vars, dataset>>
-----------------------------------------------------------------------------
\* release_run leaves release_decision.json behind.
CloseDecided == /\ Close /\ decided' = decided \cup {job.run}
                /\ UNCHANGED <<published, work, build, meta, readme, index, script>>

\* A script, or the release it runs, is killed or fails on a missing file.
CutOff == /\ script.step # "off" \/ ~At("idle")
          /\ Stop
          /\ IF At("idle") THEN UNCHANGED vars ELSE Crash
          /\ UNCHANGED dataset

\* The commands and the writes of the release, with the dataset left alone.
ReleaseWrites ==
  /\ \/ script.step = "off" /\ Command
     \/ Sync \/ EnterFamily \/ ForkCurrent \/ OpenHistory \/ DescribeFamily \/ MoveRun
     \/ WriteCurrent \/ DeprecatePrevious \/ RecordPublished \/ Register
  /\ UNCHANGED <<dataset, script>>

Scripts == \/ \E call \in Calls : Start(call)
           \/ Remove \/ Build \/ Scaffold \/ Clear \/ Copy \/ SyncGovernance \/ RefreshIndex
           \/ ReleaseRefreshed \/ Audit \/ SyncMetadata \/ SyncReadmes
           \/ RefreshAgain \/ CheckProfile \/ CheckAuthority

TreeNext == ReleaseWrites \/ CloseDecided \/ CutOff \/ Scripts

TreeSpec == TreeInit /\ [][TreeNext]_treeVars
-----------------------------------------------------------------------------
(***************************************************************************)
(* Correctness.                                                            *)
(***************************************************************************)

\* The metadata and the README's table of r show it as current exactly if CURRENT
\* names it.
ShowsCurrent(r) == /\ meta[r] = (r = CurrentRun)
                   /\ readme[r].table = YesNo(r = CurrentRun)

\* What finalize_community_dataset leaves is aligned, whatever was cut off before.
\* When metadata and READMEs were written, in these and in the tables of those the
\* runs of the index in force show what is current; when the dataset was
\* finalized, the index is what a new one would be, so every governed run can be
\* verified by its readers; after a refresh every run of that new index shows
\* what is current, and a refreshed flagship with green parity satisfies the
\* reference authority.  (A run that became governed since the index was made
\* is indexed by finalize_community_dataset alone with the metadata it had; and
\* the state a README shows may be older: neither is claimed; and what the first
\* sentence of a README says is ReadmesAreAligned.)
DatasetIsAligned ==
  /\ script.step = "reindex" => \A r \in Indexed : ShowsCurrent(r)
  /\ script.step \in {"profile", "authority"} =>
       /\ index = IndexNow /\ \A r \in Governed : Verifies(r)
       /\ script.task = "refresh" =>
            \A r \in Indexed : meta[r] # None => ShowsCurrent(r)
  /\ script.step = "authority" =>
       /\ CurrentRun \in Indexed /\ meta[CurrentRun] = TRUE
       /\ script.run = Flagship /\ status[Flagship].parity = "green" => Aligned

\* "finalize_community_dataset + index --check leave metadata, READMEs, and
\* index aligned": a README just written calls its run the family's current run
\* exactly if the metadata written with it do.  NOT TRUE of the code.
ReadmesAreAligned ==
  script.step = "reindex" => \A r \in Indexed : readme[r].sentence = meta[r]
=============================================================================
