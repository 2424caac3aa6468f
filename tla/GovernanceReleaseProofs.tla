----------------------- MODULE GovernanceReleaseProofs -----------------------
(***************************************************************************)
(* Proofs about GovernanceRelease, for any number of runs, families,       *)
(* commands and crashes: the gates behind a native arm, the compatibility  *)
(* of a replaced run, the agreement of the three files of a release, and   *)
(* the order of a family's history; and that all of it still holds when    *)
(* the scripts of PublishedRuns rebuild, copy and release bundles; and     *)
(* that the dataset these scripts leave is aligned.                        *)
(***************************************************************************)
EXTENDS PublishedRuns, SequenceTheorems, WellFoundedInduction, TLAPS

Jobs == [step : Steps, run : Runs \cup {None}, source : Families,
         target : Families, prev : Runs \cup {None}]

\* What the proofs need of the types: files hold what is written to them, and
\* a command works on a run that has a status.
Types == /\ config \in [Runs -> Configs]
         /\ status \in [Runs -> Statuses \cup {None}]
         /\ current \in [Families -> Releases \cup {None}]
         /\ history \in [Families -> Seq(Entries) \cup {None}]
         /\ registry \in Seq([family : Families, run : Runs \cup {None}])
         /\ job \in Jobs
         /\ health \in [Families -> {"whole", "torn", "mended"}]
         /\ ~At("idle") => job.run \in Runs /\ status[job.run] \in Statuses

\* The first family is a family.
LEMMA FirstFamily == 1 \in Families
  BY GovernanceAssumption DEF Families

\* Idle is a job.
LEMMA IdleIsJob == Idle \in Jobs /\ Idle.step = "idle"
  BY FirstFamily DEF Idle, Jobs, Steps

\* A set of positions has a first one.
LEMMA LeastPosition ==
  ASSUME NEW S, S \subseteq Nat, S # {}
  PROVE  \E i \in S : \A j \in S : i <= j
<1>1. PICK i \in S : \A j \in S : ~(<<j, i>> \in OpToRel(<, Nat))
  BY NatLessThanWellFounded, WFMin
<1>2. \A j \in S : ~(j < i)
  BY <1>1 DEF OpToRel
<1> QED
  BY <1>2

\* FirstOf finds the first registry entry of a family that has one.
LEMMA FirstIsFirst ==
  ASSUME Types, NEW f, EntriesOf(f) # {}
  PROVE  /\ FirstOf(f) \in EntriesOf(f)
         /\ \A j \in EntriesOf(f) : FirstOf(f) <= j
<1>1. EntriesOf(f) \subseteq Nat
  BY DEF EntriesOf, Types
<1>2. \E i \in EntriesOf(f) : \A j \in EntriesOf(f) : i <= j
  BY <1>1, LeastPosition
<1> QED
  BY <1>2 DEF FirstOf

\* Every write writes what a reader expects.
LEMMA TypesInductive == Types /\ [Next]_vars => Types'
<1> SUFFICES ASSUME Types, [Next]_vars PROVE Types'
  OBVIOUS
<1> USE DEF Types, At, Goto
<1>1. ASSUME NEW r \in Runs, NEW f \in Families, NEW c \in Contracts,
             NEW path \in Families \cup {None}, NEW inSummary \in BOOLEAN,
             NEW sync \in BOOLEAN, NEW g \in Outcomes,
             Finalize(r, f, c, path, inSummary, g, sync)
      PROVE  Types'
  <2>1. g \in [artifact : Gates, parity : Gates, promotion : Gates]
    BY GovernanceAssumption
  <2> DEFINE locked == g.artifact = "green" /\ ReviewLocked(r, f, c, path)
             state == CASE g.artifact # "green" -> "experimental"
                        [] locked /\ g.promotion = "green" -> "review-locked"
                        [] OTHER -> "candidate"
             s == [family |-> f, contract |-> c, state |-> state,
                   native |-> NativePublishable(inSummary, g),
                   artifact |-> g.artifact, parity |-> g.parity,
                   promotion |-> g.promotion]
  <2>2. status' = [status EXCEPT ![r] = s] /\ s \in Statuses
    <3>1. state \in {"experimental", "candidate", "review-locked"}
      OBVIOUS
    <3>2. NativePublishable(inSummary, g) \in BOOLEAN
      BY DEF NativePublishable
    <3>3. status' = [status EXCEPT ![r] = s]
      BY <1>1 DEF Finalize
    <3> HIDE DEF state
    <3>4. s \in Statuses
      BY <2>1, <3>1, <3>2 DEF Statuses
    <3> QED
      BY <3>3, <3>4
  <2> HIDE DEF s
  <2>3. job' \in Jobs /\ (job'.step # "idle" => job'.run = r)
    BY <1>1, IdleIsJob DEF Finalize, Jobs, Steps
  <2> QED
    BY <1>1, <2>2, <2>3 DEF Finalize
<1>2. ASSUME NEW r \in Runs, NEW f \in Families, Release(r, f) PROVE Types'
  <2>1. status[r] \in Statuses
    BY <1>2 DEF Release, Releasable
  <2>2. job' \in Jobs /\ job'.run = r
    BY <1>2, <2>1, IdleIsJob DEF Release, Jobs, Steps, Statuses
  <2> QED
    BY <1>2, <2>1, <2>2 DEF Release, files
<1>3. CASE Crash
  BY <1>3, IdleIsJob DEF Crash, files, Jobs
<1>4. CASE Sync
  <2>1. current[job.target] \in Releases /\ status[job.run] \in Statuses
    BY <1>4 DEF Sync, Jobs
  <2>2. current' \in [Families -> Releases \cup {None}]
    BY <1>4, <2>1 DEF Sync, Releases, Statuses
  <2> QED
    BY <1>4, <2>2, IdleIsJob DEF Sync
<1>5. CASE EnterFamily \/ DescribeFamily
  <2>1. job' \in Jobs /\ job'.run = job.run
    BY <1>5 DEF EnterFamily, DescribeFamily, Jobs, Steps
  <2>2. registry' \in Seq([family : Families, run : Runs \cup {None}])
    <3> DEFINE e == [family |-> job.target, run |-> None]
    <3>1. e \in [family : Families, run : Runs \cup {None}]
      BY DEF Jobs
    <3> HIDE DEF e
    <3>2. Append(registry, e) \in Seq([family : Families, run : Runs \cup {None}])
      BY <3>1
    <3> QED
      BY <1>5, <3>2 DEF EnterFamily, DescribeFamily, e
  <2> QED
    BY <1>5, <2>1, <2>2 DEF EnterFamily, DescribeFamily
<1>6. CASE ForkCurrent
  <2>1. Unreleased(status[job.run].contract) \in Releases
    BY <1>6 DEF ForkCurrent, Unreleased, Releases, Statuses, Gates
  <2> QED
    BY <1>6, <2>1 DEF ForkCurrent, Jobs, Steps
<1>7. CASE OpenHistory
  BY <1>7 DEF OpenHistory, Jobs, Steps
<1>8. CASE MoveRun
  BY <1>8 DEF MoveRun, Jobs, Steps, Statuses
<1>9. CASE WriteCurrent
  <2>1. ReleaseOf(job.run, status[job.run]) \in Releases
    BY <1>9 DEF WriteCurrent, ReleaseOf, Releases, Statuses
  <2>2. current[job.target] \in Releases
    BY <1>9 DEF WriteCurrent, Jobs
  <2> QED
    BY <1>9, <2>1, <2>2 DEF WriteCurrent, Jobs, Steps, Releases
<1>10. CASE DeprecatePrevious
  <2>1. job' \in Jobs /\ job'.run = job.run
    BY <1>10 DEF DeprecatePrevious, Jobs, Steps
  <2>2. history' \in [Families -> Seq(Entries) \cup {None}]
    <3>1. CASE job.prev = None
      BY <1>10, <3>1 DEF DeprecatePrevious
    <3>2. CASE job.prev # None
      <4> DEFINE e == [run |-> job.prev, status |-> "deprecated"]
      <4>1. e \in Entries
        BY <3>2 DEF Entries, Jobs
      <4>2. history' = [history EXCEPT ![job.target] = Append(@, e)]
        BY <1>10, <3>2 DEF DeprecatePrevious
      <4>3. history[job.target] \in Seq(Entries)
        BY <1>10, <3>2 DEF DeprecatePrevious, Jobs
      <4> HIDE DEF e
      <4>4. Append(history[job.target], e) \in Seq(Entries)
        BY <4>1, <4>3, AppendProperties
      <4> QED
        BY <4>2, <4>4
    <3> QED
      BY <3>1, <3>2
  <2> QED
    BY <1>10, <2>1, <2>2 DEF DeprecatePrevious
<1>11. CASE RecordPublished
  <2>1. job' \in Jobs /\ job'.run = job.run
    BY <1>11 DEF RecordPublished, Jobs, Steps
  <2>2. history' \in [Families -> Seq(Entries) \cup {None}]
    <3> DEFINE e == [run |-> job.run, status |-> "published"]
    <3>1. e \in Entries
      BY <1>11 DEF RecordPublished, Entries
    <3>2. history' = [history EXCEPT ![job.target] = Append(@, e)]
      BY <1>11 DEF RecordPublished
    <3>3. history[job.target] \in Seq(Entries)
      BY <1>11 DEF RecordPublished, Jobs
    <3> HIDE DEF e
    <3>4. Append(history[job.target], e) \in Seq(Entries)
      BY <3>1, <3>3, AppendProperties
    <3> QED
      BY <3>2, <3>4
  <2> QED
    BY <1>11, <2>1, <2>2 DEF RecordPublished
<1>12. CASE Register
  <2>1. job' \in Jobs /\ job'.run = job.run
    BY <1>12 DEF Register, Jobs, Steps
  <2>2. registry' \in Seq([family : Families, run : Runs \cup {None}])
    <3>1. CASE EntriesOf(job.target) = {}
      BY <1>12, <3>1 DEF Register
    <3>2. CASE EntriesOf(job.target) # {}
      <4> DEFINE i == FirstOf(job.target)
                 e == [registry[i] EXCEPT !.run = job.run]
      <4>1. i \in 1..Len(registry)
        BY <3>2, FirstIsFirst DEF EntriesOf
      <4>2. registry' = [registry EXCEPT ![i] = e]
        BY <1>12, <3>2 DEF Register
      <4>3. e \in [family : Families, run : Runs \cup {None}]
        <5>1. registry[i] \in [family : Families, run : Runs \cup {None}]
          BY <4>1, ElementOfSeq
        <5> QED
          BY <1>12, <5>1 DEF Register
      <4> HIDE DEF i, e
      <4> QED
        BY <4>1, <4>2, <4>3, ExceptSeq, Zenon
    <3> QED
      BY <3>1, <3>2
  <2> QED
    BY <1>12, <2>1, <2>2 DEF Register
<1>13. CASE Close
  BY <1>13, IdleIsJob DEF Close, Statuses, Jobs
<1>14. CASE UNCHANGED vars
  BY <1>14 DEF vars
<1> HIDE DEF Types, At, Goto
<1> QED
  BY <1>1, <1>2, <1>3, <1>4, <1>5, <1>6, <1>7, <1>8, <1>9, <1>10, <1>11, <1>12,
     <1>13, <1>14 DEF Next, Command

\* The files are well-formed at all times.
LEMMA TypesHold == Spec => []Types
<1>1. Init => Types
  BY FirstFamily, IdleIsJob
     DEF Init, Types, At, Unreleased, Releases, Gates, Entries
<1> QED
  BY <1>1, TypesInductive, PTL DEF Spec
-----------------------------------------------------------------------------
\* A status, and what is copied from it, has a native arm only with green gates.
GreenRecord(x) == x.native => {x.artifact, x.parity, x.promotion} = {"green"}

NativeInv == /\ \A r \in Runs : status[r] \in Statuses => GreenRecord(status[r])
             /\ \A f \in Families : current[f] \in Releases => GreenRecord(current[f])

\* Finalizing, syncing and publishing copy the arms together with the gates.
LEMMA NativeInductive == Types /\ NativeInv /\ [Next]_vars => NativeInv'
<1> SUFFICES ASSUME Types, NativeInv, [Next]_vars PROVE NativeInv'
  OBVIOUS
<1>0. ASSUME ~At("idle")
      PROVE  /\ job.run \in Runs /\ job.target \in Families
             /\ status[job.run] \in Statuses /\ GreenRecord(status[job.run])
  BY <1>0 DEF Types, Jobs, NativeInv
<1>1. ASSUME NEW r \in Runs, NEW s, GreenRecord(s),
             status' = [status EXCEPT ![r] = s], current' = current
      PROVE  NativeInv'
  BY <1>1 DEF NativeInv, Types
<1>2. ASSUME NEW f \in Families, NEW s, GreenRecord(s),
             current' = [current EXCEPT ![f] = s], status' = status
      PROVE  NativeInv'
  BY <1>2 DEF NativeInv, Types
<1>3. ASSUME NEW r \in Runs, NEW f \in Families, NEW c \in Contracts,
             NEW path \in Families \cup {None}, NEW inSummary \in BOOLEAN,
             NEW sync \in BOOLEAN, NEW g \in Outcomes,
             Finalize(r, f, c, path, inSummary, g, sync)
      PROVE  NativeInv'
  <2>1. PICK state : status' = [status EXCEPT ![r] =
               [family |-> f, contract |-> c, state |-> state,
                native |-> NativePublishable(inSummary, g),
                artifact |-> g.artifact, parity |-> g.parity,
                promotion |-> g.promotion]]
    BY <1>3 DEF Finalize
  <2>2. GreenRecord([family |-> f, contract |-> c, state |-> state,
                     native |-> NativePublishable(inSummary, g),
                     artifact |-> g.artifact, parity |-> g.parity,
                     promotion |-> g.promotion])
    BY DEF NativePublishable, GreenRecord
  <2> QED
    BY <1>1, <1>3, <2>1, <2>2 DEF Finalize
<1>4. CASE Sync
  <2> DEFINE s == status[job.run]
             x == [current[job.target] EXCEPT !.native = s.native,
                      !.artifact = s.artifact, !.parity = s.parity,
                      !.promotion = s.promotion]
  <2>1. current[job.target] \in Releases /\ GreenRecord(s) /\ job.target \in Families
    BY <1>0, <1>4 DEF Sync, Types, At, Jobs
  <2>2. GreenRecord(x)
    BY <2>1 DEF GreenRecord, Releases
  <2>3. current' = [current EXCEPT ![job.target] = x] /\ status' = status
    BY <1>4 DEF Sync
  <2> HIDE DEF x
  <2> QED
    BY <1>2, <2>1, <2>2, <2>3
<1>5. CASE ForkCurrent
  <2>1. GreenRecord(Unreleased(status[job.run].contract))
    BY DEF GreenRecord, Unreleased
  <2> QED
    BY <1>0, <1>2, <1>5, <2>1 DEF ForkCurrent, At
<1>6. CASE MoveRun
  <2>1. GreenRecord([status[job.run] EXCEPT !.family = job.target])
    BY <1>0, <1>6 DEF MoveRun, At, GreenRecord, Statuses
  <2>2. status' = [status EXCEPT ![job.run] = [status[job.run] EXCEPT !.family = job.target]]
    BY <1>6 DEF MoveRun
  <2> QED
    BY <1>0, <1>1, <1>6, <2>1, <2>2 DEF MoveRun, At
<1>7. CASE Close
  <2>1. GreenRecord([status[job.run] EXCEPT !.state = "published"])
    BY <1>0, <1>7 DEF Close, At, GreenRecord, Statuses
  <2>2. status' = [status EXCEPT ![job.run] = [status[job.run] EXCEPT !.state = "published"]]
    BY <1>7 DEF Close
  <2> QED
    BY <1>0, <1>1, <1>7, <2>1, <2>2 DEF Close, At
<1>8. CASE WriteCurrent
  <2>1. GreenRecord(ReleaseOf(job.run, status[job.run]))
    BY <1>0, <1>8 DEF WriteCurrent, At, GreenRecord, ReleaseOf
  <2> QED
    BY <1>0, <1>2, <1>8, <2>1 DEF WriteCurrent, At
<1>9. CASE UNCHANGED <<status, current>>
  BY <1>9 DEF NativeInv
<1>10. ASSUME NEW r \in Runs, NEW f \in Families, Release(r, f) PROVE NativeInv'
  BY <1>9, <1>10 DEF Release, files
<1> QED
  BY <1>3, <1>4, <1>5, <1>6, <1>7, <1>8, <1>9, <1>10
     DEF Next, Command, Crash, EnterFamily, OpenHistory, DescribeFamily,
         DeprecatePrevious, RecordPublished, Register, files, vars

\* No release shows a native arm whose gates are not all green, however often
\* it was finalized and synced after its publication.
THEOREM NativeArmsAreGreen == Spec => []NativeArmHasGreenGates
<1>1. Init => NativeInv
  <2>1. \A c : GreenRecord(Unreleased(c))
    BY DEF GreenRecord, Unreleased
  <2> QED
    BY <2>1, NoneAssumption DEF Init, NativeInv
<1>2. Types /\ NativeInv => NativeArmHasGreenGates
  BY DEF Types, NativeInv, GreenRecord, NativeArmHasGreenGates
<1> QED
  BY <1>1, <1>2, TypesHold, NativeInductive, PTL DEF Spec
-----------------------------------------------------------------------------
\* The steps that make a new family, before the publication starts.
Forking == {"enter", "fork", "open", "describe", "move"}

\* A release that stays in its family was found compatible with what is current;
\* a release that leaves it writes the files of another.
CompatInv == /\ At("current") /\ job.source = job.target /\ Published(job.target)
                  => config[current[job.target].run] = config[job.run]
             /\ job.step \in Forking => job.source # job.target

\* The decision to stay in the family, or to leave it, lasts until it is acted on.
LEMMA CompatInductive == CompatInv /\ Types /\ [Next]_vars => CompatInv'
<1> SUFFICES ASSUME CompatInv, Types, [Next]_vars PROVE CompatInv'
  OBVIOUS
<1> USE DEF CompatInv, Forking, At, Goto
<1>1. ASSUME NEW r \in Runs, NEW f \in Families, NEW c \in Contracts,
             NEW path \in Families \cup {None}, NEW inSummary \in BOOLEAN,
             NEW sync \in BOOLEAN, NEW g \in Outcomes,
             Finalize(r, f, c, path, inSummary, g, sync)
      PROVE  CompatInv'
  BY <1>1 DEF Finalize, Idle
<1>2. ASSUME NEW r \in Runs, NEW f \in Families, Release(r, f) PROVE CompatInv'
  <2>1. UNCHANGED <<config, current>>
    BY <1>2 DEF Release, files
  <2>2. CASE /\ SameFamily(r, f)
             /\ job' = [Idle EXCEPT !.step = "current", !.run = r, !.source = f,
                                    !.target = status[r].family]
    BY <2>1, <2>2 DEF Idle, SameFamily, Published
  <2>3. CASE job' = [Idle EXCEPT !.step = "enter", !.run = r, !.source = f,
                                 !.target = f + 1]
    BY <2>3 DEF Idle, Families
  <2> QED
    BY <1>2, <2>2, <2>3 DEF Release
<1>3. CASE Crash \/ Sync \/ Close
  BY <1>3 DEF Crash, Sync, Close, Idle
<1>4. CASE EnterFamily \/ ForkCurrent \/ OpenHistory \/ DescribeFamily \/ MoveRun
  BY <1>4 DEF EnterFamily, ForkCurrent, OpenHistory, DescribeFamily, MoveRun, Types, Jobs
<1>5. CASE WriteCurrent \/ DeprecatePrevious \/ RecordPublished \/ Register
  BY <1>5 DEF WriteCurrent, DeprecatePrevious, RecordPublished, Register, Types, Jobs
<1>6. CASE UNCHANGED vars
  BY <1>6 DEF vars, Published
<1> HIDE DEF CompatInv
<1> QED
  BY <1>1, <1>2, <1>3, <1>4, <1>5, <1>6 DEF Next, Command

\* A step of a release replaces only by what was found compatible.
LEMMA ReplacesCompatibly ==
  ASSUME Types, CompatInv, [Next]_vars
  PROVE  [\A f \in Families :
            Published(f) /\ current'[f].run \in Runs \ {current[f].run} /\ job.source = f
              => config[current'[f].run] = config[current[f].run]]_vars
<1> SUFFICES ASSUME NEW f \in Families, Published(f), job.source = f,
                    current'[f].run \in Runs \ {current[f].run}, Next
             PROVE  config[current'[f].run] = config[current[f].run]
  OBVIOUS
<1>1. CASE WriteCurrent
  <2>1. job.target = f /\ current'[f].run = job.run
    BY <1>1 DEF WriteCurrent, Types, Jobs, ReleaseOf
  <2> QED
    BY <1>1, <2>1 DEF WriteCurrent, CompatInv
<1>2. CASE Sync
  BY <1>2 DEF Sync, Types, Releases
<1>3. CASE ForkCurrent
  BY <1>3 DEF ForkCurrent, CompatInv, At, Forking, Types
<1>4. CASE UNCHANGED current
  BY <1>4
<1>5. Command \/ Crash => UNCHANGED current
  <2>1. ASSUME NEW r, NEW g, NEW c, NEW path, NEW inSummary, NEW sync, NEW o,
               Finalize(r, g, c, path, inSummary, o, sync)
        PROVE  UNCHANGED current
    BY <2>1 DEF Finalize
  <2>2. ASSUME NEW r, NEW g, Release(r, g) PROVE UNCHANGED current
    BY <2>2 DEF Release, files
  <2> QED
    BY <2>1, <2>2 DEF Command, Crash, files
<1>6. EnterFamily \/ OpenHistory \/ DescribeFamily \/ MoveRun \/ DeprecatePrevious
         \/ RecordPublished \/ Register \/ Close => UNCHANGED current
  BY DEF EnterFamily, OpenHistory, DescribeFamily, MoveRun, DeprecatePrevious,
         RecordPublished, Register, Close
<1> QED
  BY <1>1, <1>2, <1>3, <1>4, <1>5, <1>6 DEF Next

\* A release that names the family its run was finalized for never replaces a
\* current run by one of another task surface.
THEOREM ReplacementIsCompatible == Spec => CompatibleReplacement
<1>1. Init => CompatInv
  BY DEF Init, CompatInv, At, Idle, Forking
<1> QED
  BY <1>1, ReplacesCompatibly, TypesHold, CompatInductive, PTL DEF Spec, CompatibleReplacement
-----------------------------------------------------------------------------
\* A command starts from rest and leaves the files of every family alone.
LEMMA CommandFrame ==
  ASSUME Command
  PROVE  /\ At("idle") /\ UNCHANGED <<current, history, registry, health>>
         /\ job'.step \in {"idle", "sync", "current", "enter"}
<1>1. ASSUME NEW r, NEW f, NEW c, NEW path, NEW inSummary, NEW sync, NEW g,
             Finalize(r, f, c, path, inSummary, g, sync)
      PROVE  /\ At("idle") /\ UNCHANGED <<current, history, registry, health>>
             /\ job'.step \in {"idle", "sync", "current", "enter"}
  BY <1>1 DEF Finalize, Idle
<1>2. ASSUME NEW r, NEW f, Release(r, f)
      PROVE  /\ At("idle") /\ UNCHANGED <<current, history, registry, health>>
             /\ job'.step \in {"idle", "sync", "current", "enter"}
  BY <1>2 DEF Release, files, Idle
<1> QED
  BY <1>1, <1>2 DEF Command

\* While the registry stands, so does what is found in it.
LEMMA SameRegistry ==
  ASSUME registry' = registry
  PROVE  \A f : EntriesOf(f)' = EntriesOf(f) /\ FirstOf(f)' = FirstOf(f)
  BY DEF EntriesOf, FirstOf

\* A new entry of a family comes after what there is.
LEMMA EnterFrame ==
  ASSUME Types, EnterFamily
  PROVE  /\ EntriesOf(job.target)' # {}
         /\ \A f : EntriesOf(f) # {} => EntriesOf(f)' # {}
         /\ \A f : f # job.target /\ EntriesOf(f) # {} =>
                     registry'[FirstOf(f)'] = registry[FirstOf(f)]
<1> DEFINE T == [family : Families, run : Runs \cup {None}]
           e == [family |-> job.target, run |-> None]
<1>1. registry' = Append(registry, e)
  BY DEF EnterFamily
<1>2. /\ e \in T /\ e.family = job.target /\ registry \in Seq(T)
      /\ job'.target = job.target
  BY DEF Types, Jobs, EnterFamily, Goto
<1> HIDE DEF T, e
<1>3. /\ DOMAIN registry' = 1..(Len(registry) + 1)
      /\ \A i \in 1..Len(registry) : registry'[i] = registry[i]
      /\ registry'[Len(registry) + 1] = e
      /\ DOMAIN registry = 1..Len(registry) /\ Len(registry) \in Nat
  BY <1>1, <1>2, AppendProperties, LenProperties
<1>4. \A f : EntriesOf(f) \subseteq EntriesOf(f)'
  BY <1>3 DEF EntriesOf
<1>5. Len(registry) + 1 \in EntriesOf(job.target)'
  BY <1>2, <1>3 DEF EntriesOf
<1>6. ASSUME NEW f, f # job.target, EntriesOf(f) # {}
      PROVE  registry'[FirstOf(f)'] = registry[FirstOf(f)]
  <2>1. EntriesOf(f)' = EntriesOf(f)
    BY <1>2, <1>3, <1>6 DEF EntriesOf
  <2>2. FirstOf(f)' = FirstOf(f)
    BY <2>1 DEF FirstOf
  <2>3. FirstOf(f) \in 1..Len(registry)
    BY <1>3, <1>6, FirstIsFirst DEF EntriesOf
  <2> QED
    BY <1>3, <2>2, <2>3
<1> QED
  BY <1>4, <1>5, <1>6

\* Register changes the first entry of the family, of no other.
LEMMA RegisterFrame ==
  ASSUME Types, Register, EntriesOf(job.target) # {}
  PROVE  /\ \A f : EntriesOf(f)' = EntriesOf(f)
         /\ registry'[FirstOf(job.target)'].run = job.run
         /\ \A f : f # job.target /\ EntriesOf(f) # {} =>
                     registry'[FirstOf(f)'] = registry[FirstOf(f)]
<1> DEFINE first == FirstOf(job.target)
<1>1. registry' = [registry EXCEPT ![first].run = job.run]
  BY DEF Register
<1>2. first \in DOMAIN registry /\ registry[first].family = job.target
  BY FirstIsFirst DEF EntriesOf
<1> HIDE DEF first
<1>3. registry \in Seq([family : Families, run : Runs \cup {None}])
  BY DEF Types
<1>4. /\ DOMAIN registry' = DOMAIN registry
      /\ \A i \in DOMAIN registry :
           registry'[i] = IF i = first THEN [registry[i] EXCEPT !.run = job.run]
                                       ELSE registry[i]
  BY <1>1, <1>3
<1>5. \A i \in DOMAIN registry :
         registry[i] \in [family : Families, run : Runs \cup {None}]
  BY <1>3, ElementOfSeq, LenProperties
<1>6. \A i \in DOMAIN registry : registry'[i].family = registry[i].family
  BY <1>4, <1>5
<1>7. \A f : EntriesOf(f)' = EntriesOf(f)
  BY <1>4, <1>6 DEF EntriesOf
<1>8. \A f : FirstOf(f)' = FirstOf(f)
  BY <1>7 DEF FirstOf
<1>9. registry'[FirstOf(job.target)'].run = job.run
  <2>1. job'.target = job.target
    BY DEF Types, Jobs, Register, Goto
  <2>2. FirstOf(job.target)' = first
    BY <1>8, <2>1 DEF first
  <2>3. registry'[first] = [registry[first] EXCEPT !.run = job.run]
    BY <1>2, <1>4
  <2>4. registry[first] \in [family : Families, run : Runs \cup {None}]
    BY <1>2, <1>5
  <2> QED
    BY <2>2, <2>3, <2>4
<1>10. ASSUME NEW f, f # job.target, EntriesOf(f) # {}
       PROVE  registry'[FirstOf(f)'] = registry[FirstOf(f)]
  <2>1. FirstOf(f) \in DOMAIN registry /\ registry[FirstOf(f)].family = f
    BY <1>10, FirstIsFirst DEF EntriesOf
  <2> QED
    BY <1>2, <1>4, <1>8, <1>10, <2>1
<1> QED
  BY <1>7, <1>9, <1>10
-----------------------------------------------------------------------------
EndsWith(h, r) == h[Len(h)] = [run |-> r, status |-> "published"]

\* Registry and HISTORY name the run that CURRENT names.
Agree(f) == /\ registry[FirstOf(f)].run = current[f].run
            /\ EndsWith(history[f], current[f].run)

\* What an update has achieved at each of its steps, and that a family with a
\* CURRENT is in the registry.
Progress ==
  /\ job.step \in {"deprecate", "publish", "register", "close"} =>
       current[job.target] \in Releases /\ current[job.target].run = job.run
  /\ job.step \in {"register", "close"} => EndsWith(history[job.target], job.run)
  /\ At("close") => registry[FirstOf(job.target)].run = job.run
  /\ At("fork") => EntriesOf(job.target) # {}
  /\ \A f \in Families : current[f] \in Releases => EntriesOf(f) # {}

\* A family that no update is busy with, or was cut off in, is in agreement.
FilesInv == /\ Progress
            /\ \A f \in Families :
                 Published(f) /\ health[f] # "torn" /\ ~Updating(f) => Agree(f)

\* A step leaves a family in agreement when it changes neither what CURRENT
\* names, nor its history, nor its first entry.
LEMMA AgreeFrame ==
  ASSUME Types, Types', NEW f \in Families, Published(f)', EntriesOf(f) # {},
         current'[f] = current[f], history'[f] = history[f],
         registry'[FirstOf(f)'] = registry[FirstOf(f)],
         Published(f) => Agree(f)
  PROVE  Agree(f)'
  BY DEF Agree, Published

\* Every write keeps the files of the other families in agreement, and the last
\* one those of its own.
LEMMA FilesInductive == Types /\ Types' /\ FilesInv /\ [Next]_vars => FilesInv'
<1> SUFFICES ASSUME Types, Types', FilesInv, [Next]_vars PROVE FilesInv'
  OBVIOUS
<1> DEFINE Others(fs) == \A f \in fs : Published(f)' /\ health'[f] # "torn" /\ ~Updating(f)'
                                         => Agree(f)'
<1>0. job \in Jobs /\ job.target \in Families
  BY DEF Types, Jobs
<1>1. ASSUME registry' = registry, UNCHANGED <<current, history>>, NEW fs \in SUBSET Families,
             \A f \in fs : health'[f] # "torn" => health[f] # "torn" /\ ~Updating(f)
      PROVE  Others(fs)
  <2> SUFFICES ASSUME NEW f \in fs, Published(f)', health'[f] # "torn", ~Updating(f)'
               PROVE  Agree(f)'
    OBVIOUS
  <2>1. Published(f) /\ Agree(f)
    BY <1>1 DEF FilesInv, Published
  <2>2. FirstOf(f)' = FirstOf(f)
    BY <1>1, SameRegistry
  <2> QED
    BY <1>1, <2>1, <2>2 DEF Agree
<1>2. CASE Command
  <2>1. Others(Families)
    BY <1>1, <1>2, CommandFrame DEF Updating
  <2>2. Progress'
    BY <1>2, CommandFrame, SameRegistry DEF FilesInv, Progress, At
  <2> QED
    BY <2>1, <2>2 DEF FilesInv
<1>3. CASE Crash
  <2>1. Others(Families)
    BY <1>0, <1>1, <1>3 DEF Crash, files, Updating, Types, At
  <2>2. Progress'
    BY <1>3, SameRegistry DEF FilesInv, Progress, At, Crash, files, Idle
  <2> QED
    BY <2>1, <2>2 DEF FilesInv
<1>4. CASE UNCHANGED vars
  <2>1. Others(Families)
    <3> SUFFICES ASSUME NEW f \in Families, Published(f)', health'[f] # "torn", ~Updating(f)'
                 PROVE  Agree(f)'
      OBVIOUS
    <3>1. Published(f) /\ health[f] # "torn" /\ ~Updating(f)
      BY <1>4 DEF vars, Published, Updating, At
    <3>2. FirstOf(f)' = FirstOf(f)
      BY <1>4, SameRegistry DEF vars
    <3> QED
      BY <1>4, <3>1, <3>2 DEF vars, FilesInv, Agree
  <2>2. Progress'
    BY <1>4, SameRegistry DEF vars, FilesInv, Progress, At
  <2> QED
    BY <2>1, <2>2 DEF FilesInv
<1>5. CASE Sync
  <2>1. current[job.target] \in Releases /\ current'[job.target].run = current[job.target].run
    BY <1>0, <1>5 DEF Sync, Types, Releases
  <2>2. \A f \in Families : (current'[f] \in Releases => current[f] \in Releases)
                            /\ (Published(f)' => Published(f) /\ current'[f].run = current[f].run)
    BY <1>0, <1>5, <2>1, NoneAssumption DEF Sync, Types, Published
  <2>3. /\ job'.step = "idle" /\ At("sync")
        /\ registry' = registry /\ history' = history /\ health' = health
    BY <1>5 DEF Sync, Idle
  <2>4. Others(Families)
    <3> SUFFICES ASSUME NEW f \in Families, Published(f)', health'[f] # "torn"
                 PROVE  Agree(f)'
      OBVIOUS
    <3>1. Published(f) /\ Agree(f) /\ current'[f].run = current[f].run
      BY <2>2, <2>3 DEF FilesInv, Updating
    <3>2. FirstOf(f)' = FirstOf(f)
      BY <2>3, SameRegistry
    <3> QED
      BY <2>3, <3>1, <3>2 DEF Agree
  <2>5. Progress'
    BY <2>2, <2>3, SameRegistry DEF FilesInv, Progress, At
  <2> QED
    BY <2>4, <2>5 DEF FilesInv
\* The update of one family: the others stay as they are.
<1>6. ASSUME ~At("idle"), ~At("sync"), job'.target = job.target, health' = health,
             \A f \in Families \ {job.target} :
               /\ current'[f] = current[f] /\ history'[f] = history[f]
               /\ EntriesOf(f) # {} => registry'[FirstOf(f)'] = registry[FirstOf(f)],
             job'.step \notin {"idle", "sync"}, Progress'
      PROVE  FilesInv'
  <2> SUFFICES ASSUME NEW f \in Families, Published(f)', health'[f] # "torn", ~Updating(f)'
               PROVE  Agree(f)'
    BY <1>6 DEF FilesInv
  <2>1. f # job.target
    BY <1>6 DEF Updating, At
  <2>2. Published(f) /\ Agree(f)
    BY <1>6, <2>1 DEF FilesInv, Published, Updating
  <2>3. EntriesOf(f) # {}
    BY <2>2 DEF FilesInv, Progress, Published, Types
  <2> QED
    BY <1>6, <2>1, <2>2, <2>3, AgreeFrame
<1>7. CASE EnterFamily
  <2>1. Progress'
    BY <1>7, EnterFrame DEF FilesInv, Progress, At, EnterFamily, Goto, Types, Jobs
  <2> QED
    BY <1>6, <1>7, <2>1, EnterFrame DEF EnterFamily, At, Goto, Types, Jobs
<1>8. CASE ForkCurrent
  <2>1. Progress'
    BY <1>8, SameRegistry DEF FilesInv, Progress, At, ForkCurrent, Goto, Types, Jobs
  <2> QED
    BY <1>6, <1>8, <2>1, SameRegistry DEF ForkCurrent, At, Goto, Types, Jobs
<1>9. CASE OpenHistory
  <2>1. Progress'
    BY <1>9, SameRegistry DEF FilesInv, Progress, At, OpenHistory, Goto, Types, Jobs
  <2> QED
    BY <1>6, <1>9, <2>1, SameRegistry DEF OpenHistory, At, Goto, Types, Jobs
<1>10. CASE DescribeFamily \/ MoveRun
  <2>1. Progress'
    BY <1>10, SameRegistry
       DEF FilesInv, Progress, At, DescribeFamily, MoveRun, Goto, Types, Jobs
  <2> QED
    BY <1>6, <1>10, <2>1, SameRegistry DEF DescribeFamily, MoveRun, At, Goto, Types, Jobs
<1>11. CASE WriteCurrent
  <2>1. Progress'
    BY <1>11, SameRegistry
       DEF FilesInv, Progress, At, WriteCurrent, ReleaseOf, Releases, Statuses, Types, Jobs
  <2> QED
    BY <1>6, <1>11, <2>1, SameRegistry DEF WriteCurrent, At, Types, Jobs
<1>12. CASE DeprecatePrevious
  <2>1. Progress'
    BY <1>12, SameRegistry DEF FilesInv, Progress, At, DeprecatePrevious, Goto, Types, Jobs
  <2> QED
    BY <1>6, <1>12, <2>1, SameRegistry DEF DeprecatePrevious, At, Goto, Types, Jobs
<1>13. CASE RecordPublished
  <2>1. EndsWith(history'[job.target], job.run)
    <3> DEFINE e == [run |-> job.run, status |-> "published"]
    <3>1. history'[job.target] = Append(history[job.target], e)
      BY <1>0, <1>13 DEF RecordPublished, Types
    <3>2. history[job.target] \in Seq(Entries) /\ e \in Entries
      BY <1>0, <1>13 DEF RecordPublished, Types, Entries, At
    <3> HIDE DEF e
    <3>3. history'[job.target][Len(history'[job.target])] = e
      BY <3>1, <3>2, AppendProperties
    <3> QED
      BY <3>3 DEF EndsWith, e
  <2>2. Progress'
    BY <1>13, <2>1, SameRegistry DEF FilesInv, Progress, At, RecordPublished, Goto, Types, Jobs
  <2> QED
    BY <1>6, <1>13, <2>2, SameRegistry DEF RecordPublished, At, Goto, Types, Jobs
<1>14. CASE Register
  <2>1. EntriesOf(job.target) # {}
    BY <1>0, <1>14 DEF FilesInv, Progress, Register, At
  <2>2. Progress'
    BY <1>14, <2>1, RegisterFrame DEF FilesInv, Progress, At, Register, Goto, Types, Jobs
  <2> QED
    BY <1>6, <1>14, <2>1, <2>2, RegisterFrame DEF Register, At, Goto, Types, Jobs
<1>15. CASE Close
  <2>1. Agree(job.target)
    BY <1>15 DEF FilesInv, Progress, Close, At, Agree
  <2>2. \A f \in Families \ {job.target} : health'[f] = health[f]
    BY <1>0, <1>15 DEF Close, Types
  <2>3. Others(Families \ {job.target})
    BY <1>1, <1>15, <2>2 DEF Close, Updating
  <2>4. Others({job.target})
    BY <1>15, <2>1, SameRegistry DEF Close, Agree
  <2>5. Progress'
    BY <1>15, SameRegistry DEF FilesInv, Progress, At, Close, Idle
  <2> QED
    BY <2>3, <2>4, <2>5 DEF FilesInv
<1> QED
  BY <1>2, <1>3, <1>4, <1>5, <1>7, <1>8, <1>9, <1>10, <1>11, <1>12, <1>13, <1>14, <1>15
     DEF Next

\* The tree starts in agreement: nothing is published.
LEMMA FilesStart == Init => FilesInv
<1> SUFFICES ASSUME Init PROVE FilesInv
  OBVIOUS
<1>1. \A f \in Families : ~Published(f) /\ (current[f] \in Releases => f = 1)
  BY NoneAssumption DEF Init, Published, Unreleased
<1>2. EntriesOf(1) # {}
  BY DEF Init, EntriesOf
<1>3. job.step = "idle"
  BY DEF Init, Idle
<1> QED
  BY <1>1, <1>2, <1>3 DEF FilesInv, Progress, At

\* Registry, CURRENT and HISTORY of a family agree once its update is complete,
\* although earlier updates were cut off between any two writes.
THEOREM FilesAgree == Spec => []ReleaseFilesAgree
<1>1. Init => FilesInv
  BY FilesStart
<1>2. FilesInv => ReleaseFilesAgree
  BY DEF FilesInv, ReleaseFilesAgree, Agree, EndsWith
<1>3. Spec => []FilesInv
  BY <1>1, TypesHold, FilesInductive, PTL DEF Spec
<1> QED
  BY <1>2, <1>3, PTL
-----------------------------------------------------------------------------
\* Publications and deprecations take turns.
Alternates(h) ==
  \A i \in DOMAIN h : IF i % 2 = 1 THEN h[i].status = "published"
                      ELSE h[i] = [run |-> h[i - 1].run, status |-> "deprecated"]

\* A history that tells of releases up to that of r, or of none.
Chain(h, r) == /\ h \in Seq(Entries) /\ Alternates(h)
               /\ IF r = None THEN Len(h) = 0
                  ELSE Len(h) % 2 = 1 /\ EndsWith(h, r)

\* The history of a family ends with the run that CURRENT names.
Told(f) == current[f] \in Releases => Chain(history[f], current[f].run)

\* What is told of the family of an update at each of its steps.
Telling ==
  LET f == job.target
  IN  /\ At("open") => current[f] \in Releases /\ current[f].run = None
      /\ job.step \in {"describe", "move", "current"} => Told(f)
      /\ At("deprecate") => Chain(history[f], job.prev)
      /\ At("publish") => /\ history[f] \in Seq(Entries) /\ Alternates(history[f])
                          /\ Len(history[f]) % 2 = 0
      /\ job.step \in {"register", "close"} => Chain(history[f], job.run)

HistoryInv ==
  /\ ~At("idle") /\ ~At("sync") /\ health[job.target] = "whole" => Telling
  /\ At("open") => current[job.target] \in Releases
  /\ \A f \in Families : /\ current[f] \notin Releases => history[f] = None
                         /\ health[f] = "whole" /\ ~Updating(f) => Told(f)

\* What is published may be deprecated.
LEMMA DeprecationKeeps ==
  ASSUME NEW h, NEW r \in Runs, Chain(h, r)
  PROVE  /\ Append(h, [run |-> r, status |-> "deprecated"]) \in Seq(Entries)
         /\ Alternates(Append(h, [run |-> r, status |-> "deprecated"]))
         /\ Len(Append(h, [run |-> r, status |-> "deprecated"])) % 2 = 0
<1> DEFINE e == [run |-> r, status |-> "deprecated"]
<1>1. e \in Entries /\ h \in Seq(Entries) /\ Alternates(h)
  BY DEF Entries, Chain
<1>2. Len(h) % 2 = 1 /\ h[Len(h)].run = r /\ Len(h) \in Nat /\ DOMAIN h = 1..Len(h)
  BY <1>1, GovernanceAssumption, LenProperties DEF Chain, EndsWith
<1>3. e = [run |-> h[Len(h)].run, status |-> "deprecated"]
  BY <1>2
<1> HIDE DEF e
<1>4. /\ Append(h, e) \in Seq(Entries) /\ Len(Append(h, e)) = Len(h) + 1
      /\ \A i \in 1..Len(h) : Append(h, e)[i] = h[i]
      /\ Append(h, e)[Len(h) + 1] = e
      /\ DOMAIN Append(h, e) = 1..(Len(h) + 1)
  BY <1>1, AppendProperties, LenProperties
<1>5. (Len(h) + 1) % 2 = 0
  BY <1>2
<1>6. Alternates(Append(h, e))
  <2> SUFFICES ASSUME NEW i \in 1..(Len(h) + 1)
               PROVE  IF i % 2 = 1 THEN Append(h, e)[i].status = "published"
                      ELSE Append(h, e)[i] =
                             [run |-> Append(h, e)[i - 1].run, status |-> "deprecated"]
    BY <1>4 DEF Alternates
  <2>1. CASE i = Len(h) + 1
    <3>1. i % 2 = 0 /\ i - 1 \in 1..Len(h) /\ i - 1 = Len(h)
      BY <1>2, <1>5, <2>1
    <3>2. Append(h, e)[i] = e /\ Append(h, e)[i - 1] = h[Len(h)]
      BY <1>4, <2>1, <3>1
    <3> QED
      BY <1>3, <3>1, <3>2
  <2>2. CASE i \in 1..Len(h)
    <3>1. i % 2 # 1 => i - 1 \in 1..Len(h)
      BY <1>2, <2>2
    <3>2. Append(h, e)[i] = h[i]
      BY <1>4, <2>2
    <3>3. i % 2 # 1 => Append(h, e)[i - 1] = h[i - 1]
      BY <1>4, <3>1
    <3> QED
      BY <1>1, <1>2, <2>2, <3>2, <3>3 DEF Alternates
  <2> QED
    BY <1>2, <2>1, <2>2
<1> QED
  BY <1>4, <1>5, <1>6 DEF e

\* After a deprecation, or at first, a run may be published.
LEMMA PublicationKeeps ==
  ASSUME NEW h \in Seq(Entries), NEW r \in Runs, Alternates(h), Len(h) % 2 = 0
  PROVE  Chain(Append(h, [run |-> r, status |-> "published"]), r)
<1> DEFINE e == [run |-> r, status |-> "published"]
<1>1. e \in Entries /\ Len(h) \in Nat /\ DOMAIN h = 1..Len(h)
  BY LenProperties DEF Entries
<1>2. e.status = "published"
  OBVIOUS
<1> HIDE DEF e
<1>3. /\ Append(h, e) \in Seq(Entries) /\ Len(Append(h, e)) = Len(h) + 1
      /\ \A i \in 1..Len(h) : Append(h, e)[i] = h[i]
      /\ Append(h, e)[Len(h) + 1] = e
      /\ DOMAIN Append(h, e) = 1..(Len(h) + 1)
  BY <1>1, AppendProperties, LenProperties
<1>4. (Len(h) + 1) % 2 = 1
  BY <1>1
<1>5. Alternates(Append(h, e))
  <2> SUFFICES ASSUME NEW i \in 1..(Len(h) + 1)
               PROVE  IF i % 2 = 1 THEN Append(h, e)[i].status = "published"
                      ELSE Append(h, e)[i] =
                             [run |-> Append(h, e)[i - 1].run, status |-> "deprecated"]
    BY <1>3 DEF Alternates
  <2>1. CASE i = Len(h) + 1
    BY <1>2, <1>3, <1>4, <2>1
  <2>2. CASE i \in 1..Len(h)
    <3>1. i % 2 # 1 => i - 1 \in 1..Len(h)
      BY <1>1, <2>2
    <3>2. Append(h, e)[i] = h[i]
      BY <1>3, <2>2
    <3>3. i % 2 # 1 => Append(h, e)[i - 1] = h[i - 1]
      BY <1>3, <3>1
    <3> QED
      BY <1>1, <2>2, <3>2, <3>3 DEF Alternates
  <2> QED
    BY <1>1, <2>1, <2>2
<1>6. EndsWith(Append(h, e), r)
  BY <1>3 DEF EndsWith, e
<1>7. r # None
  BY GovernanceAssumption
<1>8. Chain(Append(h, e), r)
  BY <1>3, <1>4, <1>5, <1>6, <1>7 DEF Chain
<1> QED
  BY <1>8 DEF e

\* What is told of a family depends on its history and on whom CURRENT names.
LEMMA ToldFrame ==
  ASSUME NEW f \in Families, Told(f), history'[f] = history[f],
         current'[f] \in Releases => current[f] \in Releases,
         current'[f] \in Releases => current'[f].run = current[f].run
  PROVE  Told(f)'
  BY DEF Told

\* An update that is not cut off leaves a history that tells one release after
\* another.
LEMMA HistoryInductive ==
  Types /\ Types' /\ FilesInv /\ HistoryInv /\ [Next]_vars => HistoryInv'
<1> SUFFICES ASSUME Types, Types', FilesInv, HistoryInv, [Next]_vars PROVE HistoryInv'
  OBVIOUS
<1> DEFINE Kept(f) == /\ current'[f] \notin Releases => history'[f] = None
                      /\ health'[f] = "whole" /\ ~Updating(f)' => Told(f)'
<1>0. job \in Jobs /\ job.target \in Families /\ job' \in Jobs /\ job'.target \in Families
  BY DEF Types, Jobs
\* A family whose files stand, and that was not being updated.
<1>1. ASSUME NEW f \in Families, current'[f] = current[f], history'[f] = history[f],
             health'[f] = "whole" => health[f] = "whole" /\ ~Updating(f)
      PROVE  Kept(f)
  BY <1>1, ToldFrame DEF HistoryInv
<1>2. CASE Command
  <2>1. \A f \in Families : Kept(f) /\ (health'[f] = "whole" => Told(f)')
    BY <1>1, <1>2, CommandFrame, ToldFrame DEF Updating, HistoryInv
  <2>2. job'.step \in {"current", "enter"} /\ health'[job'.target] = "whole" => Telling'
    BY <1>0, <2>1 DEF Telling, At
  <2> QED
    BY <1>2, <2>1, <2>2, CommandFrame DEF HistoryInv, At
<1>3. CASE Crash
  <2>1. \A f \in Families : Kept(f)
    BY <1>0, <1>1, <1>3 DEF Crash, files, Updating, Types, At
  <2> QED
    BY <1>3, <2>1 DEF HistoryInv, Crash, Idle, At
<1>4. CASE UNCHANGED vars
  <2>1. \A f \in Families : Kept(f)
    BY <1>4, ToldFrame DEF HistoryInv, vars, Updating, At
  <2>2. ~At("idle")' /\ ~At("sync")' /\ health'[job'.target] = "whole" => Telling'
    BY <1>4 DEF HistoryInv, vars, Telling, Told, At
  <2>3. At("open")' => current'[job'.target] \in Releases
    BY <1>4 DEF HistoryInv, vars, At
  <2> QED
    BY <2>1, <2>2, <2>3 DEF HistoryInv
<1>5. CASE Sync
  <2>1. current[job.target] \in Releases /\ current'[job.target].run = current[job.target].run
    BY <1>0, <1>5 DEF Sync, Types, Releases
  <2>2. \A f \in Families : /\ current[f] \in Releases => current'[f] \in Releases
                            /\ current'[f] \in Releases => /\ current[f] \in Releases
                                                           /\ current'[f].run = current[f].run
    <3> DEFINE x == [current[job.target] EXCEPT
                       !.native = status[job.run].native,
                       !.artifact = status[job.run].artifact,
                       !.parity = status[job.run].parity,
                       !.promotion = status[job.run].promotion]
    <3>1. current' = [current EXCEPT ![job.target] = x]
      BY <1>5 DEF Sync
    <3>2. status[job.run] \in Statuses
      BY <1>5 DEF Sync, Types, At
    <3>3. x \in Releases
      BY <2>1, <3>2 DEF Releases, Statuses
    <3> HIDE DEF x
    <3>4. current'[job.target] \in Releases
      BY <1>0, <3>1, <3>3 DEF Types
    <3>5. \A f \in Families \ {job.target} : current'[f] = current[f]
      BY <3>1 DEF Types
    <3> QED
      BY <2>1, <3>4, <3>5
  <2>3. /\ job'.step = "idle" /\ At("sync")
        /\ history' = history /\ health' = health
    BY <1>5 DEF Sync, Idle
  <2>4. \A f \in Families : Kept(f)
    BY <2>2, <2>3, ToldFrame DEF HistoryInv, Updating
  <2> QED
    BY <2>3, <2>4 DEF HistoryInv, At
\* The update of one family: the others stand.
<1>6. ASSUME ~At("idle"), ~At("sync"), job'.target = job.target, health' = health,
             \A f \in Families \ {job.target} :
               current'[f] = current[f] /\ history'[f] = history[f],
             job'.step \notin {"idle", "sync"},
             current'[job.target] \notin Releases => history'[job.target] = None,
             job'.step # "open" \/ current'[job.target] \in Releases,
             health[job.target] = "whole" => Telling'
      PROVE  HistoryInv'
  <2>1. \A f \in Families \ {job.target} : Kept(f)
    BY <1>1, <1>6 DEF Updating
  <2>2. Kept(job.target)
    BY <1>6 DEF Updating, At
  <2> QED
    BY <1>6, <2>1, <2>2 DEF HistoryInv, At
<1>7. current[job.target] \notin Releases => history[job.target] = None
  BY <1>0 DEF HistoryInv
<1>8. ~At("idle") /\ ~At("sync") /\ health[job.target] = "whole" => Telling
  BY DEF HistoryInv
<1>9. CASE EnterFamily
  BY <1>6, <1>7, <1>9 DEF EnterFamily, At, Goto, Types, Jobs, Telling
<1>10. CASE ForkCurrent
  <2>1. current'[job.target] = Unreleased(status[job.run].contract)
    BY <1>0, <1>10 DEF ForkCurrent, Types
  <2>2. Unreleased(status[job.run].contract) \in Releases
    BY <1>10 DEF ForkCurrent, Types, At, Statuses, Unreleased, Releases, Gates
  <2>3. job'.target = job.target /\ job'.step = "open"
    BY <1>10 DEF ForkCurrent, Goto, Types, Jobs
  <2>4. Telling'
    BY <2>1, <2>2, <2>3 DEF Telling, At, Unreleased
  <2> QED
    BY <1>6, <1>10, <2>1, <2>2, <2>3, <2>4 DEF ForkCurrent, At, Types
<1>11. CASE OpenHistory
  <2>1. history'[job.target] = <<>> /\ current' = current
    BY <1>0, <1>11 DEF OpenHistory, Types
  <2>2. job'.target = job.target /\ job'.step = "describe"
    BY <1>11 DEF OpenHistory, Goto, Types, Jobs
  <2>3. Chain(<<>>, None)
    BY EmptySeq DEF Chain, Alternates
  <2>4. health[job.target] = "whole" => Telling'
    BY <1>8, <1>11, <2>1, <2>2, <2>3 DEF OpenHistory, Telling, Told, At
  <2>5. current[job.target] \in Releases
    BY <1>11 DEF HistoryInv, OpenHistory
  <2> QED
    BY <1>6, <1>11, <2>1, <2>2, <2>4, <2>5 DEF OpenHistory, At, Types
<1>12. CASE DescribeFamily \/ MoveRun
  <2>1. job'.target = job.target /\ job'.step \in {"move", "current"}
    BY <1>12 DEF DescribeFamily, MoveRun, Goto, Types, Jobs
  <2>2. UNCHANGED <<current, history, health>>
    BY <1>12 DEF DescribeFamily, MoveRun
  <2>3. health[job.target] = "whole" => Telling'
    BY <1>8, <1>12, <2>1, <2>2 DEF DescribeFamily, MoveRun, Telling, Told, At
  <2> QED
    BY <1>6, <1>7, <1>12, <2>1, <2>2, <2>3 DEF DescribeFamily, MoveRun, At
<1>13. CASE WriteCurrent
  <2>1. current[job.target] \in Releases /\ job'.target = job.target
        /\ job'.prev = current[job.target].run /\ job'.step = "deprecate"
    BY <1>0, <1>13 DEF WriteCurrent, Types, Jobs
  <2>2. current'[job.target] \in Releases
    BY <1>0, <1>13 DEF WriteCurrent, Types, At, ReleaseOf, Releases, Statuses
  <2>3. health[job.target] = "whole" => Telling'
    BY <1>8, <1>13, <2>1 DEF WriteCurrent, Telling, Told, At
  <2> QED
    BY <1>6, <1>13, <2>1, <2>2, <2>3 DEF WriteCurrent, At, Types
<1>14. current[job.target] \in Releases
       \/ job.step \notin {"deprecate", "publish", "register", "close"}
  BY DEF FilesInv, Progress
<1>15. CASE DeprecatePrevious
  <2>1. job'.target = job.target /\ job'.step = "publish" /\ UNCHANGED <<current, health>>
    BY <1>15 DEF DeprecatePrevious, Goto, Types, Jobs
  <2>2. ASSUME health[job.target] = "whole"
        PROVE  /\ history'[job.target] \in Seq(Entries) /\ Alternates(history'[job.target])
               /\ Len(history'[job.target]) % 2 = 0
    <3>1. Chain(history[job.target], job.prev)
      BY <1>8, <1>15, <2>2 DEF DeprecatePrevious, Telling, At
    <3>2. CASE job.prev = None
      <4>1. history' = history
        BY <1>15, <3>2 DEF DeprecatePrevious
      <4>2. history[job.target] \in Seq(Entries) /\ Alternates(history[job.target])
        BY <3>1 DEF Chain
      <4>3. Len(history[job.target]) = 0
        BY <3>1, <3>2 DEF Chain
      <4>4. Len(history[job.target]) % 2 = 0
        BY <4>3
      <4> QED
        BY <4>1, <4>2, <4>4
    <3>3. CASE job.prev # None
      <4>1. history'[job.target] =
              Append(history[job.target], [run |-> job.prev, status |-> "deprecated"])
        BY <1>0, <1>15, <3>3 DEF DeprecatePrevious, Types
      <4>2. job.prev \in Runs
        BY <1>0, <3>3 DEF Jobs
      <4> QED
        BY <3>1, <4>1, <4>2, DeprecationKeeps
    <3> QED
      BY <3>2, <3>3
  <2>3. health[job.target] = "whole" => Telling'
    BY <2>1, <2>2 DEF Telling, At
  <2> QED
    BY <1>6, <1>14, <1>15, <2>1, <2>3 DEF DeprecatePrevious, At, Types
<1>16. CASE RecordPublished
  <2>1. job'.target = job.target /\ job'.step = "register" /\ UNCHANGED <<current, health>>
        /\ job'.run = job.run
    BY <1>16 DEF RecordPublished, Goto, Types, Jobs
  <2>2. ASSUME health[job.target] = "whole" PROVE Chain(history'[job.target], job.run)
    <3>1. /\ history[job.target] \in Seq(Entries) /\ Alternates(history[job.target])
          /\ Len(history[job.target]) % 2 = 0
      BY <1>8, <1>16, <2>2 DEF RecordPublished, Telling, At
    <3>2. history'[job.target] =
            Append(history[job.target], [run |-> job.run, status |-> "published"])
      BY <1>0, <1>16 DEF RecordPublished, Types
    <3>3. job.run \in Runs
      BY <1>16 DEF RecordPublished, Types, At
    <3> QED
      BY <3>1, <3>2, <3>3, PublicationKeeps
  <2>3. health[job.target] = "whole" => Telling'
    BY <2>1, <2>2 DEF Telling, At
  <2> QED
    BY <1>6, <1>14, <1>16, <2>1, <2>3 DEF RecordPublished, At, Types
<1>17. CASE Register
  <2>1. job'.target = job.target /\ job'.step = "close" /\ job'.run = job.run
        /\ UNCHANGED <<current, history, health>>
    BY <1>17 DEF Register, Goto, Types, Jobs
  <2>2. health[job.target] = "whole" => Telling'
    BY <1>8, <1>17, <2>1 DEF Register, Telling, At
  <2> QED
    BY <1>6, <1>7, <1>17, <2>1, <2>2 DEF Register, At
<1>18. CASE Close
  <2>1. \A f \in Families \ {job.target} : Kept(f)
    BY <1>0, <1>1, <1>18 DEF Close, Updating, Types
  <2>2. health'[job.target] = "whole" => health[job.target] = "whole"
    BY <1>0, <1>18 DEF Close, Types
  <2>3. current[job.target] \in Releases /\ current[job.target].run = job.run
    BY <1>18 DEF FilesInv, Progress, Close, At
  <2>4. health[job.target] = "whole" => Told(job.target)
    BY <1>8, <1>18, <2>3 DEF Close, Telling, Told, At
  <2>5. ASSUME NEW f \in Families, f = job.target PROVE Kept(f)
    <3>1. current' = current /\ history' = history
      BY <1>18 DEF Close
    <3>2. health'[f] = "whole" => Told(f)
      BY <2>2, <2>4, <2>5
    <3> QED
      BY <2>3, <2>5, <3>1, <3>2, ToldFrame
  <2> QED
    BY <1>18, <2>1, <2>5 DEF HistoryInv, Close, Idle, At
<1> QED
  BY <1>2, <1>3, <1>4, <1>5, <1>9, <1>10, <1>11, <1>12, <1>13, <1>15, <1>16, <1>17, <1>18
     DEF Next

\* Each published run is deprecated before the next is published, and what
\* CURRENT names is published last.
THEOREM HistoriesAlternate == Spec => []HistoryAlternates
<1>1. Init => FilesInv
  BY FilesStart
<1>2. Init => HistoryInv
  <2> SUFFICES ASSUME Init PROVE HistoryInv
    OBVIOUS
  <2>1. Chain(<<>>, None)
    BY EmptySeq DEF Chain, Alternates
  <2>2. job.step = "idle"
    BY DEF Init, Idle
  <2>3. ASSUME NEW f \in Families PROVE current[f] \notin Releases => history[f] = None
    <3>1. CASE f = 1
      <4>1. \A c \in Contracts : Unreleased(c) \in Releases
        BY DEF Unreleased, Releases, Gates
      <4> QED
        BY <3>1, <4>1 DEF Init
    <3>2. CASE f # 1
      BY <3>2 DEF Init
    <3> QED
      BY <3>1, <3>2
  <2>4. ASSUME NEW f \in Families, current[f] \in Releases PROVE Told(f)
    <3>1. f = 1
      BY <2>4, NoneAssumption DEF Init
    <3>2. history[f] = <<>> /\ current[f].run = None
      BY <3>1 DEF Init, Unreleased
    <3> QED
      BY <2>1, <3>2 DEF Told
  <2>5. \A f \in Families : Told(f)
    BY <2>4 DEF Told
  <2> QED
    BY <2>2, <2>3, <2>5 DEF HistoryInv, At
<1>3. Types /\ HistoryInv => HistoryAlternates
  <2> SUFFICES ASSUME Types, HistoryInv, NEW f \in Families, history[f] # None,
                      health[f] = "whole", ~Updating(f)
               PROVE  Alternates(history[f])
    BY DEF HistoryAlternates, Alternates
  <2> QED
    BY DEF HistoryInv, Told, Chain
<1>4. Spec => [](Types /\ FilesInv)
  BY <1>1, TypesHold, FilesInductive, PTL DEF Spec
<1> QED
  BY <1>2, <1>3, <1>4, HistoryInductive, PTL DEF Spec
-----------------------------------------------------------------------------
(***************************************************************************)
(* The scripts of PublishedRuns.                                           *)
(***************************************************************************)
Tasks == {"none", "refresh", "publish", "governance", "community", "index"}
ScriptSteps == {"off", "build", "scaffold", "clear", "copy", "sync", "index", "release",
                "audit", "metadata", "readmes", "reindex", "profile", "authority"}
ScriptsOf == [task : Tasks, step : ScriptSteps, run : Runs \cup {None},
              force : BOOLEAN, promote : BOOLEAN]

\* A status that a script may hand on: none, or one of finalize_run.
Good(s) == s = None \/ (s \in Statuses /\ GreenRecord(s))

\* A bundle under runs/.
Bundle(w) == /\ w = [config |-> w.config, build |-> w.build, status |-> w.status]
             /\ w.config \in Configs /\ Good(w.status)

\* What is hidden under runs/ is a bundle like the others, and a script that is
\* about to copy from there finds one.
TreeInv ==
  /\ script \in ScriptsOf
  /\ script.step \in {"build", "scaffold", "clear", "copy", "sync", "release"}
       \/ script.task = "refresh" => script.run \in Runs
  /\ work = [r \in Runs |-> work[r]]
  /\ \A r \in Runs : work[r] # None => Bundle(work[r])
  /\ script.step = "clear" /\ Hidden(script.run) => Bundle(work[script.run])
  /\ script.step = "sync" => Bundle(work[script.run])

\* What a script does beside its releases: no release is in progress, and only
\* configurations and statuses change.
Aside == /\ At("idle")
         /\ UNCHANGED <<current, history, manifest, registry, job, health>>
         /\ config' \in [Runs -> Configs]
         /\ status' = [r \in Runs |-> status'[r]]
         /\ \A r \in Runs : status'[r] = status[r] \/ Good(status'[r])

\* finalize_run writes a status whose native arm has green gates.
LEMMA FinalizedIsGood ==
  ASSUME NEW c, NEW g \in Outcomes
  PROVE  Finalized(c, g) \in Statuses /\ GreenRecord(Finalized(c, g))
<1> DEFINE state == CASE g.artifact # "green" -> "experimental"
                      [] g.artifact = "green" /\ g.promotion = "green" /\ Lockable(c)
                           -> "review-locked"
                      [] OTHER -> "candidate"
<1>1. state \in {"experimental", "candidate", "review-locked"}
  OBVIOUS
<1>2. NativePublishable(TRUE, g) \in BOOLEAN
  BY DEF NativePublishable
<1>3. g \in [artifact : Gates, parity : Gates, promotion : Gates]
  BY GovernanceAssumption
<1>4. Finalized(c, g) = [family |-> Family, contract |-> Contract,
                         native |-> NativePublishable(TRUE, g),
                         artifact |-> g.artifact, parity |-> g.parity,
                         promotion |-> g.promotion, state |-> state]
  BY DEF Finalized
<1> HIDE DEF state
<1>5. Family \in Families /\ Contract \in Contracts
  BY FirstFamily, PublishedAssumption DEF Family
<1>6. Finalized(c, g) \in Statuses
  <2> DEFINE native == NativePublishable(TRUE, g)
  <2>1. native \in BOOLEAN
    BY <1>2
  <2> HIDE DEF native
  <2>2. [family |-> Family, contract |-> Contract, native |-> native,
         artifact |-> g.artifact, parity |-> g.parity,
         promotion |-> g.promotion, state |-> state] \in Statuses
    BY <1>1, <1>3, <1>5, <2>1 DEF Statuses
  <2> QED
    BY <1>4, <2>2 DEF native
<1>7. GreenRecord(Finalized(c, g))
  BY <1>4 DEF GreenRecord, NativePublishable
<1> QED
  BY <1>6, <1>7

\* Every step of the tree is one of the governed release, or happens beside it;
\* and the bundles that the scripts move stay bundles.
LEMMA TreeStep ==
  ASSUME Types, NativeInv, TreeInv, [TreeNext]_treeVars
  PROVE  ([Next]_vars \/ Aside) /\ TreeInv'
<1> DEFINE r == script.run
<1>0. /\ \A k \in Runs : Good(status[k]) /\ config[k] \in Configs
      /\ status = [k \in Runs |-> status[k]] /\ config = [k \in Runs |-> config[k]]
  BY DEF Types, NativeInv, Good
\* Steps that leave the scripts and the bundles alone.
<1>1. ASSUME UNCHANGED <<script, work, published>> PROVE TreeInv'
  BY <1>1 DEF TreeInv, Hidden
<1>2. ASSUME script' = Off, UNCHANGED work PROVE TreeInv'
  BY <1>2 DEF TreeInv, Off, ScriptsOf, Tasks, ScriptSteps
\* Steps that lead on to one which asks nothing of the bundles.
<1>3. ASSUME NEW step \in ScriptSteps \ {"clear", "sync"}, Go(step), UNCHANGED work,
             step \in {"build", "scaffold", "copy", "release"} => r \in Runs
      PROVE  TreeInv'
  <2>1. script' = [script EXCEPT !.step = step]
    BY <1>3 DEF Go
  <2>2. script' \in ScriptsOf /\ script'.step = step /\ script'.run = script.run
        /\ script'.task = script.task
    BY <1>3, <2>1 DEF TreeInv, ScriptsOf
  <2> QED
    BY <1>3, <2>2 DEF TreeInv
<1>4. CASE UNCHANGED treeVars
  BY <1>1, <1>4 DEF treeVars, dataset
<1>5. CASE ReleaseWrites
  <2>1. Next
    BY <1>5 DEF ReleaseWrites, Next
  <2> QED
    BY <1>1, <1>5, <2>1 DEF ReleaseWrites, dataset
<1>6. CASE CloseDecided
  BY <1>1, <1>6 DEF CloseDecided, Next
<1>7. CASE CutOff
  <2>1. TreeInv'
    BY <1>2, <1>7 DEF CutOff, Stop, dataset
  <2>2. [Next]_vars
    BY <1>7 DEF CutOff, Next
  <2> QED
    BY <2>1, <2>2
<1>8. ASSUME NEW call \in Calls, Start(call) PROVE (Aside \/ [Next]_vars) /\ TreeInv'
  <2>1. Aside
    BY <1>0, <1>8 DEF Start, InStep, Aside, files, Types
  <2>2. /\ script' \in ScriptsOf
        /\ script'.step \notin {"clear", "sync"}
        /\ script'.step \in {"build", "scaffold", "copy", "release"}
             \/ script'.task = "refresh" => script'.run \in Runs
    BY <1>8 DEF Start, Calls, ScriptsOf, Tasks, ScriptSteps
  <2>3. UNCHANGED work
    BY <1>8 DEF Start, dataset
  <2> QED
    BY <2>1, <2>2, <2>3 DEF TreeInv
<1>17. CASE Remove
  <2>1. r \in Runs /\ At("idle") /\ script.step = "build"
    BY <1>17 DEF Remove, InStep, TreeInv
  <2>2. Aside
    BY <1>0, <1>17, <2>1 DEF Remove, Aside, Types, vars, files
  <2>3. work' = [work EXCEPT ![r] = None] /\ script' = script
    BY <1>17 DEF Remove
  <2>4. \A k \in Runs : work'[k] # None => Bundle(work[k]) /\ work'[k] = work[k]
    BY <2>1, <2>3 DEF TreeInv
  <2> QED
    BY <2>1, <2>2, <2>3, <2>4 DEF TreeInv, Bundle
<1>9. CASE Build
  <2>1. r \in Runs /\ At("idle")
    BY <1>9 DEF Build, InStep, TreeInv
  <2>2. CASE Stop /\ UNCHANGED <<config, status, work>>
    BY <1>0, <1>2, <1>9, <2>1, <2>2 DEF Build, Stop, Aside, Types
  <2>3. ASSUME NEW c \in Configs, Hidden(r), Go("scaffold"), UNCHANGED <<config, status>>,
               work' = [work EXCEPT ![r] =
                 [config |-> c, build |-> commands.finalized, status |-> None]]
        PROVE  Aside /\ TreeInv'
    <3>1. Aside
      BY <1>0, <1>9, <2>1, <2>3 DEF Build, Aside, Types
    <3>2. \A k \in Runs : work'[k] # None => Bundle(work'[k])
      BY <2>1, <2>3 DEF TreeInv, Bundle, Good
    <3>3. work' = [k \in Runs |-> work'[k]]
      BY <2>3 DEF TreeInv
    <3>4. script' \in ScriptsOf /\ script'.step = "scaffold" /\ script'.run = r
      BY <2>3 DEF Go, TreeInv, ScriptsOf, ScriptSteps
    <3> QED
      BY <2>1, <3>1, <3>2, <3>3, <3>4 DEF TreeInv
  <2>4. ASSUME NEW c \in Configs, Go("scaffold"), UNCHANGED work,
               config' = [config EXCEPT ![r] = c], status' = [status EXCEPT ![r] = None]
        PROVE  Aside /\ TreeInv'
    <3>1. Aside
      BY <1>0, <1>9, <2>1, <2>4 DEF Build, Aside, Types, Good
    <3> QED
      BY <1>3, <2>1, <2>4, <3>1 DEF ScriptSteps
  <2> QED
    BY <1>9, <2>2, <2>3, <2>4 DEF Build
<1>10. CASE Scaffold
  <2>1. r \in Runs /\ At("idle")
    BY <1>10 DEF Scaffold, InStep, TreeInv
  <2>2. CASE Stop /\ UNCHANGED <<status, work>>
    BY <1>0, <1>2, <1>10, <2>1, <2>2 DEF Scaffold, Stop, Aside, Types
  <2>3. ASSUME NEW g \in Outcomes, HasWork(r), UNCHANGED status, Hidden(r),
               work' = [work EXCEPT ![r].status = Finalized(WorkConfig(r), g)],
               Go("clear") \/ Go("sync")
        PROVE  Aside /\ TreeInv'
    <3>1. Aside
      BY <1>0, <1>10, <2>1, <2>3 DEF Scaffold, Aside, Types
    <3>2. Bundle(work[r])
      BY <2>1, <2>3 DEF HasWork, TreeInv
    <3>3. Good(Finalized(WorkConfig(r), g))
      BY FinalizedIsGood DEF Good
    <3>4. Bundle(work'[r])
      <4> DEFINE s == Finalized(WorkConfig(r), g)
                 w == work[r]
      <4>1. work'[r] = [w EXCEPT !.status = s]
        BY <2>1, <2>3 DEF TreeInv
      <4> HIDE DEF s, w
      <4>2. Bundle(w) /\ Good(s)
        BY <3>2, <3>3 DEF s, w
      <4>3. [w EXCEPT !.status = s] = [config |-> w.config, build |-> w.build, status |-> s]
        BY <4>2 DEF Bundle
      <4> QED
        BY <4>1, <4>2, <4>3 DEF Bundle
    <3>5. \A k \in Runs : work'[k] # None => Bundle(work'[k])
      BY <2>1, <2>3, <3>4 DEF TreeInv
    <3>6. work' = [k \in Runs |-> work'[k]]
      BY <2>3 DEF TreeInv
    <3>7. script' \in ScriptsOf /\ script'.run = r
      BY <2>3 DEF Go, TreeInv, ScriptsOf, ScriptSteps
    <3> QED
      BY <2>1, <3>1, <3>4, <3>5, <3>6, <3>7 DEF TreeInv
  <2>4. ASSUME NEW g \in Outcomes, UNCHANGED work, ~Hidden(r),
               status' = [status EXCEPT ![r] = Finalized(WorkConfig(r), g)],
               Go("clear") \/ Stop
        PROVE  Aside /\ TreeInv'
    <3>1. Aside
      BY <1>0, <1>10, <2>1, <2>4, FinalizedIsGood DEF Scaffold, Aside, Types, Good
    <3>2. CASE Stop
      BY <1>2, <2>4, <3>1, <3>2 DEF Stop
    <3>3. CASE Go("clear")
      <4>1. script' \in ScriptsOf /\ script'.run = r /\ script'.step = "clear"
        BY <3>3 DEF Go, TreeInv, ScriptsOf, ScriptSteps
      <4>2. ~Hidden(script.run)'
        BY <1>10, <2>4, <4>1 DEF Scaffold, Hidden
      <4> QED
        BY <2>1, <2>4, <3>1, <4>1, <4>2 DEF TreeInv
    <3> QED
      BY <2>4, <3>2, <3>3
  <2> QED
    BY <1>10, <2>2, <2>3, <2>4 DEF Scaffold
<1>11. CASE Clear
  <2>1. r \in Runs /\ At("idle")
    BY <1>11 DEF Clear, InStep, TreeInv
  <2>2. CASE UNCHANGED <<config, status, dataset>> /\ (Stop \/ Go("copy"))
    <3>1. Aside
      BY <1>0, <1>11, <2>1, <2>2 DEF Clear, Aside, Types
    <3> QED
      BY <1>2, <1>3, <2>1, <2>2, <3>1 DEF Stop, dataset, ScriptSteps
  <2>3. ASSUME Hidden(r), Go("copy"), config' = [config EXCEPT ![r] = work[r].config],
               status' = [status EXCEPT ![r] = work[r].status],
               work' = [work EXCEPT ![r] = None]
        PROVE  Aside /\ TreeInv'
    <3>1. Bundle(work[r])
      BY <1>11, <2>3 DEF Clear, InStep, TreeInv
    <3>2. Aside
      BY <1>0, <1>11, <2>1, <2>3, <3>1 DEF Clear, Aside, Types, Bundle
    <3>3. \A k \in Runs : work'[k] # None => Bundle(work'[k])
      BY <2>3 DEF TreeInv
    <3>4. work' = [k \in Runs |-> work'[k]]
      BY <2>3 DEF TreeInv
    <3>5. script' \in ScriptsOf /\ script'.run = r /\ script'.step = "copy"
      BY <2>3 DEF Go, TreeInv, ScriptsOf, ScriptSteps
    <3> QED
      BY <2>1, <3>2, <3>3, <3>4, <3>5 DEF TreeInv
  <2> QED
    BY <1>11, <2>2, <2>3 DEF Clear
<1>12. CASE Copy
  <2>1. r \in Runs /\ UNCHANGED vars
    BY <1>12 DEF Copy, InStep, TreeInv, vars, files
  <2>2. work' = [work EXCEPT ![r] =
          [config |-> config[r], build |-> build[r], status |-> status[r]]]
    BY <1>12 DEF Copy
  <2>3. \A k \in Runs : work'[k] # None => Bundle(work'[k])
    BY <1>0, <2>1, <2>2 DEF TreeInv, Bundle
  <2>4. work' = [k \in Runs |-> work'[k]]
    BY <2>2 DEF TreeInv
  <2>5. script' \in ScriptsOf /\ script'.run = r /\ script'.step = "index"
    BY <1>12 DEF Copy, Go, TreeInv, ScriptsOf, ScriptSteps
  <2> QED
    BY <2>1, <2>3, <2>4, <2>5 DEF TreeInv
<1>13. CASE SyncGovernance
  <2>1. r \in Runs /\ At("idle") /\ Bundle(work[r])
    BY <1>13 DEF SyncGovernance, InStep, TreeInv
  <2>2. Aside
    BY <1>0, <1>13, <2>1 DEF SyncGovernance, Aside, Types, Bundle
  <2> QED
    BY <1>3, <1>13, <2>2 DEF SyncGovernance, dataset, ScriptSteps
<1>14. CASE RefreshIndex
  BY <1>2, <1>3, <1>14 DEF RefreshIndex, Stop, TreeInv, ScriptSteps
<1>15. CASE ReleaseRefreshed
  <2>1. r \in Runs /\ At("idle") /\ UNCHANGED <<files, health, work>>
    BY <1>15 DEF ReleaseRefreshed, InStep, TreeInv, dataset
  <2>2. TreeInv'
    BY <1>2, <1>3, <1>15, <2>1 DEF ReleaseRefreshed, Stop, ScriptSteps
  <2>3. UNCHANGED <<job, commands>> \/ Release(r, Family)
    BY <1>15, <2>1 DEF ReleaseRefreshed, Release
  <2>4. [Next]_vars
    BY <2>1, <2>3, FirstFamily DEF Next, Command, vars, files, Family
  <2> QED
    BY <2>2, <2>4
<1>16. CASE Audit \/ SyncMetadata \/ SyncReadmes \/ RefreshAgain \/ CheckProfile
            \/ CheckAuthority
  <2>1. UNCHANGED <<vars, work>>
    BY <1>16 DEF Audit, SyncMetadata, SyncReadmes, RefreshAgain, CheckProfile,
                 CheckAuthority, dataset
  <2>2. Stop \/ \E step \in {"metadata", "readmes", "reindex", "profile", "authority"} : Go(step)
    BY <1>16 DEF Audit, SyncMetadata, SyncReadmes, RefreshAgain, CheckProfile,
                 CheckAuthority
  <2> QED
    BY <1>2, <1>3, <2>1, <2>2 DEF Stop, ScriptSteps
<1> QED
  BY <1>4, <1>5, <1>6, <1>7, <1>8, <1>9, <1>10, <1>11, <1>12, <1>13, <1>14, <1>15, <1>16,
     <1>17
     DEF TreeNext, Scripts

\* What is said of a release in progress, or of the files it writes, is not
\* about configurations and statuses while there is none.
LEMMA AsideKeeps ==
  /\ Types /\ Aside => Types'
  /\ Types /\ NativeInv /\ Aside => NativeInv'
  /\ Aside => CompatInv'
  /\ FilesInv /\ Aside => FilesInv'
  /\ HistoryInv /\ Aside => HistoryInv'
<1>1. Types /\ Aside => Types'
  BY DEF Types, Aside, Good, At
<1>2. Types /\ NativeInv /\ Aside => NativeInv'
  BY NoneAssumption DEF Types, NativeInv, Aside, Good
<1>3. Aside => CompatInv'
  BY DEF Aside, CompatInv, At, Forking
<1>4. FilesInv /\ Aside => FilesInv'
  <2> SUFFICES ASSUME FilesInv, Aside PROVE FilesInv'
    OBVIOUS
  <2>1. /\ registry' = registry /\ current' = current /\ history' = history
        /\ job' = job /\ health' = health /\ job.step = "idle"
    BY DEF Aside, At
  <2>2. Progress'
    BY <2>1, SameRegistry DEF FilesInv, Progress, At
  <2>3. \A f \in Families : Published(f)' /\ health'[f] # "torn" => Agree(f)'
    BY <2>1, SameRegistry DEF FilesInv, Published, Updating, Agree, At
  <2> QED
    BY <2>2, <2>3 DEF FilesInv
<1>5. HistoryInv /\ Aside => HistoryInv'
  <2> SUFFICES ASSUME HistoryInv, Aside PROVE HistoryInv'
    OBVIOUS
  <2>1. /\ current' = current /\ history' = history
        /\ job' = job /\ health' = health /\ job.step = "idle"
    BY DEF Aside, At
  <2>2. \A f \in Families : Told(f) => Told(f)'
    BY <2>1 DEF Told
  <2> QED
    BY <2>1, <2>2 DEF HistoryInv, Updating, At
<1> QED
  BY <1>1, <1>2, <1>3, <1>4, <1>5

\* The committed tree, with the flagship released, is in order.
LEMMA TreeStarts ==
  ASSUME TreeInit
  PROVE  Types /\ NativeInv /\ TreeInv /\ CompatInv /\ FilesInv /\ HistoryInv
<1> DEFINE e == [run |-> Flagship, status |-> "published"]
           m == [run |-> Flagship, contract |-> Contract, native |-> TRUE,
                 artifact |-> "green", parity |-> "green", promotion |-> "green"]
           d == [family |-> 1, run |-> Flagship]
<1>1. /\ Flagship \in Runs /\ Contract \in Contracts /\ Surface \in Configs /\ 1 \in Families
      /\ Flagship # None
  BY PublishedAssumption, GovernanceAssumption, FirstFamily
<1>2. /\ Committed \in Statuses /\ GreenRecord(Committed)
      /\ m \in Releases /\ GreenRecord(m) /\ m.run = Flagship /\ m # None
      /\ e \in Entries /\ e.status = "published" /\ e = [run |-> Flagship, status |-> "published"]
      /\ d \in [family : Families, run : Runs \cup {None}] /\ d.family = 1 /\ d.run = Flagship
  <2>1. Committed \in Statuses /\ GreenRecord(Committed)
    BY <1>1 DEF Committed, Statuses, Gates, GreenRecord, Family
  <2>2. m \in Releases /\ GreenRecord(m) /\ m.run = Flagship
    BY <1>1 DEF Releases, Gates, GreenRecord
  <2>3. m # None
    BY <2>2, NoneAssumption
  <2>4. e \in Entries /\ e.status = "published" /\ e = [run |-> Flagship, status |-> "published"]
    BY <1>1 DEF Entries
  <2>5. d \in [family : Families, run : Runs \cup {None}] /\ d.family = 1 /\ d.run = Flagship
    BY <1>1
  <2> QED
    BY <2>1, <2>2, <2>3, <2>4, <2>5
<1>3. /\ job.step = "idle" /\ job \in Jobs /\ script = Off
      /\ current = [f \in Families |-> IF f = 1 THEN m ELSE None]
      /\ history = [f \in Families |-> IF f = 1 THEN <<e>> ELSE None]
      /\ registry = <<d>> /\ health = [f \in Families |-> "whole"]
      /\ status = [r \in Runs |-> IF r = Flagship THEN Committed ELSE None]
      /\ work = [r \in Runs |-> None]
  BY IdleIsJob DEF TreeInit, Family
<1> HIDE DEF e, m, d
<1>4. <<e>> \in Seq(Entries) /\ Len(<<e>>) = 1 /\ <<e>>[1] = e /\ DOMAIN <<e>> = {1}
  BY <1>2
<1>5. <<d>> \in Seq([family : Families, run : Runs \cup {None}])
      /\ DOMAIN registry = {1} /\ registry[1] = d
  BY <1>2, <1>3
<1>6. config \in [Runs -> Configs]
  BY <1>1 DEF TreeInit
<1>7. Types
  BY <1>2, <1>3, <1>4, <1>5, <1>6 DEF Types, At
<1>8. NativeInv
  BY <1>2, <1>3, NoneAssumption DEF NativeInv
<1>9. TreeInv
  BY <1>3 DEF TreeInv, Off, ScriptsOf, Tasks, ScriptSteps
<1>10. CompatInv
  BY <1>3 DEF CompatInv, At, Forking
<1>11. FilesInv
  <2>1. EntriesOf(1) = {1}
    BY <1>2, <1>5 DEF EntriesOf
  <2>2. FirstOf(1) = 1
    BY <2>1 DEF FirstOf
  <2>3. Agree(1)
    BY <1>1, <1>2, <1>3, <1>4, <1>5, <2>2 DEF Agree, EndsWith, e
  <2>4. \A f \in Families : f # 1 => current[f] = None
    BY <1>3
  <2> QED
    BY <1>3, <2>1, <2>3, <2>4, NoneAssumption DEF FilesInv, Progress, Published, At
<1>12. HistoryInv
  <2>1. Chain(<<e>>, Flagship)
    BY <1>1, <1>2, <1>4 DEF Chain, Alternates, EndsWith
  <2>2. Told(1)
    BY <1>1, <1>2, <1>3, <2>1 DEF Told
  <2>3. \A f \in Families : f # 1 => current[f] = None /\ history[f] = None
    BY <1>3
  <2> QED
    BY <1>1, <1>2, <1>3, <2>2, <2>3, NoneAssumption DEF HistoryInv, Told, At
<1> QED
  BY <1>7, <1>8, <1>9, <1>10, <1>11, <1>12

\* Whatever the scripts rebuild, copy and release, the files are well-formed and
\* native arms have green gates.
LEMMA TreeHolds == TreeSpec => [](Types /\ NativeInv /\ TreeInv)
<1>1. TreeInit => Types /\ NativeInv /\ TreeInv
  BY TreeStarts
<1>2. Types /\ NativeInv /\ TreeInv /\ [TreeNext]_treeVars => (Types /\ NativeInv /\ TreeInv)'
  BY TreeStep, TypesInductive, NativeInductive, AsideKeeps
<1> QED
  BY <1>1, <1>2, PTL DEF TreeSpec

\* No release shows a native arm whose gates are not all green, however often
\* scripts and commands finalized, rebuilt, copied, synced or released its run.
THEOREM TreeNativeArmsAreGreen == TreeSpec => []NativeArmHasGreenGates
<1>1. Types /\ NativeInv => NativeArmHasGreenGates
  BY DEF Types, NativeInv, GreenRecord, NativeArmHasGreenGates
<1> QED
  BY <1>1, TreeHolds, PTL

\* Registry, CURRENT and HISTORY of a family agree once its update is complete,
\* also when the release was one of a refresh cycle that was cut off anywhere.
THEOREM TreeFilesAgree == TreeSpec => []ReleaseFilesAgree
<1>1. TreeInit => FilesInv
  BY TreeStarts
<1>2. FilesInv => ReleaseFilesAgree
  BY DEF FilesInv, ReleaseFilesAgree, Agree, EndsWith
<1>3. Types /\ NativeInv /\ TreeInv /\ Types' /\ FilesInv /\ [TreeNext]_treeVars => FilesInv'
  BY TreeStep, FilesInductive, AsideKeeps
<1> QED
  BY <1>1, <1>2, <1>3, TreeHolds, PTL DEF TreeSpec

\* A history that no cut-off update touched tells one release after another,
\* whether commands or scripts made them.
THEOREM TreeHistoriesAlternate == TreeSpec => []HistoryAlternates
<1>1. TreeInit => FilesInv /\ HistoryInv
  BY TreeStarts
<1>2. Types /\ HistoryInv => HistoryAlternates
  <2> SUFFICES ASSUME Types, HistoryInv, NEW f \in Families, history[f] # None,
                      health[f] = "whole", ~Updating(f)
               PROVE  Alternates(history[f])
    BY DEF HistoryAlternates, Alternates
  <2> QED
    BY DEF HistoryInv, Told, Chain
<1>3. Types /\ NativeInv /\ TreeInv /\ Types' /\ FilesInv /\ HistoryInv /\ [TreeNext]_treeVars
        => FilesInv' /\ HistoryInv'
  BY TreeStep, FilesInductive, HistoryInductive, AsideKeeps
<1> QED
  BY <1>1, <1>2, <1>3, TreeHolds, PTL DEF TreeSpec

\* A release that names the family its run was finalized for never replaces a
\* current run by one of another task surface as it is at that moment, although
\* scripts may rebuild bundles at any other.
THEOREM TreeReplacementIsCompatible == TreeSpec => CompatibleReplacement
<1>1. TreeInit => CompatInv
  BY TreeStarts
<1>2. Types /\ NativeInv /\ TreeInv /\ CompatInv /\ [TreeNext]_treeVars => CompatInv'
  BY TreeStep, CompatInductive, AsideKeeps
<1>3. ASSUME Types, NativeInv, TreeInv, CompatInv, [TreeNext]_treeVars
      PROVE  [\A f \in Families :
                Published(f) /\ current'[f].run \in Runs \ {current[f].run} /\ job.source = f
                  => config[current'[f].run] = config[current[f].run]]_vars
  <2>1. CASE [Next]_vars
    BY <1>3, <2>1, ReplacesCompatibly
  <2>2. CASE Aside
    BY <2>2 DEF Aside
  <2> QED
    BY <1>3, <2>1, <2>2, TreeStep
<1> QED
  BY <1>1, <1>2, <1>3, TreeHolds, PTL DEF TreeSpec, CompatibleReplacement
-----------------------------------------------------------------------------
(***************************************************************************)
(* What finalize_community_dataset and the refresh cycle leave behind.     *)
(***************************************************************************)
\* The family of the flagship is never without a release: a new family is made
\* beside it.
HeldInv == /\ Published(Family)
           /\ job.step \in Forking => job.target # Family

\* Whatever is written, CURRENT of the flagship's family names a run.
LEMMA HeldInductive == Types /\ HeldInv /\ ([Next]_vars \/ Aside) => HeldInv'
<1> SUFFICES ASSUME Types, HeldInv, [Next]_vars \/ Aside PROVE HeldInv'
  OBVIOUS
<1> DEFINE Kept == current'[Family] # None /\ current'[Family].run # None
<1>0. /\ current[Family] \in Releases /\ current[Family].run # None
      /\ Family \in Families /\ job \in Jobs
  BY FirstFamily DEF HeldInv, Published, Types, Family
<1>1. CASE Aside \/ UNCHANGED vars
  BY <1>1 DEF Aside, vars, HeldInv, Published
<1>2. CASE Command
  <2>1. ASSUME NEW r \in Runs, NEW f \in Families, Release(r, f)
        PROVE  job'.step \in Forking => job'.target # Family
    <3>1. CASE SameFamily(r, f) /\ job'.step = "current"
      BY <3>1 DEF Forking
    <3>2. CASE job' = [Idle EXCEPT !.step = "enter", !.run = r, !.source = f, !.target = f + 1]
      <4>1. f + 1 # 1
        BY DEF Families
      <4> QED
        BY <3>2, <4>1 DEF Idle, Family
    <3> QED
      BY <2>1, <3>1, <3>2 DEF Release, Idle
  <2>2. ASSUME NEW r, NEW f, NEW c, NEW path, NEW inSummary, NEW sync, NEW g,
               Finalize(r, f, c, path, inSummary, g, sync)
        PROVE  job'.step \notin Forking
    BY <2>2 DEF Finalize, Idle, Forking
  <2>3. job'.step \in Forking => job'.target # Family
    BY <1>2, <2>1, <2>2 DEF Command
  <2> QED
    BY <1>2, <2>3, CommandFrame DEF HeldInv, Published
<1>3. CASE Sync
  <2>1. current'[Family] # None /\ current'[Family].run = current[Family].run
    <3>1. CASE job.target = Family
      <4> DEFINE s == status[job.run]
                 x == [current[Family] EXCEPT !.native = s.native,
                      !.artifact = s.artifact, !.parity = s.parity,
                      !.promotion = s.promotion]
      <4>1. s \in Statuses
        BY <1>3 DEF Types, Sync, At
      <4>2. x \in Releases /\ x.run = current[Family].run
        <5> HIDE DEF s
        <5> QED
          BY <1>0, <4>1 DEF Releases, Statuses
      <4>3. current'[Family] = x
        BY <1>0, <1>3, <3>1 DEF Sync, Types
      <4> QED
        BY <4>2, <4>3, NoneAssumption
    <3>2. CASE job.target # Family
      BY <1>0, <1>3, <3>2 DEF Sync, Types, HeldInv, Published
    <3> QED
      BY <3>1, <3>2
  <2>2. job'.step \notin Forking
    BY <1>3 DEF Sync, Idle, Forking
  <2> QED
    BY <1>0, <2>1, <2>2 DEF HeldInv, Published
<1>4. CASE Crash \/ Close
  BY <1>4 DEF Crash, Close, files, Idle, Forking, HeldInv, Published
<1>5. CASE EnterFamily \/ OpenHistory \/ DescribeFamily \/ MoveRun
  BY <1>0, <1>5 DEF EnterFamily, OpenHistory, DescribeFamily, MoveRun, Goto, At, Jobs,
                    Forking, HeldInv, Published
<1>6. CASE ForkCurrent
  <2>1. job.target # Family
    BY <1>6 DEF ForkCurrent, At, HeldInv, Forking
  <2> QED
    BY <1>0, <1>6, <2>1 DEF ForkCurrent, Goto, Jobs, HeldInv, Published, Types
<1>7. CASE WriteCurrent
  <2>1. job.run \in Runs
    BY <1>7 DEF WriteCurrent, At, Types
  <2>2. ReleaseOf(job.run, status[job.run]) # None
        /\ ReleaseOf(job.run, status[job.run]).run = job.run
    <3>1. status[job.run] \in Statuses
      BY <1>7 DEF WriteCurrent, At, Types
    <3>2. ReleaseOf(job.run, status[job.run]) \in Releases
      BY <2>1, <3>1 DEF ReleaseOf, Releases, Statuses
    <3> QED
      BY <3>2, NoneAssumption DEF ReleaseOf
  <2>3. current'[Family] # None /\ current'[Family].run # None
    BY <1>0, <1>7, <2>1, <2>2, GovernanceAssumption, NoneAssumption DEF WriteCurrent, Types
  <2>4. job'.step \notin Forking
    BY <1>0, <1>7 DEF WriteCurrent, Forking, Jobs
  <2> QED
    BY <2>3, <2>4 DEF HeldInv, Published
<1>8. CASE DeprecatePrevious \/ RecordPublished \/ Register
  BY <1>0, <1>8 DEF DeprecatePrevious, RecordPublished, Register, Goto, Jobs, Forking,
                    HeldInv, Published
<1> QED
  BY <1>1, <1>2, <1>3, <1>4, <1>5, <1>6, <1>7, <1>8 DEF Next

\* The runs that registry, CURRENT and HISTORY name.
LEMMA GovernedIs ==
  ASSUME NEW q
  PROVE  q \in Governed <=>
           /\ q # None
           /\ \/ \E i \in DOMAIN registry : q = registry[i].run
              \/ \E f \in Families : current[f] # None /\ q \in NamedIn(f)
              \/ q \in Listed
  BY DEF Governed

\* And those that they will name.
LEMMA GovernedWillBe ==
  ASSUME NEW q \in Governed'
  PROVE  /\ q # None
         /\ \/ \E i \in DOMAIN registry' : q = registry'[i].run
            \/ \E f \in Families : current'[f] # None /\ q \in NamedIn(f)'
            \/ q \in Listed
  BY DEF Governed

\* What CURRENT and HISTORY of a family name.
LEMMA NamedIs ==
  ASSUME NEW f, NEW q
  PROVE  q \in NamedIn(f) <=>
           \/ q = current[f].run
           \/ history[f] # None /\ \E i \in DOMAIN history[f] : q = history[f][i].run
  BY DEF NamedIn

\* And will name.
LEMMA NamedWillBe ==
  ASSUME NEW f, NEW q \in NamedIn(f)'
  PROVE  \/ q = current'[f].run
         \/ history'[f] # None /\ \E i \in DOMAIN history'[f] : q = history'[f][i].run
  BY DEF NamedIn

\* They change only with these files.
LEMMA SameGoverned ==
  ASSUME UNCHANGED <<registry, current, history>>
  PROVE  Governed' = Governed /\ CurrentRun' = CurrentRun
  BY DEF Governed, NamedIn, CurrentRun

\* The runs that CURRENT and the registry of a family name are governed.
LEMMA CurrentIsGoverned ==
  ASSUME Types, HeldInv
  PROVE  /\ CurrentRun \in Governed /\ CurrentRun \in Runs
         /\ Governed \subseteq Runs
         /\ \A f \in Families : current[f] # None => current[f].run \in Governed \cup {None}
<1>1. Family \in Families /\ current[Family] # None /\ CurrentRun # None
  BY FirstFamily DEF HeldInv, Published, CurrentRun, Family
<1>2. \A f \in Families : current[f] # None => current[f].run \in Governed \cup {None}
  BY GovernedIs, NamedIs
<1>3. Governed \subseteq Runs
  <2> SUFFICES ASSUME NEW q \in Governed PROVE q \in Runs
    OBVIOUS
  <2>1. ASSUME NEW i \in DOMAIN registry PROVE registry[i].run \in Runs \cup {None}
    <3>1. i \in 1..Len(registry)
      BY <2>1 DEF Types
    <3>2. registry[i] \in [family : Families, run : Runs \cup {None}]
      BY <3>1, ElementOfSeq DEF Types
    <3> QED
      BY <3>2
  <2>2. ASSUME NEW f \in Families, current[f] # None, NEW p \in NamedIn(f)
        PROVE  p \in Runs \cup {None}
    <3>1. current[f].run \in Runs \cup {None}
      BY <2>2 DEF Types, Releases
    <3>2. ASSUME history[f] # None, NEW i \in DOMAIN history[f] PROVE history[f][i].run \in Runs
      <4>1. history[f] \in Seq(Entries) /\ i \in 1..Len(history[f])
        BY <3>2 DEF Types
      <4>2. history[f][i] \in Entries
        BY <4>1, ElementOfSeq
      <4> QED
        BY <4>2 DEF Entries
    <3> QED
      BY <2>2, <3>1, <3>2, NamedIs
  <2> QED
    BY <2>1, <2>2, GovernedIs, PublishedAssumption
<1> QED
  BY <1>1, <1>2, <1>3 DEF CurrentRun

Writing == {"current", "deprecate", "publish", "register", "close"}

\* The writes of a publication add the run it publishes, and the one that it
\* deprecates, to the governed runs.
LEMMA WritesGovern ==
  ASSUME Types, WriteCurrent \/ DeprecatePrevious \/ RecordPublished \/ Register \/ Close
  PROVE  Governed' \subseteq Governed \cup {job.run, job.prev}
<1> SUFFICES ASSUME NEW q, q \in Governed' PROVE q \in Governed \cup {job.run, job.prev}
  OBVIOUS
<1>0. job \in Jobs /\ job.target \in Families
  BY DEF Types, Jobs
<1>1. ASSUME \A i \in DOMAIN registry' : registry'[i].run \in Governed \cup {job.run, None},
             \A f \in Families : current'[f] # None =>
               current[f] # None
               /\ \A p \in NamedIn(f)' : p \in NamedIn(f) \cup {job.run, job.prev}
      PROVE  q \in Governed \cup {job.run, job.prev}
  BY <1>1, GovernedWillBe, GovernedIs
<1>a. UNCHANGED registry => \A i \in DOMAIN registry' : registry'[i].run \in Governed \cup {job.run, None}
  BY GovernedIs
<1>2. CASE WriteCurrent
  <2>1. UNCHANGED <<registry, history>> /\ current[job.target] # None
        /\ current' = [current EXCEPT ![job.target] = ReleaseOf(job.run, status[job.run])]
    BY <1>2 DEF WriteCurrent
  <2>2. ASSUME NEW f \in Families, current'[f] # None
        PROVE  current[f] # None /\ current'[f].run \in {job.run, current[f].run}
    BY <2>1, <2>2 DEF Types, ReleaseOf
  <2>3. ASSUME NEW f \in Families, current'[f] # None, NEW p \in NamedIn(f)'
        PROVE  p \in NamedIn(f) \cup {job.run}
    BY <2>1, <2>2, <2>3, NamedIs, NamedWillBe
  <2> QED
    BY <1>1, <1>a, <2>1, <2>2, <2>3
<1>3. ASSUME NEW p \in Runs, NEW x, UNCHANGED <<registry, current>>, p \in {job.run, job.prev},
             history[job.target] # None,
             history' = [history EXCEPT ![job.target] = Append(@, [run |-> p, status |-> x])]
      PROVE  q \in Governed \cup {job.run, job.prev}
  <2>1. ASSUME NEW f \in Families, current'[f] # None, NEW k \in NamedIn(f)'
        PROVE  k \in NamedIn(f) \cup {p}
    <3>1. CASE f = job.target
      <4> DEFINE e == [run |-> p, status |-> x]
                 h == history[f]
      <4>1. h \in Seq(Entries) /\ history'[f] = Append(h, e) /\ e.run = p /\ h # None
        BY <1>0, <1>3, <3>1 DEF Types
      <4>2. current'[f] = current[f]
        BY <1>3
      <4> HIDE DEF e
      <4>3. ASSUME NEW i \in DOMAIN history'[f]
            PROVE  history'[f][i] = e \/ (i \in DOMAIN h /\ history'[f][i] = h[i])
        BY <4>1, <4>3
      <4>4. k = current[f].run \/ \E i \in DOMAIN history'[f] : k = history'[f][i].run
        BY <2>1, <4>2, NamedWillBe
      <4> QED
        BY <4>1, <4>3, <4>4, NamedIs
    <3>2. CASE f # job.target
      <4>1. history'[f] = history[f] /\ current'[f] = current[f]
        BY <1>3, <3>2 DEF Types
      <4> QED
        BY <2>1, <4>1, NamedIs, NamedWillBe
    <3> QED
      BY <3>1, <3>2
  <2> QED
    BY <1>1, <1>a, <1>3, <2>1
<1>4. CASE DeprecatePrevious
  <2>1. CASE job.prev = None
    <3>1. UNCHANGED <<registry, current, history>>
      BY <1>4, <2>1 DEF DeprecatePrevious
    <3> QED
      BY <3>1, SameGoverned
  <2>2. CASE job.prev # None
    <3>1. job.prev \in Runs
      BY <1>0, <2>2 DEF Jobs
    <3> QED
      BY <1>3, <1>4, <2>2, <3>1 DEF DeprecatePrevious
  <2> QED
    BY <2>1, <2>2
<1>5. CASE RecordPublished
  <2>1. job.run \in Runs
    BY <1>5 DEF RecordPublished, Types, At
  <2> QED
    BY <1>3, <1>5, <2>1 DEF RecordPublished
<1>6. CASE Register
  <2>1. UNCHANGED <<current, history>>
    BY <1>6 DEF Register
  <2>2. ASSUME NEW i \in DOMAIN registry'
        PROVE  i \in DOMAIN registry
               /\ (registry'[i].run = job.run \/ registry'[i] = registry[i])
    <3>1. CASE EntriesOf(job.target) = {}
      BY <1>6, <2>2, <3>1 DEF Register
    <3>2. CASE EntriesOf(job.target) # {}
      <4> DEFINE n == FirstOf(job.target)
      <4>1. registry' = [registry EXCEPT ![n].run = job.run]
        BY <1>6, <3>2 DEF Register
      <4>2. registry[n] \in [family : Families, run : Runs \cup {None}]
        <5>1. n \in DOMAIN registry
          BY <3>2, FirstIsFirst DEF EntriesOf
        <5>2. registry \in Seq([family : Families, run : Runs \cup {None}])
          BY DEF Types
        <5> HIDE DEF n
        <5> QED
          BY <5>1, <5>2, ElementOfSeq, LenProperties
      <4> HIDE DEF n
      <4>3. registry \in Seq([family : Families, run : Runs \cup {None}])
        BY DEF Types
      <4> QED
        BY <2>2, <4>1, <4>2, <4>3
    <3> QED
      BY <3>1, <3>2
  <2>3. \A i \in DOMAIN registry' : registry'[i].run \in Governed \cup {job.run, None}
    BY <2>2, GovernedIs
  <2>4. \A f \in Families : NamedIn(f)' = NamedIn(f)
    BY <2>1 DEF NamedIn
  <2> QED
    BY <1>1, <2>1, <2>3, <2>4
<1>7. CASE Close
  BY <1>7, SameGoverned DEF Close
<1> QED
  BY <1>2, <1>4, <1>5, <1>6, <1>7

-----------------------------------------------------------------------------
Refreshing(steps) == script.task = "refresh" /\ script.step \in steps

\* A status that finalize_run wrote for a refresh.
Fresh(s) == /\ s # None /\ s.family = Family
            /\ s.state = "review-locked" => s.artifact = "green" /\ s.promotion = "green"
            /\ {s.artifact, s.parity, s.promotion} = {"green"} => s.native

\* r was released as it is in the family of the flagship.
Released(r) == /\ status[r] # None /\ current[Family] = ReleaseOf(r, status[r])
               /\ status[r].artifact = "green" /\ status[r].promotion = "green"
               /\ status[r].parity = "green" => status[r].native
               /\ registry[FirstOf(Family)].run = r

\* Commands rest while a script runs, but for the release of a refresh.
QuietInv ==
  /\ script.step \notin {"off", "audit"} => At("idle")
  /\ script.step \in {"release", "audit", "authority"} => script.task = "refresh"
  /\ script.step = "sync" => script.task # "refresh"

\* A run that is not published has no metadata.
MetaInv == /\ meta = [r \in Runs |-> meta[r]] /\ readme = [r \in Runs |-> readme[r]]
           /\ published \subseteq Runs
           /\ \A r \in Runs \ published : meta[r] = None

\* A bundle that was rebuilt has no decision and, once it is copied, no metadata:
\* both come later, or the refresh stops.
RebuiltInv ==
  LET r == script.run IN
  /\ Refreshing({"scaffold"}) /\ ~Hidden(r) => r \notin decided
  /\ Refreshing({"clear"}) => IF Hidden(r) THEN Fresh(work[r].status)
                              ELSE Fresh(status[r]) /\ r \notin decided
  /\ Refreshing({"copy", "index", "release"}) =>
       Fresh(status[r]) /\ r \notin decided /\ meta[r] = None
  /\ Refreshing({"release"}) => Governed \subseteq Indexed

\* The release of a refresh: what it writes is of the run that was refreshed.
ReleasingInv ==
  LET r == script.run IN
  script.step = "audit" /\ ~At("idle") =>
    /\ job.run = r /\ job.target = Family /\ job.step \in Writing
    /\ Fresh(status[r]) /\ status[r].state = "review-locked"
    /\ r \notin decided
    /\ job.prev \in Indexed \cup {r, None}
    /\ ~At("current") => current[Family] = ReleaseOf(r, status[r])

\* What became governed since the index was made is the refreshed run, which has
\* no metadata then; and if it has a decision, it was released as it is.
ReleasedInv ==
  LET r == script.run IN
  /\ Refreshing({"audit", "metadata", "readmes", "reindex"}) =>
       /\ meta[r] = None \/ r \in Indexed
       /\ Governed \subseteq Indexed \cup {r}
  /\ Refreshing({"audit", "metadata", "readmes", "reindex", "profile", "authority"}) =>
       (r \in decided => Released(r))

\* What the synchronisations have written, and what the new index makes of it.
ShownInv ==
  /\ script.step \in {"readmes", "reindex"} =>
       Indexed \subseteq Runs /\ \A q \in Indexed : meta[q] = (q = CurrentRun)
  /\ script.step = "reindex" => \A q \in Indexed : readme[q].table = YesNo(q = CurrentRun)
  /\ script.step \in {"profile", "authority"} => index = IndexNow
  /\ Refreshing({"profile", "authority"}) =>
       \A q \in Indexed : meta[q] # None => ShowsCurrent(q)
  /\ script.step = "authority" => ProfileComplete

RefreshInv == QuietInv /\ MetaInv /\ RebuiltInv /\ ReleasingInv /\ ReleasedInv /\ ShownInv

\* finalize_run, called by a script, writes such a status.
LEMMA FinalizedIsFresh ==
  ASSUME NEW c, NEW g \in Outcomes
  PROVE  Fresh(Finalized(c, g))
<1>1. Finalized(c, g) # None
  BY FinalizedIsGood, NoneAssumption
<1>2. g.artifact # "green" => Finalized(c, g).state = "experimental"
  BY DEF Finalized
<1>3. g.promotion # "green" => Finalized(c, g).state # "review-locked"
  BY DEF Finalized
<1>4. /\ Finalized(c, g).family = Family /\ Finalized(c, g).artifact = g.artifact
      /\ Finalized(c, g).parity = g.parity /\ Finalized(c, g).promotion = g.promotion
      /\ Finalized(c, g).native <=> NativePublishable(TRUE, g)
  BY DEF Finalized
<1> QED
  BY <1>1, <1>2, <1>3, <1>4 DEF Fresh, NativePublishable

\* A step after which no script is in progress leaves nothing to be shown.
LEMMA OffKeeps ==
  ASSUME RefreshInv, script'.step = "off", UNCHANGED <<meta, readme, published>>
  PROVE  RefreshInv'
  BY DEF RefreshInv, QuietInv, MetaInv, RebuiltInv, ReleasingInv, ReleasedInv, ShownInv,
         Refreshing

\* The steps that rebuild and publish the bundle.
LEMMA RebuildingKeeps ==
  ASSUME Types, TreeInv, RefreshInv,
         \/ \E call \in Calls : Start(call)
         \/ Remove \/ Build \/ Scaffold \/ Clear \/ Copy \/ SyncGovernance
  PROVE  RefreshInv'
<1> DEFINE r == script.run
<1> USE DEF QuietInv, MetaInv, RebuiltInv, ReleasingInv, ReleasedInv, ShownInv, Refreshing
<1>0. ASSUME NEW step, Go(step)
      PROVE  script'.step = step /\ script'.run = r /\ script'.task = script.task
  BY <1>0 DEF Go, TreeInv, ScriptsOf
<1>1. ASSUME Stop, UNCHANGED dataset PROVE RefreshInv'
  BY <1>1, OffKeeps DEF Stop, Off, dataset
<1>2. ASSUME NEW call \in Calls, Start(call) PROVE RefreshInv'
  <2>1. /\ script'.step \in {"scaffold", "metadata", "index", "build"}
        /\ script'.task = "refresh" => script'.step = "build"
        /\ At("idle")'
    BY <1>2 DEF Start, InStep, Calls, At
  <2>2. UNCHANGED dataset
    BY <1>2 DEF Start
  <2> QED
    BY <2>1, <2>2 DEF RefreshInv, dataset
<1>8. CASE Remove
  <2>1. At("idle")' /\ script.step = "build"
        /\ UNCHANGED <<published, decided, meta, readme, index, script>>
    BY <1>8 DEF Remove, InStep, At, vars
  <2> QED
    BY <2>1 DEF RefreshInv
<1>3. CASE Build
  <2>0. r \in Runs /\ At("idle")' /\ UNCHANGED <<published, meta, readme, index>>
    BY <1>3 DEF Build, InStep, TreeInv, At
  <2>1. CASE Stop
    BY <2>0, <2>1, OffKeeps DEF Stop, Off
  <2>2. CASE Go("scaffold")
    <3>1. Hidden(r) \/ decided' = decided \ {r}
      BY <1>3, <2>2 DEF Build, Stop, Off, Go, InStep, TreeInv, ScriptsOf
    <3> QED
      BY <1>0, <2>0, <2>2, <3>1 DEF RefreshInv, Hidden
  <2> QED
    BY <1>3, <2>1, <2>2 DEF Build
<1>4. CASE Scaffold
  <2>0. /\ r \in Runs /\ At("idle")' /\ script.step = "scaffold"
        /\ UNCHANGED <<published, meta, readme, index, decided>>
    BY <1>4 DEF Scaffold, InStep, TreeInv, At
  <2>1. CASE Stop
    BY <2>0, <2>1, OffKeeps DEF Stop, Off
  <2>2. CASE Go("sync") /\ script.task = "governance"
    BY <1>0, <2>0, <2>2 DEF RefreshInv
  <2>3. ASSUME NEW g \in Outcomes, Go("clear"),
               IF Hidden(r)
               THEN work' = [work EXCEPT ![r].status = Finalized(WorkConfig(r), g)]
               ELSE status' = [status EXCEPT ![r] = Finalized(WorkConfig(r), g)],
               HasWork(r)
        PROVE  RefreshInv'
    <3>1. CASE Hidden(r)
      <4>1. Bundle(work[r])
        BY <2>0, <2>3, <3>1 DEF HasWork, TreeInv
      <4>2. work'[r].status = Finalized(WorkConfig(r), g)
        <5> DEFINE s == Finalized(WorkConfig(r), g)
                   w == work[r]
        <5>1. work'[r] = [w EXCEPT !.status = s]
          BY <2>0, <2>3, <3>1 DEF TreeInv
        <5> HIDE DEF s, w
        <5>2. Bundle(w)
          BY <4>1 DEF w
        <5> QED
          BY <5>1, <5>2 DEF Bundle, s
      <4>3. Fresh(work'[r].status)
        BY <4>2, FinalizedIsFresh
      <4>4. Fresh(work[script.run].status)'
        BY <1>0, <2>3, <4>3 DEF Fresh, Family
      <4>5. Hidden(script.run)'
        BY <1>0, <2>0, <2>3, <3>1 DEF Hidden
      <4> QED
        BY <1>0, <2>0, <2>3, <4>4, <4>5 DEF RefreshInv
    <3>2. CASE ~Hidden(r)
      <4>1. status'[r] = Finalized(WorkConfig(r), g)
        BY <2>0, <2>3, <3>2 DEF Types
      <4>2. Fresh(status'[r])
        BY <4>1, FinalizedIsFresh
      <4>3. Fresh(status[script.run])'
        BY <1>0, <2>3, <4>2 DEF Fresh, Family
      <4>4. ~Hidden(script.run)'
        BY <1>0, <2>0, <2>3, <3>2 DEF Hidden
      <4> QED
        BY <1>0, <2>0, <2>3, <3>2, <4>3, <4>4 DEF RefreshInv
    <3> QED
      BY <3>1, <3>2
  <2> QED
    BY <1>4, <2>1, <2>2, <2>3 DEF Scaffold
<1>5. CASE Clear
  <2>0. r \in Runs /\ At("idle")' /\ script.step = "clear"
    BY <1>5 DEF Clear, InStep, TreeInv, At
  <2>1. CASE Stop /\ UNCHANGED dataset
    BY <1>1, <2>1
  <2>2. CASE ~Hidden(r) /\ Go("copy") /\ UNCHANGED <<status, dataset>>
    <3>1. meta[r] = None
      BY <2>0, <2>2 DEF Hidden, RefreshInv
    <3>2. Fresh(status[script.run])' <=> Fresh(status[r])
      BY <1>0, <2>2 DEF Fresh, Family
    <3> QED
      BY <1>0, <2>0, <2>2, <3>1, <3>2 DEF RefreshInv, dataset
  <2>3. CASE Hidden(r) /\ Go("copy") /\ ~Stop
    <3>1. /\ status' = [status EXCEPT ![r] = work[r].status]
          /\ published' = published \ {r} /\ decided' = decided \ {r}
          /\ meta' = [meta EXCEPT ![r] = None]
          /\ readme' = [readme EXCEPT ![r] = None]
          /\ UNCHANGED index
      BY <1>5, <2>3 DEF Clear
    <3>2. status'[r] = work[r].status
      BY <2>0, <3>1 DEF Types
    <3>3. Fresh(status[script.run])' <=> Fresh(work[r].status)
      BY <1>0, <2>3, <3>2 DEF Fresh, Family
    <3>4. MetaInv'
      BY <2>0, <3>1 DEF RefreshInv
    <3>5. meta'[r] = None
      BY <2>0, <3>1 DEF RefreshInv
    <3> QED
      BY <1>0, <2>0, <2>3, <3>1, <3>3, <3>4, <3>5 DEF RefreshInv
  <2> QED
    BY <1>0, <1>5, <2>0, <2>1, <2>2, <2>3 DEF Clear, Stop, Off
<1>6. CASE Copy
  <2>0. r \in Runs /\ At("idle")' /\ script.step = "copy" /\ Go("index")
    BY <1>6 DEF Copy, InStep, TreeInv, At
  <2>1. /\ published' = published \cup {r} /\ readme' = [readme EXCEPT ![r] = Plain]
        /\ UNCHANGED <<status, decided, meta, index>>
    BY <1>6 DEF Copy, files
  <2>2. MetaInv'
    BY <2>0, <2>1 DEF RefreshInv
  <2>3. Fresh(status[script.run])' <=> Fresh(status[r])
    BY <1>0, <2>0, <2>1 DEF Fresh, Family
  <2>4. /\ script'.step = "index" /\ script'.run = r /\ script'.task = script.task
    BY <1>0, <2>0
  <2>5. script'.task = "refresh" => Fresh(status[r]) /\ r \notin decided /\ meta[r] = None
    BY <2>0, <2>4 DEF RefreshInv
  <2>6. RebuiltInv'
    BY <2>1, <2>3, <2>4, <2>5
  <2>7. QuietInv' /\ ReleasingInv' /\ ReleasedInv' /\ ShownInv'
    BY <2>0, <2>4
  <2> HIDE DEF QuietInv, MetaInv, RebuiltInv, ReleasingInv, ReleasedInv, ShownInv
  <2> QED
    BY <2>2, <2>6, <2>7 DEF RefreshInv
<1>7. CASE SyncGovernance
  <2>0. At("idle")' /\ script.step = "sync" /\ Go("index") /\ UNCHANGED dataset
    BY <1>7 DEF SyncGovernance, InStep, At
  <2> QED
    BY <1>0, <2>0 DEF RefreshInv, dataset
<1> QED
  BY <1>2, <1>3, <1>4, <1>5, <1>6, <1>7, <1>8

\* The index is what a new one is, as long as nothing it describes is written.
LEMMA SameIndexNow ==
  ASSUME UNCHANGED <<status, current, history, registry, published, build, decided,
                     meta, readme>>
  PROVE  IndexNow' = IndexNow
<1>1. Governed' = Governed /\ CurrentRun' = CurrentRun
  BY SameGoverned
<1>2. \A r : Entry(r)' = Entry(r)
  BY <1>1 DEF Entry, Integrity, Catalog, StateOf
<1> QED
  BY <1>1, <1>2 DEF IndexNow

\* The steps that read what is published, or write what it shows.
LEMMA FinalizingKeeps ==
  ASSUME Types, HeldInv, TreeInv, RefreshInv,
         \/ RefreshIndex \/ ReleaseRefreshed \/ Audit \/ SyncMetadata \/ SyncReadmes
         \/ RefreshAgain \/ CheckProfile \/ CheckAuthority
  PROVE  RefreshInv'
<1> DEFINE r == script.run
<1> USE DEF QuietInv, MetaInv, RebuiltInv, ReleasingInv, ReleasedInv, ShownInv, Refreshing
<1>0. ASSUME NEW step, Go(step)
      PROVE  script'.step = step /\ script'.run = r /\ script'.task = script.task
  BY <1>0 DEF Go, TreeInv, ScriptsOf
<1>1. ASSUME Stop, UNCHANGED <<meta, readme, published>> PROVE RefreshInv'
  BY <1>1, OffKeeps DEF Stop, Off
<1>2. ASSUME UNCHANGED <<status, current, registry>>, script'.run = r
      PROVE  /\ Fresh(status[script.run])' <=> Fresh(status[r])
             /\ Released(script.run)' <=> Released(r)
  BY <1>2, SameRegistry DEF Fresh, Released, ReleaseOf, Family
<1>3. CASE RefreshIndex
  <2>0. At("idle")' /\ script.step = "index"
        /\ UNCHANGED <<vars, published, decided, meta, readme>>
    BY <1>3 DEF RefreshIndex, InStep, At, vars
  <2>1. CASE Go("release") /\ script.task = "refresh" /\ index' = IndexNow
    <3>1. Governed' = Indexed'
      BY <2>0, <2>1, SameGoverned DEF Indexed, IndexNow, vars
    <3>2. Fresh(status[script.run])'
      BY <1>0, <1>2, <2>0, <2>1 DEF vars, RefreshInv
    <3>3. RebuiltInv'
      BY <1>0, <2>0, <2>1, <3>1, <3>2 DEF RefreshInv
    <3>4. QuietInv' /\ MetaInv' /\ ReleasingInv' /\ ReleasedInv' /\ ShownInv'
      BY <1>0, <2>0, <2>1 DEF RefreshInv
    <3> HIDE DEF QuietInv, MetaInv, RebuiltInv, ReleasingInv, ReleasedInv, ShownInv
    <3> QED
      BY <3>3, <3>4 DEF RefreshInv
  <2> QED
    BY <1>1, <1>3, <2>0, <2>1 DEF RefreshIndex
<1>4. CASE ReleaseRefreshed
  <2>0. /\ At("idle") /\ script.step = "release" /\ script.task = "refresh"
        /\ UNCHANGED <<files, health, dataset>>
    BY <1>4 DEF ReleaseRefreshed, InStep, RefreshInv
  <2>1. /\ Fresh(status[r]) /\ r \notin decided /\ meta[r] = None
        /\ Governed \subseteq Indexed /\ r \in Runs
    BY <2>0 DEF RefreshInv, TreeInv
  <2>2. Governed' = Governed /\ Indexed' = Indexed
    BY <2>0, SameGoverned DEF files, dataset, Indexed
  <2>3. CASE Stop
    BY <1>1, <2>0, <2>3 DEF dataset
  <2>4. CASE Go("metadata") /\ job' = job
    BY <1>0, <2>0, <2>1, <2>2, <2>4 DEF RefreshInv, dataset, At
  <2>5. CASE Go("audit") /\ Releasable(r)
             /\ job' = [Idle EXCEPT !.step = "current", !.run = r,
                                    !.source = Family, !.target = status[r].family]
    <3>1. /\ job'.step = "current" /\ job'.run = r /\ job'.target = Family
          /\ job'.prev = None
      BY <2>1, <2>5 DEF Idle, Fresh
    <3>2. /\ Fresh(status[script.run])' /\ status'[r] = status[r]
          /\ status[r].state = "review-locked"
      BY <1>0, <1>2, <2>0, <2>1, <2>5 DEF Releasable, files
    <3>3. ReleasingInv'
      BY <1>0, <2>0, <2>1, <2>2, <2>5, <3>1, <3>2 DEF Writing, dataset, At
    <3>4. ReleasedInv'
      BY <1>0, <2>0, <2>1, <2>2, <2>5 DEF dataset
    <3>5. QuietInv' /\ MetaInv' /\ RebuiltInv' /\ ShownInv'
      BY <1>0, <2>0, <2>5 DEF RefreshInv, dataset
    <3> HIDE DEF QuietInv, MetaInv, RebuiltInv, ReleasingInv, ReleasedInv, ShownInv
    <3> QED
      BY <3>3, <3>4, <3>5 DEF RefreshInv
  <2> QED
    BY <1>4, <2>3, <2>4, <2>5 DEF ReleaseRefreshed
\* From here on nothing but metadata, READMEs and index is written.
<1>5. ASSUME UNCHANGED <<vars, published, decided>>, At("idle")
      PROVE  /\ At("idle")' /\ Governed' = Governed /\ CurrentRun' = CurrentRun
             /\ script'.run = r => (Released(script.run)' <=> Released(r))
  BY <1>2, <1>5, SameGoverned DEF vars, At
<1>6. CASE Audit
  <2>0. /\ At("idle") /\ script.step = "audit" /\ script.task = "refresh"
        /\ UNCHANGED <<vars, dataset>>
    BY <1>6 DEF Audit, InStep, RefreshInv
  <2>1. CASE Stop
    BY <1>1, <2>0, <2>1 DEF dataset
  <2>2. CASE Go("metadata")
    BY <1>0, <1>5, <2>0, <2>2 DEF RefreshInv, dataset, Indexed
  <2> QED
    BY <1>6, <2>1, <2>2 DEF Audit
<1>7. CASE SyncMetadata
  <2>0. /\ At("idle") /\ script.step = "metadata" /\ Go("readmes") /\ Indexed \subseteq published
        /\ meta' = [q \in Runs |-> IF q \in Indexed THEN q = CurrentRun ELSE meta[q]]
        /\ UNCHANGED <<vars, published, decided, readme, index>>
    BY <1>7 DEF SyncMetadata, InStep
  <2>1. Indexed' = Indexed /\ \A q \in Runs \ Indexed : meta'[q] = meta[q]
    BY <2>0 DEF Indexed
  <2>2. MetaInv'
    BY <2>0, <2>1 DEF RefreshInv
  <2>3. \A q \in Runs : q \in Indexed => meta'[q] = (q = CurrentRun)
    BY <2>0
  <2>4. Indexed' \subseteq Runs
    BY <2>0, <2>1 DEF RefreshInv
  <2>5. \A q \in Indexed' : meta'[q] = (q = CurrentRun')
    BY <1>5, <2>0, <2>1, <2>3, <2>4
  <2>6. ReleasedInv'
    BY <1>0, <1>5, <2>0, <2>1 DEF RefreshInv, TreeInv
  <2>7. QuietInv' /\ RebuiltInv' /\ ReleasingInv' /\ ShownInv'
    BY <1>0, <1>5, <2>0, <2>4, <2>5 DEF RefreshInv
  <2> HIDE DEF QuietInv, MetaInv, RebuiltInv, ReleasingInv, ReleasedInv, ShownInv
  <2> QED
    BY <2>2, <2>6, <2>7 DEF RefreshInv
<1>8. CASE SyncReadmes
  <2>0. /\ At("idle") /\ script.step = "readmes" /\ Go("reindex")
        /\ readme' = [q \in Runs |-> IF q \in Indexed THEN ReadmeOf(q) ELSE readme[q]]
        /\ UNCHANGED <<vars, published, decided, meta, index>>
    BY <1>8 DEF SyncReadmes, InStep
  <2>1. Indexed' = Indexed /\ \A q \in Indexed : meta[q] = (q = CurrentRun)
    BY <2>0 DEF Indexed, RefreshInv
  <2>2. \A q \in Runs : q \in Indexed => readme'[q].table = YesNo(q = CurrentRun)
    BY <2>0 DEF ReadmeOf
  <2>3. \A q \in Indexed' : /\ meta'[q] = (q = CurrentRun')
                            /\ readme'[q].table = YesNo(q = CurrentRun')
    BY <1>5, <2>0, <2>1, <2>2 DEF RefreshInv
  <2>4. MetaInv'
    BY <2>0 DEF RefreshInv
  <2>5. ReleasedInv'
    BY <1>0, <1>5, <2>0, <2>1 DEF RefreshInv
  <2>6. Indexed' \subseteq Runs
    BY <2>0, <2>1 DEF RefreshInv
  <2>7. QuietInv' /\ RebuiltInv' /\ ReleasingInv' /\ ShownInv'
    BY <1>0, <1>5, <2>0, <2>3, <2>6 DEF RefreshInv
  <2> HIDE DEF QuietInv, MetaInv, RebuiltInv, ReleasingInv, ReleasedInv, ShownInv
  <2> QED
    BY <2>4, <2>5, <2>7 DEF RefreshInv
<1>9. CASE RefreshAgain
  <2>0. /\ At("idle") /\ script.step = "reindex"
        /\ UNCHANGED <<vars, published, build, decided, meta, readme>>
    BY <1>9 DEF RefreshAgain, InStep
  <2>1. CASE Stop
    BY <1>1, <2>0, <2>1
  <2>2. CASE Go("profile") /\ index' = IndexNow
    <3>1. index' = IndexNow' /\ Indexed' = Governed
      BY <2>0, <2>2, SameIndexNow DEF vars, Indexed, IndexNow
    <3>2. \A q \in Indexed : ShowsCurrent(q)'
      BY <1>5, <2>0 DEF RefreshInv, ShowsCurrent
    <3>3. script'.task = "refresh" => \A q \in Indexed' : meta'[q] # None => ShowsCurrent(q)'
      BY <1>0, <2>0, <2>2, <3>1, <3>2 DEF RefreshInv
    <3>4. ReleasedInv' /\ MetaInv'
      BY <1>0, <1>5, <2>0, <2>2 DEF RefreshInv
    <3>5. QuietInv' /\ RebuiltInv' /\ ReleasingInv' /\ ShownInv'
      BY <1>0, <1>5, <2>0, <2>2, <3>1, <3>3 DEF RefreshInv
    <3> HIDE DEF QuietInv, MetaInv, RebuiltInv, ReleasingInv, ReleasedInv, ShownInv
    <3> QED
      BY <3>4, <3>5 DEF RefreshInv
  <2> QED
    BY <1>9, <2>1, <2>2 DEF RefreshAgain
<1>10. CASE CheckProfile
  <2>0. At("idle") /\ script.step = "profile" /\ UNCHANGED <<vars, dataset>>
    BY <1>10 DEF CheckProfile, InStep
  <2>1. CASE Stop
    BY <1>1, <2>0, <2>1 DEF dataset
  <2>2. CASE Go("authority") /\ script.task = "refresh" /\ ProfileComplete
    <3>1. Indexed' = Indexed /\ IndexNow' = IndexNow /\ index = IndexNow
      BY <2>0, SameIndexNow DEF vars, dataset, Indexed, RefreshInv
    <3>2. ProfileComplete'
      BY <2>0, <2>2, <3>1 DEF ProfileComplete, vars, dataset
    <3>3. \A q \in Indexed' : meta'[q] # None => ShowsCurrent(q)'
      BY <1>5, <2>0, <2>2, <3>1 DEF RefreshInv, ShowsCurrent, dataset
    <3>4. ReleasedInv' /\ MetaInv'
      BY <1>0, <1>5, <2>0, <2>2 DEF RefreshInv, dataset
    <3>5. QuietInv' /\ RebuiltInv' /\ ReleasingInv' /\ ShownInv'
      BY <1>0, <1>5, <2>0, <2>2, <3>1, <3>2, <3>3 DEF RefreshInv, dataset
    <3> HIDE DEF QuietInv, MetaInv, RebuiltInv, ReleasingInv, ReleasedInv, ShownInv
    <3> QED
      BY <3>4, <3>5 DEF RefreshInv
  <2> QED
    BY <1>10, <2>1, <2>2 DEF CheckProfile
<1>11. CASE CheckAuthority
  BY <1>1, <1>11 DEF CheckAuthority, dataset
<1> QED
  BY <1>3, <1>4, <1>6, <1>7, <1>8, <1>9, <1>10, <1>11

\* A write of the release of a refresh is one of a publication, of that run.
LEMMA PublishingKeeps ==
  ASSUME Types, HeldInv, TreeInv, FilesInv, RefreshInv, ReleaseWrites \/ CloseDecided
  PROVE  RefreshInv'
<1> DEFINE r == script.run
<1> USE DEF Refreshing
<1>1. UNCHANGED <<published, work, build, meta, readme, index, script>>
  BY DEF ReleaseWrites, CloseDecided, dataset
<1>2. CASE script.step = "off"
  BY <1>1, <1>2, OffKeeps
<1>3. CASE script.step # "off"
  <2>1. /\ script.step = "audit" /\ script.task = "refresh" /\ ~At("idle")
        /\ job.step \in Writing
    <3>1. ~At("idle")
      BY <1>3 DEF ReleaseWrites, CloseDecided, Sync, EnterFamily, ForkCurrent, OpenHistory,
                  DescribeFamily, MoveRun, WriteCurrent, DeprecatePrevious,
                  RecordPublished, Register, Close, At
    <3> QED
      BY <1>3, <3>1 DEF RefreshInv, QuietInv, ReleasingInv
  <2>2. /\ job.run = r /\ job.target = Family /\ r \notin decided
        /\ Fresh(status[r]) /\ status[r].state = "review-locked"
        /\ job.prev \in Indexed \cup {r, None}
        /\ ~At("current") => current[Family] = ReleaseOf(r, status[r])
    BY <2>1 DEF RefreshInv, ReleasingInv
  <2>3. /\ meta[r] = None \/ r \in Indexed
        /\ Governed \subseteq Indexed \cup {r}
    BY <2>1 DEF RefreshInv, ReleasedInv
  <2>4. /\ job \in Jobs /\ Family \in Families /\ r \in Runs
    BY <2>1, FirstFamily DEF Types, TreeInv, Family
  <2>5. CASE WriteCurrent \/ DeprecatePrevious \/ RecordPublished \/ Register \/ CloseDecided
    <3>0. Indexed' = Indexed
      BY <1>1 DEF Indexed
    <3>1. Governed' \subseteq Indexed \cup {r}
      <4>1. None \notin Governed'
        BY DEF Governed
      <4> QED
        BY <2>2, <2>3, <2>5, <4>1, WritesGovern DEF CloseDecided
    <3>2. QuietInv' /\ MetaInv' /\ RebuiltInv' /\ ShownInv'
      BY <1>1, <2>1 DEF RefreshInv, QuietInv, MetaInv, RebuiltInv, ShownInv
    <3>3. CASE CloseDecided
      <4>1. /\ job'.step = "idle" /\ At("close") /\ UNCHANGED <<current, registry>>
            /\ status' = [status EXCEPT ![r] = [status[r] EXCEPT !.state = "published"]]
        BY <2>2, <3>3, IdleIsJob DEF CloseDecided, Close
      <4>2. status[r] \in Statuses
        BY <2>1, <2>2 DEF Types
      <4>3. /\ status'[r].artifact = status[r].artifact /\ status'[r].parity = status[r].parity
            /\ status'[r].promotion = status[r].promotion
            /\ status'[r].native = status[r].native
            /\ status'[r].contract = status[r].contract /\ status'[r] \in Statuses
        BY <2>4, <4>1, <4>2 DEF Types, Statuses
      <4>4. ReleaseOf(r, status[r]) = ReleaseOf(r, status'[r])
        BY <4>3 DEF ReleaseOf
      <4>5. registry[FirstOf(Family)].run = r
        BY <2>2, <4>1 DEF FilesInv, Progress
      <4>6. registry'[FirstOf(Family)'].run = r
        BY <4>1, <4>5, SameRegistry
      <4>7. /\ current[Family] = ReleaseOf(r, status[r])
            /\ status[r].artifact = "green" /\ status[r].promotion = "green"
            /\ status[r].parity = "green" => status[r].native
        BY <2>2, <4>1 DEF At, Fresh
      <4>8. current'[Family] = ReleaseOf(r, status'[r]) /\ status'[r] # None
        BY <4>1, <4>3, <4>4, <4>7, NoneAssumption
      <4>9. Released(script.run)'
        BY <1>1, <4>3, <4>6, <4>7, <4>8 DEF Released, ReleaseOf, Family
      <4>10. ReleasedInv'
        BY <1>1, <2>1, <2>3, <3>0, <3>1, <4>9 DEF ReleasedInv
      <4>11. ReleasingInv'
        BY <4>1 DEF ReleasingInv, At
      <4> QED
        BY <3>2, <4>10, <4>11 DEF RefreshInv
    <3>4. CASE WriteCurrent \/ DeprecatePrevious \/ RecordPublished \/ Register
      <4>1. UNCHANGED <<status, decided>>
        BY <2>1, <3>4 DEF WriteCurrent, DeprecatePrevious, RecordPublished, Register,
                          ReleaseWrites, CloseDecided, Close, dataset, At
      <4>2. /\ job'.run = r /\ job'.target = Family
            /\ job'.step \in Writing \ {"current"}
        BY <2>2, <2>4, <3>4 DEF WriteCurrent, DeprecatePrevious, RecordPublished, Register,
                                Goto, Jobs, Writing
      <4>3. job'.prev \in Indexed \cup {r, None}
        <5>1. CASE WriteCurrent
          <6>1. job'.prev = CurrentRun
            BY <2>2, <2>4, <5>1 DEF WriteCurrent, Jobs, CurrentRun
          <6> QED
            BY <2>3, <6>1, CurrentIsGoverned
        <5>2. CASE DeprecatePrevious \/ RecordPublished \/ Register
          BY <2>2, <2>4, <5>2 DEF DeprecatePrevious, RecordPublished, Register, Goto, Jobs
        <5> QED
          BY <3>4, <5>1, <5>2
      <4>4. current'[Family] = ReleaseOf(r, status[r])
        <5>1. CASE WriteCurrent
          BY <2>2, <2>4, <5>1 DEF WriteCurrent, Types
        <5>2. CASE DeprecatePrevious \/ RecordPublished \/ Register
          BY <2>2, <5>2 DEF DeprecatePrevious, RecordPublished, Register, At
        <5> QED
          BY <3>4, <5>1, <5>2
      <4>5. Fresh(status[script.run])'
        BY <1>1, <2>2, <4>1 DEF Fresh, Family
      <4>6. current'[Family] = ReleaseOf(script.run, status[script.run])'
        BY <1>1, <4>1, <4>4 DEF ReleaseOf
      <4>7. ReleasingInv'
        BY <1>1, <2>1, <2>2, <3>0, <4>1, <4>2, <4>3, <4>5, <4>6 DEF ReleasingInv, At, Family
      <4>8. ReleasedInv'
        BY <1>1, <2>1, <2>2, <2>3, <3>0, <3>1, <4>1 DEF ReleasedInv
      <4> QED
        BY <3>2, <4>7, <4>8 DEF RefreshInv
    <3> QED
      BY <2>5, <3>3, <3>4
  <2>6. ~(Sync \/ EnterFamily \/ ForkCurrent \/ OpenHistory \/ DescribeFamily \/ MoveRun)
    BY <2>1 DEF Sync, EnterFamily, ForkCurrent, OpenHistory, DescribeFamily, MoveRun,
                Writing, At
  <2> QED
    BY <1>3, <2>5, <2>6 DEF ReleaseWrites
<1> QED
  BY <1>2, <1>3

\* Whatever is cut off, a refresh knows its run, and what was finalized is shown.
LEMMA RefreshInductive ==
  ASSUME Types, HeldInv, TreeInv, FilesInv, RefreshInv, [TreeNext]_treeVars
  PROVE  RefreshInv'
<1>1. CASE UNCHANGED treeVars
  <2>1. /\ UNCHANGED <<published, work, build, decided, meta, readme, index, script>>
        /\ UNCHANGED <<config, status, current, history, manifest, registry, job>>
    BY <1>1 DEF treeVars, dataset, vars
  <2>2. IndexNow' = IndexNow /\ Governed' = Governed /\ CurrentRun' = CurrentRun
        /\ Indexed' = Indexed
    BY <2>1, SameIndexNow, SameGoverned DEF Indexed
  <2>3. (\A q : ShowsCurrent(q)' <=> ShowsCurrent(q)) /\ (ProfileComplete' <=> ProfileComplete)
    BY <2>1, <2>2 DEF ShowsCurrent, ProfileComplete
  <2>4. /\ \A q : Released(q)' <=> Released(q)
        /\ Fresh(status[script.run])' <=> Fresh(status[script.run])
        /\ Fresh(work[script.run].status)' <=> Fresh(work[script.run].status)
    BY <2>1, SameRegistry DEF Released, Fresh, ReleaseOf, Family
  <2>5. QuietInv' /\ MetaInv' /\ ShownInv'
    BY <2>1, <2>2, <2>3 DEF RefreshInv, QuietInv, MetaInv, ShownInv, Refreshing, At
  <2>6. RebuiltInv' /\ ReleasingInv' /\ ReleasedInv'
    BY <2>1, <2>2, <2>4 DEF RefreshInv, RebuiltInv, ReleasingInv, ReleasedInv, Refreshing, At,
                            Hidden, ReleaseOf, Family
  <2> QED
    BY <2>5, <2>6 DEF RefreshInv
<1>2. CASE CutOff
  BY <1>2, OffKeeps DEF CutOff, Stop, Off, dataset
<1> QED
  BY <1>1, <1>2, RebuildingKeeps, FinalizingKeeps, PublishingKeeps DEF TreeNext, Scripts

\* Whatever scripts and releases were cut off before, a finalized dataset is what
\* its index says; after a refresh every indexed run shows what is current, and a
\* refreshed flagship with green parity satisfies the reference authority.
THEOREM DatasetsAreAligned == TreeSpec => []DatasetIsAligned
<1>1. TreeInit => HeldInv /\ RefreshInv
  <2> SUFFICES ASSUME TreeInit PROVE HeldInv /\ RefreshInv
    OBVIOUS
  <2>1. Family \in Families /\ Flagship \in Runs /\ Flagship # None
    BY FirstFamily, PublishedAssumption, GovernanceAssumption DEF Family
  <2>2. current[Family] \in Releases /\ current[Family].run = Flagship
    BY <2>1, PublishedAssumption DEF TreeInit, Releases, Gates
  <2>3. job.step = "idle" /\ script.step = "off"
    BY DEF TreeInit, Idle, Off
  <2>4. HeldInv
    BY <2>1, <2>2, <2>3, NoneAssumption DEF HeldInv, Published, Forking
  <2>5. MetaInv
    BY <2>1 DEF TreeInit, MetaInv
  <2>6. RefreshInv
    BY <2>3, <2>5 DEF RefreshInv, QuietInv, RebuiltInv, ReleasingInv, ReleasedInv, ShownInv,
                      Refreshing
  <2> QED
    BY <2>4, <2>6
<1>2. Types /\ NativeInv /\ TreeInv /\ Types' /\ FilesInv /\ HeldInv /\ RefreshInv
        /\ [TreeNext]_treeVars => FilesInv' /\ HeldInv' /\ RefreshInv'
  BY TreeStep, FilesInductive, AsideKeeps, HeldInductive, RefreshInductive
<1>3. Types /\ HeldInv /\ RefreshInv => DatasetIsAligned
  <2> SUFFICES ASSUME Types, HeldInv, RefreshInv PROVE DatasetIsAligned
    OBVIOUS
  <2>1. script.step = "reindex" => \A q \in Indexed : ShowsCurrent(q)
    BY DEF RefreshInv, ShownInv, ShowsCurrent
  <2>2. ASSUME script.step \in {"profile", "authority"}
        PROVE  /\ index = IndexNow /\ Indexed = Governed /\ \A q \in Governed : Verifies(q)
               /\ script.task = "refresh" =>
                    \A q \in Indexed : meta[q] # None => ShowsCurrent(q)
    <3>1. index = IndexNow
      BY <2>2 DEF RefreshInv, ShownInv
    <3>2. \A q \in Governed : q \in Indexed /\ index[q].integrity = Integrity(q)
      BY <3>1 DEF IndexNow, Indexed, Entry
    <3>3. Indexed = Governed
      BY <3>1 DEF IndexNow, Indexed
    <3>4. script.task = "refresh" => \A q \in Indexed : meta[q] # None => ShowsCurrent(q)
      BY <2>2 DEF RefreshInv, ShownInv, Refreshing
    <3> QED
      BY <3>1, <3>2, <3>3, <3>4 DEF Verifies
  <2>3. ASSUME script.step = "authority"
        PROVE  /\ CurrentRun \in Indexed /\ meta[CurrentRun] = TRUE
               /\ script.run = Flagship /\ status[Flagship].parity = "green" => Aligned
    <3>1. script.task = "refresh" /\ ProfileComplete
      BY <2>3 DEF RefreshInv, QuietInv, ShownInv
    <3>2. CurrentRun \in Indexed
      BY <2>2, <2>3, CurrentIsGoverned
    <3>3. meta[CurrentRun] = TRUE
      BY <2>2, <2>3, <3>1, <3>2 DEF ProfileComplete, ShowsCurrent
    <3>4. ASSUME script.run = Flagship, status[Flagship].parity = "green" PROVE Aligned
      <4>1. Flagship \in Governed
        BY GovernedIs, PublishedAssumption, GovernanceAssumption
      <4>2. Flagship \in decided
        BY <2>2, <2>3, <3>1, <4>1 DEF ProfileComplete
      <4>3. Released(Flagship)
        BY <2>3, <3>1, <3>4, <4>2 DEF RefreshInv, ReleasedInv, Refreshing
      <4> QED
        BY <3>4, <4>3 DEF Released, ReleaseOf, Aligned, CurrentRun
    <3> QED
      BY <3>2, <3>3, <3>4
  <2> QED
    BY <2>1, <2>2, <2>3 DEF DatasetIsAligned
<1>4. TreeInit => FilesInv
  BY TreeStarts
<1> QED
  BY <1>1, <1>2, <1>3, <1>4, TreeHolds, PTL DEF TreeSpec
=============================================================================
