----------------------- MODULE CompiledProjectorProofs -----------------------
(***************************************************************************)
(* Proofs about CompiledProjector, for any topologies, settings, weights,  *)
(* threads and pipeline configuration: what the projector keeps from call  *)
(* to call always fits the problem and the settings it is used for.  Then  *)
(* about what it is compiled from: ShieldQP, and InterSimShield with its   *)
(* cached projectors.                                                      *)
(***************************************************************************)
EXTENDS CompiledProjector, InterSimShield, FiniteSetTheorems, SequenceTheorems,
        WellFoundedInduction, TLAPS

\* The few types the proof depends on.
Shape == /\ spec \in Topologies /\ tmpl \in Topologies
         /\ weight \in Weights

\* Constants of A once loaded are those of the template.
FilledForTemplate == aLoaded => aValues = tmpl

\* The remembered fingerprint is that of the values the solver is set up with:
\* only then may setup be skipped.
FingerprintIsTrue == lastFp # None => setup = lastFp

\* The inductive invariant.
ReuseInv == /\ Shape /\ FilledForTemplate /\ FingerprintIsTrue
            /\ SolverMatchesProblem /\ WarmStartIsOfEpisode

\* Parsing the spec again, of the same topology or of another, keeps what the
\* projector has kept true.
LEMMA SyncKeepsReuse ==
  ASSUME ReuseInv, SyncTemplate(spec),
         UNCHANGED <<lock, spec, settings, data, weight, episode, used>>
  PROVE  ReuseInv'
<1> USE DEF ReuseInv, Shape, FilledForTemplate, FingerprintIsTrue,
            SolverMatchesProblem, WarmStartIsOfEpisode, Held
<1>1. CASE spec = tmpl
  BY <1>1 DEF SyncTemplate, projectorVars
<1>2. CASE spec # tmpl
  BY <1>2 DEF SyncTemplate
<1> QED
  BY <1>1, <1>2

\* A solve, wherever it raises, leaves a fingerprint, a setup and a warm start
\* that agree, and records a use that fits the problem.
LEMMA SolveKeepsReuse ==
  ASSUME ReuseInv, NEW kind \in {"primary", "cold_retry"}, NEW failing \in Steps,
         Solve(kind, failing)
  PROVE  ReuseInv'
<1> USE DEF ReuseInv, Shape, FilledForTemplate
<1> DEFINE arg == IF kind = "primary" /\ Persist THEN warm ELSE None
           filled == failing # "fill"
           built == Rebuild /\ failing \notin {"fill", "build"}
           values == [a |-> aValues', p |-> weight]
           known == SetupKnown(built)
           isSetUp == failing \in {"solve", "none"}
<1>1. UNCHANGED <<tmpl, lock, spec, settings, data, weight, episode>>
  BY DEF Solve
<1>2. /\ aLoaded' = (aLoaded \/ filled)
      /\ aValues' = IF filled /\ ~aLoaded THEN tmpl ELSE aValues
      /\ filled => data = tmpl
  BY DEF Solve
<1>3. /\ compiled' = IF built THEN Key ELSE compiled
      /\ lastFp' = IF isSetUp THEN values ELSE IF filled /\ built THEN known ELSE lastFp
      /\ setup' = IF isSetUp /\ known # values THEN values
                  ELSE IF built THEN None ELSE setup
  BY DEF Solve
<1>4. used' = IF isSetUp THEN [warm |-> arg, setup |-> setup', compiled |-> compiled']
                         ELSE NotUsed
  BY DEF Solve
<1>5. warm' \in {None, [episode |-> episode, topo |-> tmpl]}
  BY DEF Solve
<1>6. known = IF built THEN None ELSE lastFp
  BY DEF SetupKnown
<1> HIDE DEF values, known, built, arg
<1>7. Shape' /\ FilledForTemplate'
  BY <1>1, <1>2
<1>8. isSetUp => values = [a |-> data, p |-> weight] /\ values # None
  BY <1>2, NoneAssumption DEF values
<1>9. isSetUp => setup' = values
  BY <1>3, <1>6, <1>8 DEF FingerprintIsTrue
<1>10. FingerprintIsTrue'
  <2>1. CASE isSetUp
    BY <2>1, <1>3, <1>9 DEF FingerprintIsTrue
  <2>2. CASE ~isSetUp /\ built
    BY <2>2, <1>3, <1>6 DEF FingerprintIsTrue, built
  <2>3. CASE ~isSetUp /\ ~built
    BY <2>3, <1>3 DEF FingerprintIsTrue
  <2> QED
    BY <2>1, <2>2, <2>3
<1>11. isSetUp => compiled' = Key
  BY <1>3 DEF built, Rebuild
<1>12. SolverMatchesProblem'
  <2>1. CASE isSetUp
    BY <2>1, <1>1, <1>2, <1>4, <1>8, <1>9, <1>11 DEF SolverMatchesProblem, Key
  <2>2. CASE ~isSetUp
    BY <2>2, <1>4 DEF SolverMatchesProblem, NotUsed
  <2> QED
    BY <2>1, <2>2
<1>13. WarmStartIsOfEpisode'
  <2>1. warm' # None => warm'.episode = episode' /\ warm'.topo = tmpl'
    BY <1>1, <1>5
  <2>2. arg # None => arg.episode = episode /\ arg.topo = tmpl
    BY DEF arg, WarmStartIsOfEpisode
  <2>3. CASE isSetUp
    BY <2>1, <2>2, <2>3, <1>1, <1>4, <1>11 DEF WarmStartIsOfEpisode, Key
  <2>4. CASE ~isSetUp
    BY <2>1, <2>4, <1>4 DEF WarmStartIsOfEpisode, NotUsed
  <2> QED
    BY <2>3, <2>4
<1> QED
  BY <1>7, <1>10, <1>12, <1>13

\* Every step keeps the invariant.
LEMMA ReuseInductive == ReuseInv /\ [Next]_vars => ReuseInv'
<1> SUFFICES ASSUME ReuseInv, [Next]_vars PROVE ReuseInv'
  OBVIOUS
<1> USE DEF ReuseInv, Shape, FilledForTemplate, FingerprintIsTrue,
            SolverMatchesProblem, WarmStartIsOfEpisode, Held
<1>1. ASSUME NEW t \in Threads, Project(t) PROVE ReuseInv'
  BY <1>1 DEF Project, NotUsed, projectorVars
<1>2. CASE Enter \/ Refused
  BY <1>2, SyncKeepsReuse DEF Enter, Refused
<1>3. ASSUME NEW kind \in {"primary", "cold_retry"}, NEW failing \in Steps,
             Solve(kind, failing)
      PROVE  ReuseInv'
  BY <1>3, SolveKeepsReuse
<1>4. CASE EnterColdRetry
  BY <1>4 DEF EnterColdRetry
<1>5. CASE OtherRungs
  BY <1>5 DEF OtherRungs, projectorVars
<1>6. CASE Leave
  BY <1>6 DEF Leave, projectorVars
<1>7. CASE Reset
  BY <1>7 DEF Reset
<1>8. CASE Rebind
  BY <1>8 DEF Rebind, projectorVars
<1>9. CASE UNCHANGED vars
  BY <1>9 DEF vars
<1> QED
  BY <1>1, <1>2, <1>3, <1>4, <1>5, <1>6, <1>7, <1>8, <1>9 DEF Next, InCall

\* What the projector keeps from call to call is always usable.
LEMMA ReuseInvariant == Spec => []ReuseInv
<1>1. Init => ReuseInv
  BY DEF Init, ReuseInv, Shape, FilledForTemplate, FingerprintIsTrue,
         SolverMatchesProblem, WarmStartIsOfEpisode, NotUsed, Held
<1> QED
  BY <1>1, ReuseInductive, PTL DEF Spec

\* A solve runs on a solver built and set up for its own problem, whatever was
\* skipped, rebuilt or failed before.
THEOREM SolverMatches == Spec => []SolverMatchesProblem
  BY ReuseInvariant, PTL DEF ReuseInv

\* No warm start crosses an episode or a topology.
THEOREM WarmStartOfEpisode == Spec => []WarmStartIsOfEpisode
  BY ReuseInvariant, PTL DEF ReuseInv
-----------------------------------------------------------------------------
\* A solve, on the first rung or on the cold retry, whatever was rebound before
\* it, runs on a solver compiled for the settings the options then have.
THEOREM SettingsAreObeyed == Spec => RebuiltForSettings
<1>1. [Next]_vars => [used' # used /\ used'.compiled # None
                       => used'.compiled.set = settings]_vars
  <2> SUFFICES ASSUME Next, used' # used, used'.compiled # None
               PROVE  used'.compiled.set = settings
    OBVIOUS
  <2>1. PICK kind \in {"primary", "cold_retry"}, failing \in Steps : Solve(kind, failing)
    BY DEF Next, InCall, Project, Enter, Refused, EnterColdRetry, OtherRungs, Leave,
           Reset, Rebind, NotUsed
  <2>2. failing \in {"solve", "none"}
    BY <2>1 DEF Solve, NotUsed
  <2>3. used'.compiled = compiled' /\ compiled' = Key
    BY <2>1, <2>2 DEF Solve, Rebuild
  <2> QED
    BY <2>3 DEF Key
<1> QED
  BY <1>1, PTL DEF Spec, RebuiltForSettings
-----------------------------------------------------------------------------
(***************************************************************************)
(* The total of an action is a fold over its indices.  The provers cannot  *)
(* unfold it by an induction theorem, so it is traced here level by level  *)
(* of the sizes of the sets it is folded over.                             *)
(***************************************************************************)
Member(s) == CHOOSE e \in s : TRUE

\* Functions that meet the equation on the sets of at most n indices.
SumsUpTo(n, x, D) == {f \in [SUBSET D -> Int] :
  \A s \in SUBSET D : Cardinality(s) <= n =>
     f[s] = IF s = {} THEN 0 ELSE x[Member(s)] + f[s \ {Member(s)}]}

\* A set of numbers that is not empty has a least one.
LEMMA LeastNumber ==
  ASSUME NEW S, S \subseteq Nat, S # {}
  PROVE  \E i \in S : \A j \in S : i <= j
<1>1. PICK i \in S : \A j \in S : ~(<<j, i>> \in OpToRel(<, Nat))
  BY NatLessThanWellFounded, WFMin
<1>2. \A j \in S : ~(j < i)
  BY <1>1 DEF OpToRel
<1> QED
  BY <1>2

\* A set without one of its members is smaller.
LEMMA Smaller ==
  ASSUME NEW D, IsFiniteSet(D), NEW s \in SUBSET D
  PROVE  /\ Cardinality(s) \in Nat /\ Cardinality(s) <= Cardinality(D)
         /\ s # {} => /\ Member(s) \in s /\ s \ {Member(s)} \in SUBSET D
                      /\ Cardinality(s \ {Member(s)}) = Cardinality(s) - 1
<1>1. IsFiniteSet(s) /\ Cardinality(s) <= Cardinality(D)
  BY FS_Subset
<1>2. Cardinality(s) \in Nat
  BY <1>1, FS_CardinalityType
<1>3. s # {} => Member(s) \in s
  BY DEF Member
<1>4. s # {} => Cardinality(s \ {Member(s)}) = Cardinality(s) - 1
  BY <1>1, <1>3, FS_RemoveElement
<1> QED
  BY <1>1, <1>2, <1>3, <1>4

\* There are sums for sets of any size.
LEMMA SumsForSize ==
  ASSUME NEW D, IsFiniteSet(D), NEW x \in [D -> Int], NEW n \in Nat
  PROVE  SumsUpTo(n, x, D) # {}
<1> DEFINE Missing == {k \in Nat : SumsUpTo(k, x, D) = {}}
<1> SUFFICES ASSUME Missing # {} PROVE FALSE
  OBVIOUS
<1>1. PICK k \in Missing : \A j \in Missing : k <= j
  BY LeastNumber
<1>2. k # 0
  <2> DEFINE f == [s \in SUBSET D |-> 0]
  <2>1. \A s \in SUBSET D : Cardinality(s) <= 0 => s = {}
    <3> SUFFICES ASSUME NEW s \in SUBSET D, Cardinality(s) <= 0 PROVE s = {}
      OBVIOUS
    <3>1. IsFiniteSet(s)
      BY FS_Subset
    <3>2. Cardinality(s) \in Nat
      BY <3>1, FS_CardinalityType
    <3>3. Cardinality(s) = 0
      BY <3>2
    <3> QED
      BY <3>1, <3>3, FS_EmptySet
  <2>2. f \in SumsUpTo(0, x, D)
    BY <2>1 DEF SumsUpTo
  <2> QED
    BY <2>2, <1>1
<1>3. k - 1 \in Nat /\ k - 1 \notin Missing
  BY <1>1, <1>2
<1>4. PICK g \in [SUBSET D -> Int] : \A s \in SUBSET D : Cardinality(s) <= k - 1 =>
        g[s] = IF s = {} THEN 0 ELSE x[Member(s)] + g[s \ {Member(s)}]
  BY <1>3 DEF SumsUpTo
<1> DEFINE h == [s \in SUBSET D |-> IF s = {} THEN 0 ELSE x[Member(s)] + g[s \ {Member(s)}]]
<1>5. \A s \in SUBSET D : Cardinality(s) <= k - 1 => h[s] = g[s]
  BY <1>4
<1>6. \A s \in SUBSET D : s # {} /\ Cardinality(s) <= k =>
        h[s] = x[Member(s)] + h[s \ {Member(s)}]
  <2> SUFFICES ASSUME NEW s \in SUBSET D, s # {}, Cardinality(s) <= k
               PROVE  h[s] = x[Member(s)] + h[s \ {Member(s)}]
    OBVIOUS
  <2>1. s \ {Member(s)} \in SUBSET D /\ Cardinality(s \ {Member(s)}) <= k - 1
    BY Smaller, <1>1
  <2>2. h[s] = x[Member(s)] + g[s \ {Member(s)}]
    OBVIOUS
  <2> HIDE DEF h
  <2> QED
    BY <2>1, <2>2, <1>5
<1>7. h \in [SUBSET D -> Int]
  <2> SUFFICES ASSUME NEW s \in SUBSET D, s # {} PROVE x[Member(s)] + g[s \ {Member(s)}] \in Int
    OBVIOUS
  <2>1. Member(s) \in D /\ s \ {Member(s)} \in SUBSET D
    BY Smaller
  <2> QED
    BY <2>1, <1>4
<1>8. h[{}] = 0
  OBVIOUS
<1> HIDE DEF h
<1>9. h \in SumsUpTo(k, x, D)
  BY <1>6, <1>7, <1>8 DEF SumsUpTo
<1> QED
  BY <1>1, <1>9

\* The total of a finite number of integers is an integer.
LEMMA TotalIsInt ==
  ASSUME NEW D, IsFiniteSet(D), NEW x \in [D -> Int]
  PROVE  TotalOf(x) \in Int
<1> DEFINE Step(f) == [s \in SUBSET D |-> IF s = {} THEN 0 ELSE x[Member(s)] + f[s \ {Member(s)}]]
           sums == CHOOSE f : f = Step(f)
<1>1. TotalOf(x) = sums[D]
  <2>1. DOMAIN x = D
    OBVIOUS
  <2> QED
    BY <2>1 DEF TotalOf, MapThenSumSet, MapThenFoldSet, Member
<1>2. \E f : f = Step(f)
  <2>1. Cardinality(D) \in Nat
    BY FS_CardinalityType
  <2>2. PICK f \in [SUBSET D -> Int] : \A s \in SUBSET D :
          Cardinality(s) <= Cardinality(D) =>
             f[s] = IF s = {} THEN 0 ELSE x[Member(s)] + f[s \ {Member(s)}]
    <3>1. SumsUpTo(Cardinality(D), x, D) # {}
      BY <2>1, SumsForSize
    <3> QED
      BY <3>1 DEF SumsUpTo
  <2>3. \A s \in SUBSET D : f[s] = Step(f)[s]
    BY <2>2, Smaller
  <2>4. Step(f) = [s \in SUBSET D |-> Step(f)[s]] /\ f = [s \in SUBSET D |-> f[s]]
    BY <2>2
  <2>5. f = Step(f)
    BY <2>3, <2>4
  <2> QED
    BY <2>5
<1>3. sums = Step(sums)
  BY <1>2
<1> DEFINE Wrong == {n \in Nat : \E s \in SUBSET D : Cardinality(s) = n /\ sums[s] \notin Int}
<1>4. \A s \in SUBSET D : sums[s] = IF s = {} THEN 0 ELSE x[Member(s)] + sums[s \ {Member(s)}]
  BY <1>3
<1> HIDE DEF sums
<1>5. Wrong = {}
  <2> SUFFICES ASSUME Wrong # {} PROVE FALSE
    OBVIOUS
  <2>1. PICK n \in Wrong : \A m \in Wrong : n <= m
    BY LeastNumber
  <2>2. PICK s \in SUBSET D : Cardinality(s) = n /\ sums[s] \notin Int
    BY <2>1
  <2>3. s # {} /\ sums[s] = x[Member(s)] + sums[s \ {Member(s)}]
    BY <2>2, <1>4
  <2>4. /\ Member(s) \in D /\ s \ {Member(s)} \in SUBSET D
        /\ Cardinality(s \ {Member(s)}) = n - 1 /\ n - 1 \in Nat
    <3>1. s \ {Member(s)} \in SUBSET D /\ Member(s) \in s
      BY <2>3, Smaller
    <3>2. PICK t \in SUBSET D : t = s \ {Member(s)}
      BY <3>1
    <3>3. Cardinality(t) \in Nat
      BY Smaller
    <3> QED
      BY <2>2, <2>3, <3>1, <3>2, <3>3, Smaller
  <2>5. sums[s \ {Member(s)}] \in Int
    BY <2>1, <2>4
  <2> QED
    BY <2>2, <2>3, <2>4, <2>5
<1>6. Cardinality(D) \in Nat /\ D \in SUBSET D
  BY FS_CardinalityType
<1> QED
  BY <1>1, <1>5, <1>6
-----------------------------------------------------------------------------
(***************************************************************************)
(* What a topology stands for: templates compiled for one specification    *)
(* and filled for another.                                                 *)
(***************************************************************************)

\* ShieldQPData, and a previous action.
Datas == [total : Int, lower : [Index -> Int], upper : [Index -> Int],
          allowed : SUBSET Index, delta : [Index -> Nat \cup {Unlimited}]]
Previous == [Index -> Int] \cup {Absent}

\* Numbers that 1e12 stands above.
Moderate(x, p) ==
  \A i \in Index : /\ -Huge < x[i] /\ x[i] < Huge
                   /\ p # Absent => -Huge < x[i] - p[i] /\ x[i] - p[i] < Huge

\* Parsing a specification of the schema gives such data.
LEMMA LoweredIsData ==
  ASSUME NEW s \in SafetySpecs
  PROVE  Lowered(s) \in Datas
  BY QPAssumption DEF SafetySpecs, Lowered, Datas, Boxes, Index

\* The rate rows of a template that accepts d, whatever it was compiled for:
\* those d limits, or all of them when d limits none.
LEMMA RateRowsCover ==
  ASSUME NEW d0 \in Datas, NEW d \in Datas, Matches(d, Topology(d0))
  PROVE  LET t == Topology(d0)
         IN  /\ t.prohibited = Index \ d.allowed
             /\ t.use \in BOOLEAN /\ t.rates \subseteq Index
             /\ t.use => RateIndices(d) \subseteq t.rates
             /\ ~t.use => RateIndices(d) = {}
  BY DEF Matches, Topology, TopologyWith, RateIndices

\* The equalities of a template are the total and the prohibited actions.
LEMMA EqualitiesMean ==
  ASSUME NEW d \in Datas, NEW p \in Previous, NEW x \in [Index -> Int],
         NEW t, t.prohibited = Index \ d.allowed
  PROVE  (\A row \in Equalities(t) : Times(row, x) = Right(row, d, p))
           <=> TotalOf(x) = d.total /\ \A i \in Index \ d.allowed : x[i] = 0
<1>1. (\A row \in Equalities(t) : Times(row, x) = Right(row, d, p))
        <=> /\ Times(<<"simplex", 0>>, x) = Right(<<"simplex", 0>>, d, p)
            /\ \A i \in Index \ d.allowed :
                 Times(<<"prohibit", i>>, x) = Right(<<"prohibit", i>>, d, p)
  BY DEF Equalities, RowsOf
<1>2. Times(<<"simplex", 0>>, x) = TotalOf(x) /\ Right(<<"simplex", 0>>, d, p) = d.total
  BY DEF Times, Right
<1>3. \A i \in Index : /\ Times(<<"prohibit", i>>, x) = x[i]
                      /\ Right(<<"prohibit", i>>, d, p) = 0
  BY DEF Times, Right
<1> QED
  BY <1>1, <1>2, <1>3

\* Its box rows are the bounds.
LEMMA BoxRowsMean ==
  ASSUME NEW d \in Datas, NEW p \in Previous, NEW x \in [Index -> Int]
  PROVE  (\A row \in BoxRows : Times(row, x) <= Right(row, d, p))
           <=> \A i \in Index : d.lower[i] <= x[i] /\ x[i] <= d.upper[i]
<1>1. (\A row \in BoxRows : Times(row, x) <= Right(row, d, p))
        <=> \A i \in Index :
              /\ Times(<<"box_lower", i>>, x) <= Right(<<"box_lower", i>>, d, p)
              /\ Times(<<"box_upper", i>>, x) <= Right(<<"box_upper", i>>, d, p)
  BY DEF BoxRows, RowsOf
<1>2. \A i \in Index :
        /\ Times(<<"box_lower", i>>, x) = -x[i] /\ Times(<<"box_upper", i>>, x) = x[i]
        /\ Right(<<"box_lower", i>>, d, p) = -d.lower[i]
        /\ Right(<<"box_upper", i>>, d, p) = d.upper[i]
  BY DEF Times, Right
<1>3. \A i \in Index : x[i] \in Int /\ d.lower[i] \in Int /\ d.upper[i] \in Int
  BY DEF Datas
<1>4. \A i \in Index :
        (/\ Times(<<"box_lower", i>>, x) <= Right(<<"box_lower", i>>, d, p)
         /\ Times(<<"box_upper", i>>, x) <= Right(<<"box_upper", i>>, d, p))
        <=> (d.lower[i] <= x[i] /\ x[i] <= d.upper[i])
  <2> SUFFICES ASSUME NEW i \in Index
               PROVE  (-x[i] <= -d.lower[i] /\ x[i] <= d.upper[i])
                        <=> (d.lower[i] <= x[i] /\ x[i] <= d.upper[i])
    BY <1>2
  <2> QED
    BY <1>3
<1> QED
  BY <1>1, <1>4

\* Its rate rows, on any indices that cover the limited ones, are the limits;
\* without a previous action they ask nothing.
LEMMA RateRowsMean ==
  ASSUME NEW d \in Datas, NEW p \in Previous, NEW x \in [Index -> Int], Moderate(x, p),
         NEW R \in SUBSET Index, RateIndices(d) \subseteq R
  PROVE  (\A row \in RateRows(R) : Times(row, x) <= Right(row, d, p))
           <=> (p # Absent => \A i \in Index : Near(x[i], p[i], d.delta[i]))
<1>1. (\A row \in RateRows(R) : Times(row, x) <= Right(row, d, p))
        <=> \A i \in R :
              /\ Times(<<"rate_pos", i>>, x) <= Right(<<"rate_pos", i>>, d, p)
              /\ Times(<<"rate_neg", i>>, x) <= Right(<<"rate_neg", i>>, d, p)
  BY DEF RateRows, RowsOf
<1>2. \A i \in R : Times(<<"rate_pos", i>>, x) = x[i] /\ Times(<<"rate_neg", i>>, x) = -x[i]
  BY DEF Times
<1>3. \A i \in R :
        /\ Right(<<"rate_pos", i>>, d, p) =
             Relaxed(p, p[i] + Reach(d.delta[i]))
        /\ Right(<<"rate_neg", i>>, d, p) =
             Relaxed(p, Reach(d.delta[i]) - p[i])
  BY DEF Right
<1>4. \A i \in Index : x[i] \in Int /\ d.delta[i] \in Nat \cup {Unlimited}
  BY DEF Datas
<1>5. Huge \in Nat /\ Unlimited \notin Int
  BY QPAssumption
<1>6. CASE p = Absent
  <2>1. \A i \in R : x[i] <= Huge /\ -x[i] <= Huge
    BY <1>4, <1>5 DEF Moderate
  <2> QED
    BY <1>1, <1>2, <1>3, <1>6, <2>1 DEF Relaxed
<1>7. CASE p # Absent
  <2>1. \A i \in Index : p[i] \in Int
    BY <1>7 DEF Previous
  <2>2. \A i \in R :
          (x[i] <= p[i] + Reach(d.delta[i]) /\ -x[i] <= Reach(d.delta[i]) - p[i])
            <=> Near(x[i], p[i], d.delta[i])
    <3> SUFFICES ASSUME NEW i \in R
                 PROVE  (/\ x[i] <= p[i] + Reach(d.delta[i])
                         /\ -x[i] <= Reach(d.delta[i]) - p[i])
                        <=> Near(x[i], p[i], d.delta[i])
      OBVIOUS
    <3>1. CASE d.delta[i] = Unlimited
      <4>1. -Huge < x[i] - p[i] /\ x[i] - p[i] < Huge
        BY <1>7 DEF Moderate
      <4> QED
        BY <1>4, <1>5, <2>1, <3>1, <4>1 DEF Reach, Near
    <3>2. CASE d.delta[i] # Unlimited
      <4>1. d.delta[i] \in Nat
        BY <1>4, <3>2
      <4> QED
        BY <1>4, <2>1, <3>2, <4>1 DEF Reach, Near
    <3> QED
      BY <3>1, <3>2
  <2>3. \A i \in Index \ R : Near(x[i], p[i], d.delta[i])
    BY DEF RateIndices, Near
  <2> QED
    BY <1>1, <1>2, <1>3, <1>7, <2>2, <2>3 DEF Relaxed
<1> QED
  BY <1>6, <1>7

\* What a template and the standard form ask is what CVXPY is asked.
LEMMA MeetsMeansAdmits ==
  ASSUME NEW d \in Datas, NEW p \in Previous, NEW x \in [Index -> Int], Moderate(x, p),
         NEW t, t.prohibited = Index \ d.allowed, t.rates \subseteq Index,
         t.use \in BOOLEAN,
         t.use => RateIndices(d) \subseteq t.rates,
         ~t.use => RateIndices(d) = {} \/ p = Absent
  PROVE  Meets(x, t, d, p) <=> Admits(x, d, p)
<1>1. (\A row \in Equalities(t) : Times(row, x) = Right(row, d, p))
        <=> TotalOf(x) = d.total /\ \A i \in Index \ d.allowed : x[i] = 0
  BY EqualitiesMean
<1>2. (\A row \in BoxRows : Times(row, x) <= Right(row, d, p))
        <=> \A i \in Index : d.lower[i] <= x[i] /\ x[i] <= d.upper[i]
  BY BoxRowsMean
<1>3. CASE t.use
  <2>1. (\A row \in RateRows(t.rates) : Times(row, x) <= Right(row, d, p))
          <=> (p # Absent => \A i \in Index : Near(x[i], p[i], d.delta[i]))
    BY <1>3, RateRowsMean
  <2>2. Inequalities(t) = BoxRows \cup RateRows(t.rates)
    BY <1>3 DEF Inequalities
  <2> QED
    BY <1>1, <1>2, <2>1, <2>2 DEF Meets, Admits
<1>4. CASE ~t.use
  <2>1. p # Absent => \A i \in Index : Near(x[i], p[i], d.delta[i])
    BY <1>4 DEF RateIndices, Near
  <2>2. Inequalities(t) = BoxRows
    BY <1>4 DEF Inequalities
  <2> QED
    BY <1>1, <1>2, <2>1, <2>2 DEF Meets, Admits
<1> QED
  BY <1>3, <1>4

\* Verification without tolerance asks the same.
LEMMA VerifiedMeansAdmits ==
  ASSUME NEW d \in Datas, NEW p \in Previous, NEW x \in [Index -> Int]
  PROVE  Verified(x, d, p) <=> Admits(x, d, p)
<1>0. TotalOf(x) \in Int
  BY TotalIsInt, FS_Interval, QPAssumption DEF Index
<1>1. \A u, v \in Int : Distance(u, v) <= 0 <=> u = v
  BY DEF Distance
<1>2. \A a \in Int : Excess(a) <= 0 <=> a <= 0
  BY DEF Excess
<1>3. \A i \in Index : /\ x[i] \in Int /\ d.lower[i] \in Int /\ d.upper[i] \in Int
                      /\ d.delta[i] \in Nat \cup {Unlimited}
  BY DEF Datas
<1>4. d.total \in Int
  BY DEF Datas
<1>5. (\A e \in Residuals(x, d, p).equality : e <= 0)
        <=> TotalOf(x) = d.total /\ \A i \in Index \ d.allowed : x[i] = 0
  BY <1>0, <1>1, <1>3, <1>4 DEF Residuals
<1>9. (\A i \in Index : /\ Excess(d.lower[i] - x[i]) <= 0
                       /\ Excess(x[i] - d.upper[i]) <= 0)
        <=> \A i \in Index : d.lower[i] <= x[i] /\ x[i] <= d.upper[i]
  <2>1. ASSUME NEW i \in Index
        PROVE  /\ (Excess(d.lower[i] - x[i]) <= 0) <=> (d.lower[i] <= x[i])
               /\ (Excess(x[i] - d.upper[i]) <= 0) <=> (x[i] <= d.upper[i])
    <3>1. x[i] \in Int /\ d.lower[i] \in Int /\ d.upper[i] \in Int
      BY <1>3
    <3> QED
      BY <3>1 DEF Excess
  <2> QED
    BY <2>1
<1>7. CASE p = Absent
  <2>1. (\A e \in Residuals(x, d, p).inequality : e <= 0)
          <=> \A i \in Index : /\ Excess(d.lower[i] - x[i]) <= 0
                              /\ Excess(x[i] - d.upper[i]) <= 0
    BY <1>7 DEF Residuals
  <2> QED
    BY <1>5, <1>7, <1>9, <2>1 DEF Verified, Admits
<1>8. CASE p # Absent
  <2>1. \A i \in Index : p[i] \in Int
    BY <1>8 DEF Previous
  <2>2. \A i \in RateIndices(d) :
          Excess(Distance(x[i], p[i]) - d.delta[i]) <= 0 <=> Near(x[i], p[i], d.delta[i])
    BY <1>3, <2>1, QPAssumption DEF RateIndices, Excess, Distance, Near
  <2>3. \A i \in Index \ RateIndices(d) : Near(x[i], p[i], d.delta[i])
    BY DEF RateIndices, Near
  <2>4. (\A e \in Residuals(x, d, p).inequality : e <= 0)
          <=> /\ \A i \in Index : /\ Excess(d.lower[i] - x[i]) <= 0
                                 /\ Excess(x[i] - d.upper[i]) <= 0
              /\ \A i \in RateIndices(d) : Excess(Distance(x[i], p[i]) - d.delta[i]) <= 0
    BY <1>8 DEF Residuals
  <2>5. (\A i \in RateIndices(d) : Near(x[i], p[i], d.delta[i]))
          <=> \A i \in Index : Near(x[i], p[i], d.delta[i])
    BY <2>3 DEF RateIndices
  <2> QED
    BY <1>5, <1>8, <1>9, <2>2, <2>4, <2>5 DEF Verified, Admits
<1> QED
  BY <1>7, <1>8

\* The rows of a template that are tight are those reported as active.
LEMMA ActiveAreTight ==
  ASSUME NEW d \in Datas, NEW p \in Previous, NEW x \in [Index -> Int], Moderate(x, p),
         NEW t, t.prohibited = Index \ d.allowed, t.rates \subseteq Index,
         t.use \in BOOLEAN,
         t.use => RateIndices(d) \subseteq t.rates,
         ~t.use => RateIndices(d) = {}
  PROVE  ActiveSet(x, d, p) = TightRows(x, t, d, p)
<1> DEFINE Tight(row) == Times(row, x) = Right(row, d, p)
           Named(k, S) == {<<k, i>> : i \in {j \in S : Tight(<<k, j>>)}}
           Bounded == IF t.use THEN t.rates ELSE {}
<1>1. TightRows(x, t, d, p) =
        Named("simplex", {0}) \cup Named("prohibit", t.prohibited)
          \cup Named("box_lower", Index) \cup Named("box_upper", Index)
          \cup Named("rate_pos", Bounded) \cup Named("rate_neg", Bounded)
  <2>1. Equalities(t) \cup Inequalities(t) =
          RowsOf("simplex", {0}) \cup RowsOf("prohibit", t.prohibited)
            \cup RowsOf("box_lower", Index) \cup RowsOf("box_upper", Index)
            \cup RowsOf("rate_pos", Bounded) \cup RowsOf("rate_neg", Bounded)
    BY DEF Equalities, Inequalities, BoxRows, RateRows, RowsOf
  <2>2. \A k, S : {row \in RowsOf(k, S) : Tight(row)} = Named(k, S)
    BY DEF RowsOf
  <2>3. TightRows(x, t, d, p) = {row \in Equalities(t) \cup Inequalities(t) : Tight(row)}
    BY DEF TightRows
  <2> HIDE DEF Tight, Named, Bounded
  <2>4. TightRows(x, t, d, p) =
          {row \in RowsOf("simplex", {0}) : Tight(row)}
            \cup {row \in RowsOf("prohibit", t.prohibited) : Tight(row)}
            \cup {row \in RowsOf("box_lower", Index) : Tight(row)}
            \cup {row \in RowsOf("box_upper", Index) : Tight(row)}
            \cup {row \in RowsOf("rate_pos", Bounded) : Tight(row)}
            \cup {row \in RowsOf("rate_neg", Bounded) : Tight(row)}
    BY <2>1, <2>3
  <2> QED
    BY <2>2, <2>4
<1>2. \A i \in Index : x[i] \in Int /\ d.lower[i] \in Int /\ d.upper[i] \in Int
                       /\ d.delta[i] \in Nat \cup {Unlimited}
  BY DEF Datas
<1>3. Named("simplex", {0}) = {<<"simplex", 0>> : i \in {j \in {0} : TotalOf(x) = d.total}}
  BY DEF Times, Right
<1>4. Named("prohibit", t.prohibited) =
        {<<"prohibit", i>> : i \in {j \in Index \ d.allowed : x[j] = 0}}
  BY DEF Times, Right
<1>5. Named("box_lower", Index) = {<<"box_lower", i>> : i \in {j \in Index : x[j] = d.lower[j]}}
  <2>1. \A j \in Index : Tight(<<"box_lower", j>>) <=> x[j] = d.lower[j]
    BY <1>2 DEF Times, Right
  <2> QED
    BY <2>1
<1>6. Named("box_upper", Index) = {<<"box_upper", i>> : i \in {j \in Index : x[j] = d.upper[j]}}
  <2>1. \A j \in Index : Tight(<<"box_upper", j>>) <=> x[j] = d.upper[j]
    BY DEF Times, Right
  <2> QED
    BY <2>1
<1>7. \A j \in Bounded :
        /\ Tight(<<"rate_pos", j>>) <=> x[j] = Relaxed(p, p[j] + Reach(d.delta[j]))
        /\ Tight(<<"rate_neg", j>>) <=> -x[j] = Relaxed(p, Reach(d.delta[j]) - p[j])
  BY DEF Times, Right
<1>8. RateIndices(d) \subseteq Bounded /\ Bounded \subseteq Index
  BY DEF RateIndices
<1>9. CASE p = Absent
  <2>1. \A j \in Bounded : ~Tight(<<"rate_pos", j>>) /\ ~Tight(<<"rate_neg", j>>)
    <3> SUFFICES ASSUME NEW j \in Bounded
                 PROVE  ~Tight(<<"rate_pos", j>>) /\ ~Tight(<<"rate_neg", j>>)
      OBVIOUS
    <3>1. x[j] < Huge /\ -Huge < x[j] /\ x[j] \in Int /\ Huge \in Int
      BY <1>2, <1>8, QPAssumption DEF Moderate
    <3>2. x[j] # Huge /\ -x[j] # Huge
      BY <3>1
    <3> QED
      BY <1>7, <1>9, <3>2 DEF Relaxed
  <2>2. Named("rate_pos", Bounded) = {} /\ Named("rate_neg", Bounded) = {}
    BY <2>1
  <2> QED
    BY <1>1, <1>3, <1>4, <1>5, <1>6, <1>9, <2>2 DEF ActiveSet
<1>10. CASE p # Absent
  <2>1. \A j \in Bounded \ RateIndices(d) :
          ~Tight(<<"rate_pos", j>>) /\ ~Tight(<<"rate_neg", j>>)
    <3> SUFFICES ASSUME NEW j \in Bounded, d.delta[j] = Unlimited
                 PROVE  ~Tight(<<"rate_pos", j>>) /\ ~Tight(<<"rate_neg", j>>)
      BY <1>8 DEF RateIndices
    <3>1. /\ x[j] - p[j] < Huge /\ -Huge < x[j] - p[j]
          /\ x[j] \in Int /\ p[j] \in Int /\ Huge \in Int
      BY <1>2, <1>8, <1>10, QPAssumption DEF Moderate, Previous
    <3>2. x[j] # p[j] + Huge /\ -x[j] # Huge - p[j]
      BY <3>1
    <3> QED
      BY <1>7, <1>10, <3>2 DEF Relaxed, Reach
  <2>2. \A j \in RateIndices(d) :
          /\ Tight(<<"rate_pos", j>>) <=> x[j] - p[j] = d.delta[j]
          /\ Tight(<<"rate_neg", j>>) <=> x[j] - p[j] = -d.delta[j]
    <3> SUFFICES ASSUME NEW j \in RateIndices(d)
                 PROVE  /\ Tight(<<"rate_pos", j>>) <=> x[j] - p[j] = d.delta[j]
                        /\ Tight(<<"rate_neg", j>>) <=> x[j] - p[j] = -d.delta[j]
      OBVIOUS
    <3>1. x[j] \in Int /\ p[j] \in Int /\ d.delta[j] \in Nat /\ d.delta[j] # Unlimited
      BY <1>2, <1>10 DEF RateIndices, Previous
    <3>2. /\ x[j] = p[j] + d.delta[j] <=> x[j] - p[j] = d.delta[j]
          /\ -x[j] = d.delta[j] - p[j] <=> x[j] - p[j] = -d.delta[j]
      BY <3>1
    <3> QED
      BY <1>7, <1>8, <1>10, <3>1, <3>2 DEF Relaxed, Reach
  <2> HIDE DEF Tight
  <2>3. /\ Named("rate_pos", Bounded) =
             {<<"rate_pos", i>> : i \in {j \in RateIndices(d) : x[j] - p[j] = d.delta[j]}}
        /\ Named("rate_neg", Bounded) =
             {<<"rate_neg", i>> : i \in {j \in RateIndices(d) : x[j] - p[j] = -d.delta[j]}}
    BY <1>8, <2>1, <2>2
  <2> QED
    BY <1>1, <1>3, <1>4, <1>5, <1>6, <1>10, <2>3 DEF ActiveSet
<1> QED
  BY <1>9, <1>10

\* For every dimension, data, previous action and action below 1e12: a template
\* compiled for d0 that accepts d asks of the action what CVXPY is asked, the
\* standard form asks and verification tests, and what is reported as active
\* is what is tight.
THEOREM EncodingsMeanTheSame ==
  ASSUME NEW d0 \in Datas, NEW d \in Datas, Matches(d, Topology(d0)),
         NEW p \in Previous, NEW x \in [Index -> Int], Moderate(x, p)
  PROVE  OneMeaning(x, Topology(d0), d, p)
<1> DEFINE t == Topology(d0)
           u == StandardRows(d, p)
<1>1. /\ t.prohibited = Index \ d.allowed
      /\ t.use \in BOOLEAN /\ t.rates \subseteq Index
      /\ t.use => RateIndices(d) \subseteq t.rates
      /\ ~t.use => RateIndices(d) = {}
  BY RateRowsCover
<1>2. /\ u.prohibited = Index \ d.allowed
      /\ u.use \in BOOLEAN /\ u.rates \subseteq Index
      /\ u.use => RateIndices(d) \subseteq u.rates
      /\ ~u.use => p = Absent
  BY DEF StandardRows, TopologyWith, RateIndices
<1> HIDE DEF t, u
<1>3. Meets(x, t, d, p) <=> Admits(x, d, p)
  BY <1>1, MeetsMeansAdmits
<1>4. Meets(x, u, d, p) <=> Admits(x, d, p)
  BY <1>2, MeetsMeansAdmits
<1>5. Verified(x, d, p) <=> Admits(x, d, p)
  BY VerifiedMeansAdmits
<1>6. ActiveSet(x, d, p) = TightRows(x, t, d, p)
  BY <1>1, ActiveAreTight
<1> QED
  BY <1>3, <1>4, <1>5, <1>6 DEF OneMeaning, t, u
-----------------------------------------------------------------------------
(***************************************************************************)
(* The shield: what its cached projectors are bound to, whatever contexts  *)
(* came before.                                                            *)
(***************************************************************************)

\* What an entry of the cache may be: it belongs to some context as a whole,
\* and what it keeps is of the episode.
Entries == {[key |-> StructuralKey(SpecOf[c]), spec |-> SpecOf[c],
             digest |-> Signature(SpecOf[c]), warm |-> w] :
              c \in Contexts, w \in {NoStart, episodeNo}}

\* The inductive invariant.
CacheInv == /\ previous \in Distributions \cup {NoDist}
            /\ cache \in Seq(Entries)
            /\ batches \in [Keys -> [Owners -> {NoStart, episodeNo}]]
            /\ lent \in {NoStart, episodeNo}

\* The caps of a context bound its specification between zero and one.
LEMMA UpperIsMass ==
  ASSUME NEW ctx \in Contexts
  PROVE  /\ UpperBounds(ctx) \in [Actions -> Mass]
         /\ ctx.caps \in [Actions -> Mass] /\ ctx.rate \in Mass
         /\ \A a \in Actions : UpperBounds(ctx)[a] <= ctx.caps[a]
         /\ \A a \in Actions : ctx.open # {} /\ a \notin ctx.open => UpperBounds(ctx)[a] = 0
<1>1. ctx.caps \in [Actions -> Mass] /\ ctx.rate \in Mass
  BY ShieldAssumption DEF Contexts
<1>2. 0 \in Mass
  BY QPAssumption DEF Mass
<1>3. UpperBounds(ctx) \in [Actions -> Mass]
  BY <1>1, <1>2 DEF UpperBounds
<1>4. \A a \in Actions : UpperBounds(ctx)[a] = IF a \in Admitted(ctx) THEN ctx.caps[a] ELSE 0
  BY DEF UpperBounds
<1>5. \A a \in Actions : UpperBounds(ctx)[a] <= ctx.caps[a]
  BY <1>1, <1>4, QPAssumption DEF Mass
<1>6. ctx.open # {} => Admitted(ctx) = ctx.open
  BY DEF Admitted
<1> QED
  BY <1>1, <1>3, <1>4, <1>5, <1>6

\* The specification of a context is one of the schema's; its data are its caps,
\* its rate and one to share.
LEMMA SpecIsLowered ==
  ASSUME NEW ctx \in Contexts
  PROVE  /\ SpecOf[ctx] \in SafetySpecs
         /\ Lowered(SpecOf[ctx]).total = Units
         /\ Lowered(SpecOf[ctx]).lower = [a \in Index |-> 0]
         /\ Lowered(SpecOf[ctx]).upper = UpperBounds(ctx)
         /\ Lowered(SpecOf[ctx]).delta = [a \in Index |-> ctx.rate]
<1> DEFINE s == SpecOf[ctx]
<1>1. /\ s = [simplex |-> s.simplex, turn |-> s.turn, box |-> s.box, rate |-> s.rate,
              others |-> s.others]
      /\ s.simplex = Units /\ s.turn = {a \in Actions : UpperBounds(ctx)[a] > 0}
      /\ s.box = [lower |-> [a \in Actions |-> 0], upper |-> UpperBounds(ctx)]
      /\ s.rate = [a \in Actions |-> ctx.rate] /\ s.others = {}
  BY DEF SpecOf
<1> HIDE DEF s
<1>2. Actions = Index /\ Index = 1..Dim
  BY DEF Actions, Index
<1>3. Mass \subseteq Nat /\ Units \in Nat \ {0}
  BY QPAssumption DEF Mass
<1>4. s.box \in Boxes
  <2>1. s.box.lower = [a \in Index |-> 0] /\ s.box.upper = UpperBounds(ctx)
    BY <1>1, <1>2
  <2>2. UpperBounds(ctx) \in [Index -> Nat]
    BY <1>2, <1>3, UpperIsMass
  <2>3. s.box \in [lower : [Index -> Int], upper : [Index -> Int]]
    BY <1>1, <1>2, <2>2
  <2>4. \A i \in Index : s.box.lower[i] <= s.box.upper[i]
    BY <2>1, <2>2
  <2> QED
    BY <2>3, <2>4 DEF Boxes
<1>5. s.rate \in [Index -> Nat]
  BY <1>1, <1>2, <1>3, UpperIsMass
<1>6. s \in SafetySpecs
  BY <1>1, <1>2, <1>3, <1>4, <1>5 DEF SafetySpecs
<1>7. s.simplex # Absent
  BY <1>1, <1>3, AbsentAssumption
<1>8. s.box # Absent
  BY <1>2, <1>4, AbsentAssumption DEF Boxes
<1>9. s.rate # Absent
  BY <1>2, <1>5, AbsentAssumption
<1> QED
  BY <1>1, <1>2, <1>6, <1>7, <1>8, <1>9 DEF Lowered, s

\* A projector is bound to the specification it is asked for: one that is found
\* under its key and has its digest was bound to the same specification.
LEMMA EntryIsForSpec ==
  ASSUME CacheInv, NEW ctx \in Contexts
  PROVE  /\ EntryFor(SpecOf[ctx]) \in Entries
         /\ EntryFor(SpecOf[ctx]).spec = SpecOf[ctx]
<1> DEFINE s == SpecOf[ctx]
           k == StructuralKey(s)
<1>1. CASE ~Cached(k)
  <2>1. EntryFor(s) = [key |-> k, spec |-> s, digest |-> Signature(s), warm |-> NoStart]
    BY <1>1 DEF EntryFor
  <2> QED
    BY <2>1 DEF Entries
<1>2. CASE Cached(k)
  <2>1. Entry(k) \in Entries /\ Entry(k).key = k
    <3>1. Place(k) \in DOMAIN cache /\ cache[Place(k)].key = k
      BY <1>2 DEF Cached, Place
    <3>2. DOMAIN cache = 1..Len(cache)
      BY DEF CacheInv
    <3>3. cache[Place(k)] \in Entries
      BY <3>1, <3>2, ElementOfSeq DEF CacheInv
    <3> QED
      BY <3>1, <3>3 DEF Entry
  <2>2. PICK c \in Contexts, w \in {NoStart, episodeNo} :
          Entry(k) = [key |-> StructuralKey(SpecOf[c]), spec |-> SpecOf[c],
                      digest |-> Signature(SpecOf[c]), warm |-> w]
    BY <2>1 DEF Entries
  <2>3. EntryFor(s) = Bound(Entry(k), s)
    BY <1>2 DEF EntryFor
  <2>4. CASE Entry(k).digest # Signature(s)
    <3>2. StructuralKey(SpecOf[c]) = k
      BY <2>1, <2>2
    <3>3. PICK sig : sig = Signature(s)
      OBVIOUS
    <3>4. PICK e : e = Entry(k)
      OBVIOUS
    <3>5. Bound(e, s) = [e EXCEPT !.spec = s, !.digest = sig]
      BY <2>4, <3>3, <3>4 DEF Bound
    <3>6. PICK old : e = [key |-> k, spec |-> SpecOf[c], digest |-> old, warm |-> w]
      BY <2>2, <3>2, <3>4
    <3>7. PICK t : t = s
      OBVIOUS
    <3>8. [e EXCEPT !.spec = t] = [key |-> k, spec |-> t, digest |-> old, warm |-> w]
      BY <3>6
    <3>9. [e EXCEPT !.spec = t, !.digest = sig] = [[e EXCEPT !.spec = t] EXCEPT !.digest = sig]
      BY <3>6
    <3>11. PICK b : b = [e EXCEPT !.spec = t]
      OBVIOUS
    <3>13. b = [key |-> k, spec |-> t, digest |-> old, warm |-> w]
      BY <3>8, <3>11, Zenon
    <3>12. [b EXCEPT !.digest = sig] = [key |-> k, spec |-> t, digest |-> sig, warm |-> w]
      BY <3>13
    <3>10. [e EXCEPT !.spec = t, !.digest = sig]
             = [key |-> k, spec |-> t, digest |-> sig, warm |-> w]
      BY <3>9, <3>11, <3>12
    <3>1. Bound(Entry(k), s) = [key |-> k, spec |-> s, digest |-> Signature(s), warm |-> w]
      BY <3>3, <3>4, <3>5, <3>7, <3>10
    <3> QED
      BY <2>3, <3>1 DEF Entries
  <2>5. CASE Entry(k).digest = Signature(s)
    <3>1. StructuralKey(SpecOf[c]) = k /\ Signature(SpecOf[c]) = Signature(s)
      BY <2>1, <2>2, <2>5
    <3>2. \A d \in Contexts :
            SpecOf[d] = [simplex |-> SpecOf[d].simplex, turn |-> SpecOf[d].turn,
                         box |-> SpecOf[d].box, rate |-> SpecOf[d].rate, others |-> {}]
      BY DEF SpecOf
    <3>3. SpecOf[c].turn = s.turn
      BY <3>1 DEF StructuralKey
    <3>4. SpecOf[c].simplex = s.simplex /\ SpecOf[c].box = s.box /\ SpecOf[c].rate = s.rate
      BY <3>1 DEF Signature
    <3>5. SpecOf[c] = s
      BY <3>2, <3>3, <3>4
    <3>6. Bound(Entry(k), s) = Entry(k)
      BY <2>5 DEF Bound
    <3> QED
      BY <2>1, <2>2, <2>3, <3>5, <3>6
  <2> QED
    BY <2>4, <2>5
<1> QED
  BY <1>1, <1>2

\* Touching an entry leaves such entries.
LEMMA TouchKeepsEntries ==
  ASSUME CacheInv, NEW e \in Entries, Touch(e)
  PROVE  cache' \in Seq(Entries) /\ lent' \in {NoStart, episodeNo}
<1>1. PICK w \in {e.warm, NoStart, episodeNo} : cache' = Evicted(MostRecent([e EXCEPT !.warm = w]))
  BY DEF Touch
<1> DEFINE f == [e EXCEPT !.warm = w]
<1>2. f \in Entries
  BY DEF Entries
<1> HIDE DEF f
<1>3. cache \in Seq(Entries)
  BY DEF CacheInv
<1>4. ASSUME Cached(f.key) PROVE RemoveAt(cache, Place(f.key)) \in Seq(Entries)
  <2>1. Place(f.key) \in 1..Len(cache)
    BY <1>3, <1>4 DEF Cached, Place
  <2> DEFINE i == Place(f.key)
  <2>2. SubSeq(cache, 1, i - 1) \in Seq(Entries)
    BY <1>3, <2>1, SubSeqProperties
  <2>3. SubSeq(cache, i + 1, Len(cache)) \in Seq(Entries)
    BY <1>3, <2>1, SubSeqProperties
  <2> QED
    BY <2>2, <2>3, ConcatProperties DEF RemoveAt
<1>5. MostRecent(f) \in Seq(Entries) /\ MostRecent(f) # <<>>
  BY <1>2, <1>3, <1>4, AppendProperties DEF MostRecent
<1>6. Evicted(MostRecent(f)) \in Seq(Entries)
  BY <1>5, HeadTailProperties DEF Evicted
<1>7. e.warm \in {NoStart, episodeNo}
  BY DEF Entries
<1> QED
  BY <1>1, <1>6, <1>7 DEF f, Touch

\* What a solver returned and verification passed has the mass of one.
LEMMA ProjectionsAreDistributions ==
  ASSUME NEW ctx \in Contexts
  PROVE  Projections(SpecOf[ctx]) \subseteq Distributions
<1> SUFFICES ASSUME NEW x \in Projections(SpecOf[ctx]) PROVE x \in Distributions
  OBVIOUS
<1> DEFINE d == Lowered(SpecOf[ctx])
<1>1. x \in [Actions -> Mass] /\ Meets(x, Topology(d), d, previous)
  BY DEF Projections
<1>2. <<"simplex", 0>> \in Equalities(Topology(d))
  BY DEF Equalities
<1>3. Times(<<"simplex", 0>>, x) = Right(<<"simplex", 0>>, d, previous)
  BY <1>1, <1>2 DEF Meets
<1>4. Times(<<"simplex", 0>>, x) = TotalOf(x) /\ Right(<<"simplex", 0>>, d, previous) = d.total
  BY DEF Times, Right
<1> QED
  BY <1>1, <1>3, <1>4, SpecIsLowered DEF Distributions

\* Every call keeps the invariant.
LEMMA CacheInductive == CacheInv /\ [ShieldNext]_shieldVars => CacheInv'
<1> SUFFICES ASSUME CacheInv, [ShieldNext]_shieldVars PROVE CacheInv'
  OBVIOUS
<1>1. ASSUME NEW ctx \in Contexts, Decide(ctx) PROVE CacheInv'
  <2>1. cache' \in Seq(Entries) /\ lent' \in {NoStart, episodeNo}
    BY <1>1, EntryIsForSpec, TouchKeepsEntries DEF Decide
  <2>2. previous' \in Distributions
    BY <1>1, EntryIsForSpec, ProjectionsAreDistributions DEF Decide
  <2> QED
    BY <1>1, <2>1, <2>2 DEF CacheInv, Decide, Entries
<1>2. ASSUME NEW ctx \in Contexts, ProjectRaises(ctx) PROVE CacheInv'
  <2>1. cache' \in Seq(Entries) /\ lent' \in {NoStart, episodeNo}
    BY <1>2, EntryIsForSpec, TouchKeepsEntries DEF ProjectRaises
  <2> QED
    BY <1>2, <2>1 DEF CacheInv, ProjectRaises, Entries
<1>3. ASSUME NEW ctx \in Contexts, NEW o \in Owners, ProjectBatch(ctx, o)
      PROVE  CacheInv'
  <2> DEFINE k == StructuralKey(SpecOf[ctx])
  <2>1. k \in Keys
    BY DEF Keys
  <2>2. PICK w \in {batches[k][o], NoStart, episodeNo}, evicted \in SUBSET (Keys \ {k}) :
          batches' = [u \in Keys |-> IF u \in evicted THEN [p \in Owners |-> NoStart]
                                    ELSE IF u = k THEN [batches[k] EXCEPT ![o] = w]
                                    ELSE batches[u]]
    BY <1>3 DEF ProjectBatch, TouchBatch
  <2> HIDE DEF k
  <2>3. \A u \in Keys : batches[u] \in [Owners -> {NoStart, episodeNo}]
    BY DEF CacheInv
  <2>4. w \in {NoStart, episodeNo}
    BY <2>1, <2>2, <2>3
  <2>5. batches' \in [Keys -> [Owners -> {NoStart, episodeNo}]]
    BY <2>1, <2>2, <2>3, <2>4
  <2>6. lent' \in {NoStart, episodeNo} /\ UNCHANGED <<previous, cache, episodeNo>>
    BY <1>3, <2>1, <2>3 DEF ProjectBatch, TouchBatch, k
  <2> QED
    BY <2>5, <2>6 DEF CacheInv, Entries
<1>4. ASSUME NEW ctx \in Contexts, Refuse(ctx) PROVE CacheInv'
  BY <1>4 DEF CacheInv, Refuse, Entries
<1>5. CASE ResetEpisode
  <2>1. \A i \in 1..Len(cache) : [cache[i] EXCEPT !.warm = NoStart] \in Entries'
    <3> SUFFICES ASSUME NEW i \in 1..Len(cache)
                 PROVE  [cache[i] EXCEPT !.warm = NoStart] \in Entries'
      OBVIOUS
    <3>1. cache[i] \in Entries
      BY ElementOfSeq DEF CacheInv
    <3> QED
      BY <3>1 DEF Entries
  <2>2. cache' = [i \in 1..Len(cache) |-> [cache[i] EXCEPT !.warm = NoStart]]
    BY <1>5 DEF CacheInv, ResetEpisode
  <2>3. Len(cache) \in Nat
    BY DEF CacheInv
  <2>4. cache' \in Seq(Entries')
    BY <2>1, <2>2, <2>3, IsASeq
  <2> QED
    BY <1>5, <2>4 DEF CacheInv, ResetEpisode, ResetBatches
<1>6. CASE UNCHANGED shieldVars
  BY <1>6 DEF CacheInv, shieldVars, Entries
<1> QED
  BY <1>1, <1>2, <1>3, <1>4, <1>5, <1>6 DEF ShieldNext

\* Whatever contexts, errors and evictions came before, the cache holds entries
\* of contexts, and nothing of an earlier episode.
LEMMA CacheInvariant == ShieldSpec => []CacheInv
<1>1. ShieldInit => CacheInv
  BY DEF ShieldInit, CacheInv
<1> QED
  BY <1>1, CacheInductive, PTL DEF ShieldSpec

\* For any number of actions, any caps and rates and any size of the cache: no
\* solver is started from a warm start of an earlier episode, whichever cached
\* projector a call reaches.
THEOREM WarmStartsOfEpisode == ShieldSpec => []WarmStartsAreOfEpisode
<1>1. CacheInv => WarmStartsAreOfEpisode
  BY DEF CacheInv, WarmStartsAreOfEpisode
<1> QED
  BY <1>1, CacheInvariant, PTL

\* A distribution is a previous action.
LEMMA PreviousIsAction == CacheInv => previous \in Previous
  BY QPAssumption DEF CacheInv, Distributions, Previous, NoDist, Actions, Mass

\* Whatever any of the cached projectors is bound to: the four encodings of its
\* specification ask the same of an action, and report the same rows.
THEOREM CachedEncodingsAgree == ShieldSpec => []EncodingsAgree
<1>1. CacheInv => EncodingsAgree
  <2> SUFFICES ASSUME CacheInv, NEW i \in DOMAIN cache,
                      NEW x \in [Actions -> -1..Units + 1]
               PROVE  LET d == Lowered(cache[i].spec)
                      IN  OneMeaning(x, Topology(d), d, previous)
    BY DEF EncodingsAgree
  <2>1. cache[i] \in Entries
    BY ElementOfSeq DEF CacheInv
  <2>2. PICK ctx \in Contexts : cache[i].spec = SpecOf[ctx]
    BY <2>1 DEF Entries
  <2> DEFINE d == Lowered(cache[i].spec)
  <2>3. d \in Datas
    BY <2>2, SpecIsLowered, LoweredIsData
  <2> HIDE DEF d
  <2>4. Matches(d, Topology(d))
    BY DEF Matches, Topology, TopologyWith
  <2>5. x \in [Index -> Int]
    BY QPAssumption DEF Actions
  <2>6. Moderate(x, previous)
    <3>1. Units \in Nat /\ Units >= 1 /\ Huge \in Nat /\ Huge > 2 * Units
      BY QPAssumption, ShieldAssumption
    <3>2. \A j \in Index : x[j] \in Int /\ -1 <= x[j] /\ x[j] <= Units + 1
      BY <3>1 DEF Actions
    <3>3. previous # Absent =>
            \A j \in Index : previous[j] \in Int /\ 0 <= previous[j] /\ previous[j] <= Units
      BY <3>1 DEF CacheInv, Distributions, NoDist, Actions, Mass
    <3> QED
      BY <3>1, <3>2, <3>3 DEF Moderate
  <2> QED
    BY <2>3, <2>4, <2>5, <2>6, PreviousIsAction, EncodingsMeanTheSame DEF d
<1> QED
  BY <1>1, CacheInvariant, PTL

\* Every decision is one its own context allows: nothing on an action that is
\* blocked or above its cap, and within the rate of the previous decision.
THEOREM DecisionsFitContexts == ShieldSpec => DecisionFitsContext
<1> DEFINE Fits == asked' # NoContext =>
              \A a \in Actions :
                /\ asked'.open # {} /\ a \notin asked'.open => previous'[a] = 0
                /\ previous'[a] <= asked'.caps[a]
                /\ previous # NoDist => Near(previous'[a], previous[a], asked'.rate)
<1>1. CacheInv /\ [ShieldNext]_shieldVars => [Fits]_shieldVars
  <2> SUFFICES ASSUME CacheInv, ShieldNext, asked' # NoContext PROVE Fits
    OBVIOUS
  <2>1. PICK ctx \in Contexts : Decide(ctx)
    BY DEF ShieldNext, ProjectRaises, Refuse, ProjectBatch, ResetEpisode
  <2> DEFINE d == Lowered(SpecOf[ctx])
  <2>0. PICK y : y = previous'
    OBVIOUS
  <2>2. asked' = ctx /\ y \in Projections(SpecOf[ctx])
    BY <2>0, <2>1, EntryIsForSpec DEF Decide
  <2>3. y \in [Index -> Int] /\ Verified(y, d, previous)
    BY <2>2, QPAssumption DEF Projections, Actions, Mass
  <2>4. d \in Datas
    BY SpecIsLowered, LoweredIsData
  <2> HIDE DEF d
  <2>5. Admits(y, d, previous)
    BY <2>3, <2>4, PreviousIsAction, VerifiedMeansAdmits
  <2>6. /\ d.lower = [a \in Index |-> 0] /\ d.upper = UpperBounds(ctx)
        /\ d.delta = [a \in Index |-> ctx.rate]
    BY SpecIsLowered DEF d
  <2>7. \A a \in Index : 0 <= y[a] /\ y[a] <= UpperBounds(ctx)[a]
    BY <2>5, <2>6 DEF Admits
  <2>8. previous # NoDist => \A a \in Index : Near(y[a], previous[a], ctx.rate)
    BY <2>5, <2>6 DEF Admits, NoDist
  <2>9. ASSUME NEW a \in Index
        PROVE  /\ ctx.open # {} /\ a \notin ctx.open => y[a] = 0
               /\ y[a] <= ctx.caps[a]
    <3>1. y[a] \in Int /\ UpperBounds(ctx)[a] \in Int /\ ctx.caps[a] \in Int
      BY <2>3, UpperIsMass, QPAssumption DEF Actions, Mass
    <3>2. UpperBounds(ctx)[a] <= ctx.caps[a]
      BY UpperIsMass DEF Actions
    <3>3. ctx.open # {} /\ a \notin ctx.open => UpperBounds(ctx)[a] = 0
      BY UpperIsMass DEF Actions
    <3>4. 0 <= y[a] /\ y[a] <= UpperBounds(ctx)[a]
      BY <2>7
    <3>5. y[a] <= ctx.caps[a]
      BY <3>1, <3>2, <3>4
    <3>6. UpperBounds(ctx)[a] = 0 => y[a] = 0
      BY <3>1, <3>4
    <3> QED
      BY <3>3, <3>5, <3>6, Zenon
  <2> QED
    BY <2>0, <2>2, <2>8, <2>9 DEF Actions
<1> QED
  BY <1>1, CacheInvariant, PTL DEF ShieldSpec, DecisionFitsContext
=============================================================================
