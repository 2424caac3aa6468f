------------------------------- MODULE ShieldQP -------------------------------
(***************************************************************************)
(* What a SafetySpec asks of an action, in each of the forms the code      *)
(* gives it: the validated specification (specs/schema.py), the canonical  *)
(* data (specs/shield_qp.py), the rows of a compiled template and their    *)
(* fill (compilation), Moreau's standard form (native_moreau_builder.py),  *)
(* the constraints given to CVXPY (specs/compiler.py) and the residuals    *)
(* every candidate is verified by (verification).                          *)
(*                                                                         *)
(* Numbers are whole parts of 1/Units.  A row is named by what it bounds:  *)
(* its place in the arrays is left out.                                    *)
(***************************************************************************)
EXTENDS Integers, FiniteSetsExt

CONSTANTS Dim,        \* action_dim
          Units,      \* the parts one is divided into
          Huge,       \* the right side of an inactive rate row: 1e12
          Unlimited,  \* a max_delta of +inf
          Absent      \* no constraint of a kind, no previous action

ASSUME QPAssumption == /\ Dim \in Nat \ {0} /\ Units \in Nat \ {0} /\ Huge \in Nat
                       /\ Unlimited \notin Int

\* No constraint is none of the constraints there are.
ASSUME AbsentAssumption ==
  /\ Absent \notin Int
  /\ Absent \notin [lower : [1..Dim -> Int], upper : [1..Dim -> Int]]
  /\ Absent \notin [1..Dim -> Int \cup {Unlimited}]

Index == 1..Dim
TotalOf(x) == MapThenSumSet(LAMBDA i : x[i], DOMAIN x)
-----------------------------------------------------------------------------
(***************************************************************************)
(* Specifications.  Each kind of constraint appears at most once; others   *)
(* holds those that no projector implements.                               *)
(***************************************************************************)
Boxes == {b \in [lower : [Index -> Int], upper : [Index -> Int]] :
            \A i \in Index : b.lower[i] <= b.upper[i]}

SafetySpecs == [simplex : (Nat \ {0}) \cup {Absent},
                turn    : (SUBSET Index) \cup {Absent},
                box     : Boxes \cup {Absent},
                rate    : [Index -> Nat \cup {Unlimited}] \cup {Absent},
                others  : SUBSET {"progress", "clearance"}]

Kinds(s) == {k \in {"simplex", "turn", "box", "rate"} : s[k] # Absent} \cup s.others

\* Bounds and total of the actions left open can be met, and the others can
\* be zero.
Compatible(s) ==
  s.simplex # Absent /\ s.box # Absent =>
    LET open == IF s.turn = Absent THEN Index ELSE s.turn
    IN  /\ \A i \in Index \ open : s.box.lower[i] <= 0 /\ 0 <= s.box.upper[i]
        /\ TotalOf([i \in open |-> s.box.lower[i]]) <= s.simplex
        /\ s.simplex <= TotalOf([i \in open |-> s.box.upper[i]])

\* SafetySpec accepts s: an empty set of actions is refused under any policy.
Consistent(s) == Kinds(s) # {} /\ s.turn # {} /\ Compatible(s)

\* structural_fingerprint: the kinds and the admissible actions.
StructuralKey(s) == [kinds |-> Kinds(s), turn |-> s.turn]

\* numerical_signature: what may change on a structure.
Signature(s) == [simplex |-> s.simplex, box |-> s.box, rate |-> s.rate]

\* ShieldQPData, by parse_safety_spec_for_shield with its defaults, of a
\* specification without others.
Lowered(s) ==
  [total   |-> IF s.simplex = Absent THEN Units ELSE s.simplex,
   lower   |-> IF s.box = Absent THEN [i \in Index |-> 0] ELSE s.box.lower,
   upper   |-> IF s.box = Absent THEN [i \in Index |-> Units] ELSE s.box.upper,
   allowed |-> IF s.turn = Absent THEN Index ELSE s.turn,
   delta   |-> IF s.rate = Absent THEN [i \in Index |-> Unlimited] ELSE s.rate]
-----------------------------------------------------------------------------
(***************************************************************************)
(* The rows of a template and of the standard form.                        *)
(***************************************************************************)
RateIndices(d) == {i \in Index : d.delta[i] # Unlimited}

\* topology_from_shield_qp with include_rate_rows.
TopologyWith(d, use) ==
  [prohibited |-> Index \ d.allowed, use |-> use,
   rates      |-> IF use /\ RateIndices(d) = {} THEN Index ELSE RateIndices(d)]

Topology(d) == TopologyWith(d, RateIndices(d) # {})

\* assert_data_matches_topology
Matches(d, t) == TopologyWith(d, t.use) = t

RowsOf(k, S) == {<<k, i>> : i \in S}
BoxRows == RowsOf("box_lower", Index) \cup RowsOf("box_upper", Index)
RateRows(S) == RowsOf("rate_pos", S) \cup RowsOf("rate_neg", S)

Equalities(t) == {<<"simplex", 0>>} \cup RowsOf("prohibit", t.prohibited)
Inequalities(t) == BoxRows \cup (IF t.use THEN RateRows(t.rates) ELSE {})

\* A row of A times x: the constants of A are 1 and -1.
Times(row, x) == IF row[1] = "simplex" THEN TotalOf(x)
                 ELSE IF row[1] \in {"box_lower", "rate_neg"} THEN -x[row[2]]
                 ELSE x[row[2]]

Reach(delta) == IF delta = Unlimited THEN Huge ELSE delta

\* MUTANT of Relaxed: without a previous action the rate rows keep their zero.
RelaxedNot(p, b) == IF p = Absent THEN 0 ELSE b

\* "inactive rate rows": b, or no limit without a previous action.
Relaxed(p, b) == IF p = Absent THEN Huge ELSE b

\* What CompiledShieldTemplate.fill writes into b for row; p is the previous
\* action.
Right(row, d, p) ==
  IF row[1] = "simplex" THEN d.total
  ELSE IF row[1] = "prohibit" THEN 0
  ELSE LET i == row[2]
       IN  [box_lower |-> -d.lower[i],
            box_upper |-> d.upper[i],
            rate_pos  |-> Relaxed(p, p[i] + Reach(d.delta[i])),
            rate_neg  |-> Relaxed(p, Reach(d.delta[i]) - p[i])][row[1]]

\* x meets the rows of t, filled for d and p: A x = b and A x <= b.
Meets(x, t, d, p) ==
  /\ \A row \in Equalities(t) : Times(row, x) = Right(row, d, p)
  /\ \A row \in Inequalities(t) : Times(row, x) <= Right(row, d, p)

\* build_moreau_standard_form leaves rate rows out where fill relaxes them.
StandardRows(d, p) == [TopologyWith(d, FALSE) EXCEPT !.use = p # Absent]
-----------------------------------------------------------------------------
(***************************************************************************)
(* The constraints of CVXPY, and verification.                             *)
(***************************************************************************)
Near(u, v, delta) == delta = Unlimited \/ (u - v <= delta /\ v - u <= delta)

\* The constraints CVXPYMoreauProjector and the public projectors state: what
\* ShieldQPData means.
Admits(x, d, p) ==
  /\ TotalOf(x) = d.total
  /\ \A i \in Index : d.lower[i] <= x[i] /\ x[i] <= d.upper[i]
  /\ \A i \in Index \ d.allowed : x[i] = 0
  /\ p # Absent => \A i \in Index : Near(x[i], p[i], d.delta[i])

Excess(a) == IF a > 0 THEN a ELSE 0
Distance(u, v) == IF u > v THEN u - v ELSE v - u

\* evaluate_residuals: each is a violation, zero where there is none.
Residuals(x, d, p) ==
  [equality   |-> {Distance(TotalOf(x), d.total)}
                    \cup {Distance(x[i], 0) : i \in Index \ d.allowed},
   inequality |-> {Excess(d.lower[i] - x[i]) : i \in Index}
                    \cup {Excess(x[i] - d.upper[i]) : i \in Index}
                    \cup (IF p = Absent THEN {}
                          ELSE {Excess(Distance(x[i], p[i]) - d.delta[i]) : i \in RateIndices(d)})]

\* residuals_within_tolerance, in exact numbers.
Verified(x, d, p) ==
  LET r == Residuals(x, d, p)
  IN  \A e \in r.equality \cup r.inequality : e <= 0

\* active_constraints_from_residuals, under the names of the rows.
ActiveSet(x, d, p) ==
  {<<"simplex", 0>> : i \in {j \in {0} : TotalOf(x) = d.total}}
    \cup {<<"box_lower", i>> : i \in {j \in Index : x[j] = d.lower[j]}}
    \cup {<<"box_upper", i>> : i \in {j \in Index : x[j] = d.upper[j]}}
    \cup {<<"prohibit", i>> : i \in {j \in Index \ d.allowed : x[j] = 0}}
    \cup (IF p = Absent THEN {}
          ELSE {<<"rate_pos", i>> : i \in {j \in RateIndices(d) : x[j] - p[j] = d.delta[j]}}
                 \cup {<<"rate_neg", i>> : i \in {j \in RateIndices(d) : x[j] - p[j] = -d.delta[j]}})

\* The rows of t that hold with equality: A x - b is zero there.
TightRows(x, t, d, p) ==
  {row \in Equalities(t) \cup Inequalities(t) : Times(row, x) = Right(row, d, p)}
-----------------------------------------------------------------------------
\* One meaning: a template that accepts the data asks of x what CVXPY, the
\* standard form and the verification do, and its tight rows are those reported
\* as active.
OneMeaning(x, t, d, p) ==
  /\ Meets(x, t, d, p) <=> Admits(x, d, p)
  /\ Meets(x, StandardRows(d, p), d, p) <=> Admits(x, d, p)
  /\ Verified(x, d, p) <=> Admits(x, d, p)
  /\ ActiveSet(x, d, p) = TightRows(x, t, d, p)
=============================================================================
