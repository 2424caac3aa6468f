--------------------------- MODULE ResearchProofs ---------------------------
(***************************************************************************)
(* Proofs about the research programs, for every value of the constants    *)
(* that the modules assume: the safety filter, its receding horizon, its   *)
(* batches and the gate in front of the loop, with any answers of the      *)
(* solver; the observatory of gradients; and the shadow studies, with      *)
(* any solves, whether or not limits of time make them differ.             *)
(***************************************************************************)
EXTENDS ResearchPrograms, FiniteSetTheorems, SequenceTheorems,
        WellFoundedInduction, TLAPS

(***************************************************************************)
(* Arithmetic.                                                             *)
(***************************************************************************)

\* A product of two factors of which one is at least zero.
LEMMA Cancel ==
  ASSUME NEW d \in Nat \ {0}, NEW x \in Int, d * x >= 0
  PROVE  x >= 0
  OBVIOUS

\* Products and squares are at least zero.
LEMMA ProductNat ==
  ASSUME NEW x \in Int, NEW y \in Int, x >= 0, y >= 0
  PROVE  x * y \in Int /\ x * y >= 0
  OBVIOUS

\* A square is at least zero.
LEMMA SquareNat == ASSUME NEW x \in Int PROVE x * x \in Int /\ x * x >= 0
  OBVIOUS

\* The barrier after a step, by the barrier before it.
LEMMA Expand ==
  ASSUME NEW x \in Int, NEW y \in Int, NEW s \in Int, NEW t \in Int, NEW q \in Int
  PROVE  (x + s) * (x + s) + (y + t) * (y + t) - q
           = (x * x + y * y - q) + 2 * (x * s + y * t) + (s * s + t * t)
  OBVIOUS

\* A discrete barrier condition: a step that takes from h at most a fraction n/d
\* of it leaves the rest.
LEMMA Kept ==
  ASSUME NEW n \in Nat, NEW d \in Nat \ {0},
         NEW h \in Int, NEW g \in Int, NEW w \in Int,
         w >= 0, d * g + n * h >= 0
  PROVE  d * (h + g + w) >= (d - n) * h
<1>1. d * w \in Int /\ d * w >= 0 BY ProductNat
<1>2. d * (h + g + w) = d * h + d * g + d * w OBVIOUS
<1>3. (d - n) * h = d * h - n * h OBVIOUS
<1>4. d * h \in Int /\ d * g \in Int /\ n * h \in Int OBVIOUS
<1> QED BY <1>1, <1>2, <1>3, <1>4

\* A scalar product is at most the product of the lengths.
LEMMA CauchySchwarz ==
  ASSUME NEW s \in Int, NEW t \in Int, NEW x \in Int, NEW y \in Int
  PROVE  (s * x + t * y) * (s * x + t * y) <= (s * s + t * t) * (x * x + y * y)
<1> DEFINE k == s * y - t * x
<1>1. k \in Int OBVIOUS
<1>2. k * k >= 0 BY <1>1, SquareNat
<1>3. (s * s + t * t) * (x * x + y * y)
        = (s * x + t * y) * (s * x + t * y) + k * k
  OBVIOUS
<1>4. (s * x + t * y) * (s * x + t * y) \in Int OBVIOUS
<1> HIDE DEF k
<1> QED BY <1>1, <1>2, <1>3, <1>4

\* Greater factors that are at least zero have the greater product.
LEMMA Monotone ==
  ASSUME NEW a \in Int, NEW b \in Int, NEW c \in Int, NEW d \in Int,
         0 <= a, a <= b, 0 <= c, c <= d
  PROVE  a * c <= b * d
<1>1. a * c <= b * c BY (b - a) * c >= 0, ProductNat
<1>2. b * c <= b * d BY b * (d - c) >= 0, ProductNat
<1> QED BY <1>1, <1>2

\* What is at least sqrt(r) + sqrt(s) outweighs two numbers whose squares are
\* at most s and r.
LEMMA RootsSuffice ==
  ASSUME NEW x \in Int, NEW r \in Int, NEW s \in Int, NEW a \in Int, NEW b \in Int,
         AtLeastRoots(x, r, s), a * a <= s, b * b <= r
  PROVE  x + a + b >= 0
<1> DEFINE y == x * x - r - s
<1>1. y \in Int /\ x >= 0 /\ y >= 0 /\ (y >= r + s \/ y * y >= 4 * r * s)
  BY DEF AtLeastRoots
<1> SUFFICES ASSUME x + a + b < 0 PROVE FALSE OBVIOUS
<1>2. x * x < (a + b) * (a + b)
  <2>1. x * x <= x * (-(a + b)) BY <1>1, x * (-(a + b) - x) >= 0, ProductNat
  <2>2. -(a + b) > 0 BY <1>1
  <2>3. x * (-(a + b)) < (a + b) * (a + b)
    <3> DEFINE c == -(a + b)
    <3>1. c \in Int /\ c >= x + 1 /\ c > 0 BY <2>2
    <3>2. c * (c - x - 1) >= 0 BY <3>1, ProductNat
    <3>3. c * c >= x * c + c BY <3>1, <3>2
    <3>4. c * c = (a + b) * (a + b) OBVIOUS
    <3> QED BY <3>1, <3>3, <3>4
  <2> QED BY <2>1, <2>3
<1>3. (a + b) * (a + b) = a * a + b * b + 2 * (a * b) OBVIOUS
<1>4. y < 2 * (a * b) BY <1>2, <1>3
<1>5. 2 * (a * b) <= a * a + b * b
  <2>1. (a - b) * (a - b) >= 0 BY SquareNat
  <2>2. (a - b) * (a - b) = a * a + b * b - 2 * (a * b) OBVIOUS
  <2> QED BY <2>1, <2>2
<1>6. ~(y >= r + s) BY <1>1, <1>4, <1>5
<1>7. y * y < 4 * r * s
  <2>1. y * y < (2 * (a * b)) * (2 * (a * b))
    <3> DEFINE z == 2 * (a * b)
    <3>1. z \in Int /\ y + 1 <= z /\ z > 0 BY <1>1, <1>4
    <3>2. y * y <= y * z BY <1>1, <3>1, Monotone
    <3>3. y * z <= z * z - z
      <4>1. (z - y - 1) * z >= 0 BY <1>1, <3>1, ProductNat
      <4> HIDE DEF y, z
      <4> QED BY <1>1, <3>1, <4>1
    <3>4. y * y \in Int /\ y * z \in Int /\ z * z \in Int BY <1>1, <3>1
    <3> HIDE DEF y, z
    <3>5. y * y < z * z BY <3>1, <3>2, <3>3, <3>4
    <3> QED BY <3>5 DEF z
  <2>2. (2 * (a * b)) * (2 * (a * b)) = 4 * ((b * b) * (a * a)) OBVIOUS
  <2>3. (b * b) * (a * a) <= r * s BY SquareNat, Monotone
  <2>4. (b * b) * (a * a) \in Int /\ r * s \in Int /\ 4 * r * s = 4 * (r * s) OBVIOUS
  <2>5. y * y \in Int BY <1>1
  <2> HIDE DEF y
  <2> QED BY <2>1, <2>2, <2>3, <2>4, <2>5
<1> QED BY <1>1, <1>6, <1>7

-----------------------------------------------------------------------------
(***************************************************************************)
(* One step of the filter.                                                 *)
(***************************************************************************)

\* The barrier of a place in the plane is a number.
LEMMA BarrierInt ==
  ASSUME NEW case \in Cases, NEW p \in Plane
  PROVE  Barrier(p, case) \in Int
  BY DEF Barrier, Cases, Plane, Dot, Minus

\* The barrier after a displacement.
LEMMA BarrierAfter ==
  ASSUME NEW case \in Cases, NEW p \in Plane, NEW u \in Plane
  PROVE  Barrier(Plus(p, u), case)
           = Barrier(p, case) + 2 * Dot(Minus(p, case.center), u) + Dot(u, u)
<1>1. /\ p[1] \in Int /\ p[2] \in Int /\ u[1] \in Int /\ u[2] \in Int
      /\ case.center[1] \in Int /\ case.center[2] \in Int /\ case.radius \in Int
  BY DEF Cases, Plane
<1> DEFINE x == p[1] - case.center[1]
           y == p[2] - case.center[2]
           q == case.radius * case.radius
<1>2. x \in Int /\ y \in Int /\ q \in Int BY <1>1
<1>3. (x + u[1]) * (x + u[1]) + (y + u[2]) * (y + u[2]) - q
        = (x * x + y * y - q) + 2 * (x * u[1] + y * u[2]) + (u[1] * u[1] + u[2] * u[2])
  BY <1>1, <1>2, Expand
<1>4. /\ Barrier(p, case) = x * x + y * y - q
      /\ Dot(Minus(p, case.center), u) = x * u[1] + y * u[2]
      /\ Dot(u, u) = u[1] * u[1] + u[2] * u[2]
  BY <1>1 DEF Barrier, Dot, Minus
<1>5. Barrier(Plus(p, u), case) = (x + u[1]) * (x + u[1]) + (y + u[2]) * (y + u[2]) - q
  <2>1. /\ Plus(p, u)[1] = p[1] + u[1]
        /\ Plus(p, u)[2] = p[2] + u[2]
    BY DEF Plus
  <2>2. Minus(Plus(p, u), case.center)
          = <<Plus(p, u)[1] - case.center[1], Plus(p, u)[2] - case.center[2]>>
    BY DEF Minus
  <2>3. /\ Plus(p, u)[1] - case.center[1] = x + u[1]
        /\ Plus(p, u)[2] - case.center[2] = y + u[2]
    BY <1>1, <2>1
  <2>4. Minus(Plus(p, u), case.center) = <<x + u[1], y + u[2]>> BY <2>2, <2>3
  <2> HIDE DEF x, y, q
  <2>5. Dot(<<x + u[1], y + u[2]>>, <<x + u[1], y + u[2]>>)
          = (x + u[1]) * (x + u[1]) + (y + u[2]) * (y + u[2])
    BY DEF Dot
  <2>6. Barrier(Plus(p, u), case) = Dot(Minus(Plus(p, u), case.center),
                                        Minus(Plus(p, u), case.center)) - q
    BY Zenon DEF Barrier, q
  <2>7. Barrier(Plus(p, u), case)
          = ((x + u[1]) * (x + u[1]) + (y + u[2]) * (y + u[2])) - q
    BY <2>4, <2>5, <2>6, Zenon
  <2> QED BY <1>1, <1>2, <2>7
<1> QED BY <1>3, <1>4, <1>5

\* A step that leaves of the barrier all but a fraction of at most one of it
\* stays outside.
LEMMA KeepsOutside ==
  ASSUME NEW case \in Cases, NEW p \in Plane, NEW q \in Plane, Num <= Den,
         Outside(p, case), Keeps(case, p, q)
  PROVE  Outside(q, case)
<1> DEFINE h == Barrier(p, case)
           z == Barrier(q, case)
<1>1. h \in Int /\ z \in Int BY BarrierInt
<1>2. h >= 0 BY DEF Outside
<1>3. Den * z >= (Den - Num) * h BY DEF Keeps
<1> HIDE DEF h, z
<1>4. Den - Num \in Int /\ Den - Num >= 0 /\ Den \in Nat \ {0} BY CbfAssumption
<1>5. (Den - Num) * h \in Int /\ (Den - Num) * h >= 0 BY <1>1, <1>2, <1>4, ProductNat
<1>6. Den * z \in Int /\ Den * z >= 0 BY <1>1, <1>3, <1>4, <1>5
<1>7. z >= 0 BY <1>1, <1>4, <1>6, Cancel
<1> QED BY <1>7 DEF Outside, z

\* The affine condition leaves of the barrier what a step should leave.
LEMMA AffineKeeps ==
  ASSUME NEW case \in Cases, NEW u \in Plane, Slack(case, u) >= 0
  PROVE  Keeps(case, case.at, Plus(case.at, u))
<1> DEFINE h == Barrier(case.at, case)
           g == 2 * Dot(Minus(case.at, case.center), u)
           w == Dot(u, u)
<1>1. case.at \in Plane BY DEF Cases
<1>2. h \in Int BY <1>1, BarrierInt
<1>3. g \in Int /\ w \in Int BY DEF Cases, Plane, Dot, Minus
<1>4. w >= 0
  <2>1. u[1] \in Int /\ u[2] \in Int BY DEF Plane
  <2> QED BY <2>1, SquareNat DEF Dot
<1>5. Den * g + Num * h >= 0 BY DEF Slack
<1>6. Den * (h + g + w) >= (Den - Num) * h
  <2> HIDE DEF h, g, w
  <2> QED BY <1>2, <1>3, <1>4, <1>5, CbfAssumption, Kept
<1>7. Barrier(Plus(case.at, u), case) = h + g + w BY <1>1, BarrierAfter
<1> QED BY <1>6, <1>7, Zenon DEF Keeps, h

\* What a displacement within the noise takes from a product, at most.
LEMMA Scaled ==
  ASSUME NEW k \in Int, NEW e \in Int, NEW s \in Int, NEW t \in Int,
         NEW x \in Int, NEW y \in Int, s * s + t * t <= e
  PROVE  (2 * k * (s * x + t * y)) * (2 * k * (s * x + t * y))
           <= 4 * k * k * e * (x * x + y * y)
<1> DEFINE c == s * x + t * y
           f == s * s + t * t
           g == x * x + y * y
<1>1. /\ c \in Int /\ f \in Int /\ g \in Int /\ f <= e
      /\ c * c \in Int /\ f * g \in Int /\ e * g \in Int /\ k * k \in Int
  OBVIOUS
<1>2. c * c <= f * g BY CauchySchwarz
<1>3. f >= 0 /\ g >= 0 /\ k * k >= 0 BY SquareNat
<1> HIDE DEF c, f, g
<1>4. f * g <= e * g BY <1>1, <1>3, Monotone
<1>5. c * c <= e * g BY <1>1, <1>2, <1>4
<1>6. (k * k) * (e * g - c * c) >= 0 BY <1>1, <1>3, <1>5, ProductNat
<1>7. (k * k) * (e * g - c * c) = (k * k) * (e * g) - (k * k) * (c * c) BY <1>1
<1>8. (2 * k * c) * (2 * k * c) = 4 * ((k * k) * (c * c)) BY <1>1
<1>9. 4 * k * k * e * g = 4 * ((k * k) * (e * g)) BY <1>1
<1>10. (2 * k * c) * (2 * k * c) <= 4 * k * k * e * g
  <2> DEFINE m == (k * k) * (c * c)
             n == (k * k) * (e * g)
  <2>1. m \in Int /\ n \in Int BY <1>1
  <2> HIDE DEF m, n
  <2>2. n - m >= 0 BY <1>6, <1>7 DEF m, n
  <2>3. (2 * k * c) * (2 * k * c) = 4 * m /\ 4 * k * k * e * g = 4 * n
    BY <1>8, <1>9 DEF m, n
  <2> QED BY <2>1, <2>2, <2>3
<1> QED BY <1>10 DEF c, g

\* A displacement within the noise takes no more from the slack of a control
\* than the robust condition leaves.
LEMMA NoiseOutweighed ==
  ASSUME NEW case \in Cases, NEW u \in Plane, NEW d \in Plane,
         Dot(d, d) <= Epsilon * Epsilon, RobustHolds(case, u)
  PROVE  Slack(case, u) - Num * Epsilon * Epsilon
           + 2 * Num * Dot(d, Minus(case.at, case.center)) + 2 * Den * Dot(d, u) >= 0
<1> DEFINE a == Minus(case.at, case.center)
           e == Epsilon * Epsilon
           A == 2 * Num * Dot(d, a)
           B == 2 * Den * Dot(d, u)
           X == Slack(case, u) - Num * Epsilon * Epsilon
<1>1. /\ case.at \in Plane /\ a \in Plane
      /\ Num \in Int /\ Den \in Int /\ e \in Int /\ Epsilon \in Int
  BY CbfAssumption DEF Cases, Plane, Minus
<1>2. /\ d[1] \in Int /\ d[2] \in Int /\ u[1] \in Int /\ u[2] \in Int
      /\ a[1] \in Int /\ a[2] \in Int
      /\ Dot(d, d) = d[1] * d[1] + d[2] * d[2]
      /\ Dot(u, u) = u[1] * u[1] + u[2] * u[2]
      /\ Dot(a, a) = a[1] * a[1] + a[2] * a[2]
      /\ Dot(d, u) = d[1] * u[1] + d[2] * u[2]
      /\ Dot(d, a) = d[1] * a[1] + d[2] * a[2]
      /\ Dot(a, u) = a[1] * u[1] + a[2] * u[2]
  BY <1>1 DEF Plane, Dot
<1>3. /\ Dot(u, u) \in Int /\ Dot(a, a) \in Int /\ Dot(d, u) \in Int
      /\ Dot(d, a) \in Int /\ Dot(a, u) \in Int
      /\ Barrier(case.at, case) \in Int /\ A \in Int /\ B \in Int
  <2>1. Barrier(case.at, case) \in Int BY <1>1, BarrierInt
  <2> HIDE DEF a
  <2> QED BY <1>1, <1>2, <2>1
<1>4. A * A <= NoiseOfBarrier(case)
  <2>1. A * A <= 4 * Num * Num * e * Dot(a, a)
    <3>1. d[1] * d[1] + d[2] * d[2] <= e BY <1>2
    <3> HIDE DEF a, e
    <3>2. (2 * Num * (d[1] * a[1] + d[2] * a[2])) * (2 * Num * (d[1] * a[1] + d[2] * a[2]))
            <= 4 * Num * Num * e * (a[1] * a[1] + a[2] * a[2])
      BY <1>1, <1>2, <3>1, Scaled
    <3> QED BY <1>2, <3>2
  <2>2. 4 * Num * Num * e * Dot(a, a) = 4 * Num * Num * Epsilon * Epsilon * Dot(a, a)
    <3> HIDE DEF a
    <3> QED BY <1>1, <1>3
  <2> QED BY <2>1, <2>2 DEF NoiseOfBarrier
<1>5. B * B <= NoiseOfControl(u)
  <2>1. B * B <= 4 * Den * Den * e * Dot(u, u)
    <3>1. d[1] * d[1] + d[2] * d[2] <= e BY <1>2
    <3> HIDE DEF e
    <3>2. (2 * Den * (d[1] * u[1] + d[2] * u[2])) * (2 * Den * (d[1] * u[1] + d[2] * u[2]))
            <= 4 * Den * Den * e * (u[1] * u[1] + u[2] * u[2])
      BY <1>1, <1>2, <3>1, Scaled
    <3> QED BY <1>2, <3>2
  <2>2. 4 * Den * Den * e * Dot(u, u) = 4 * Den * Den * Epsilon * Epsilon * Dot(u, u)
    BY <1>1, <1>3
  <2> QED BY <2>1, <2>2 DEF NoiseOfControl
<1>6. X \in Int /\ NoiseOfControl(u) \in Int /\ NoiseOfBarrier(case) \in Int
  <2>1. Slack(case, u) = Den * (2 * Dot(a, u)) + Num * Barrier(case.at, case) BY DEF Slack
  <2>2. NoiseOfBarrier(case) = 4 * Num * Num * Epsilon * Epsilon * Dot(a, a)
    BY DEF NoiseOfBarrier
  <2> HIDE DEF a
  <2> QED BY <1>1, <1>3, <2>1, <2>2 DEF NoiseOfControl
<1>7. X + A + B >= 0
  <2>1. AtLeastRoots(X, NoiseOfControl(u), NoiseOfBarrier(case)) BY DEF RobustHolds
  <2> HIDE DEF X, A, B
  <2> QED BY <1>3, <1>4, <1>5, <1>6, <2>1, RootsSuffice
<1> QED BY <1>7

\* A control that meets the robust condition at the observed position leaves of
\* the barrier what it should, wherever within the noise the agent really is.
LEMMA RobustKeeps ==
  ASSUME NEW case \in Cases, NEW u \in Plane, NEW d \in Plane,
         Dot(d, d) <= Epsilon * Epsilon, RobustHolds(case, u)
  PROVE  Keeps(case, Plus(case.at, d), Plus(Plus(case.at, d), u))
<1> DEFINE a == Minus(case.at, case.center)
           e == Epsilon * Epsilon
           p == Plus(case.at, d)
           N == Barrier(p, case)
           A == 2 * Num * Dot(d, a)
           B == 2 * Den * Dot(d, u)
           X == Slack(case, u) - Num * Epsilon * Epsilon
           w == Dot(u, u)
           v == Dot(d, d)
<1>1. /\ case.at \in Plane /\ a \in Plane /\ p \in Plane
      /\ Num \in Int /\ Den \in Int /\ e \in Int /\ Epsilon \in Int
  BY CbfAssumption DEF Cases, Plane, Minus, Plus
<1>2. /\ d[1] \in Int /\ d[2] \in Int /\ u[1] \in Int /\ u[2] \in Int
      /\ a[1] \in Int /\ a[2] \in Int
      /\ Dot(d, d) = d[1] * d[1] + d[2] * d[2]
      /\ Dot(u, u) = u[1] * u[1] + u[2] * u[2]
      /\ Dot(a, a) = a[1] * a[1] + a[2] * a[2]
      /\ Dot(d, u) = d[1] * u[1] + d[2] * u[2]
      /\ Dot(d, a) = d[1] * a[1] + d[2] * a[2]
      /\ Dot(a, u) = a[1] * u[1] + a[2] * u[2]
      /\ Dot(a, d) = a[1] * d[1] + a[2] * d[2]
  BY <1>1 DEF Plane, Dot
<1>3. /\ w \in Int /\ v \in Int /\ Dot(a, a) \in Int /\ Dot(d, u) \in Int
      /\ Dot(d, a) \in Int /\ Dot(a, u) \in Int /\ Dot(a, d) = Dot(d, a)
      /\ N \in Int /\ Barrier(case.at, case) \in Int /\ A \in Int /\ B \in Int
  <2>1. N \in Int /\ Barrier(case.at, case) \in Int BY <1>1, BarrierInt
  <2> HIDE DEF a, N
  <2> QED BY <1>1, <1>2, <2>1
<1>4. w >= 0 /\ v >= 0
  BY <1>2, SquareNat
<1>5. X + A + B >= 0
  <2>1. Slack(case, u) - Num * Epsilon * Epsilon + 2 * Num * Dot(d, a) + 2 * Den * Dot(d, u) >= 0
    BY <1>1, NoiseOutweighed
  <2> QED BY <2>1
<1>6. N = Barrier(case.at, case) + 2 * Dot(d, a) + v BY <1>1, <1>3, BarrierAfter
<1>7. Barrier(Plus(p, u), case) = N + 2 * (Dot(a, u) + Dot(d, u)) + w
  <2>1. Barrier(Plus(p, u), case) = N + 2 * Dot(Minus(p, case.center), u) + w
    BY <1>1, BarrierAfter
  <2>2. Minus(p, case.center)[1] = a[1] + d[1] /\ Minus(p, case.center)[2] = a[2] + d[2]
    BY DEF Minus, Plus, Cases, Plane
  <2>3. Dot(Minus(p, case.center), u) = (a[1] + d[1]) * u[1] + (a[2] + d[2]) * u[2]
    BY <2>2 DEF Dot
  <2>4. (a[1] + d[1]) * u[1] + (a[2] + d[2]) * u[2] = Dot(a, u) + Dot(d, u)
    <3> HIDE DEF a
    <3> QED BY <1>2
  <2> QED BY <2>1, <2>3, <2>4
<1> DEFINE b == Barrier(case.at, case)
           s == Dot(a, u)
           t == Dot(d, u)
           r == Dot(d, a)
           z == Barrier(Plus(p, u), case)
<1>8. X = Den * (2 * s) + Num * b - Num * e
  <2>1. X = (Den * (2 * s) + Num * b) - Num * Epsilon * Epsilon BY DEF Slack
  <2>2. Num * Epsilon * Epsilon = Num * e BY <1>1
  <2>3. s \in Int /\ b \in Int /\ e \in Int BY <1>1, <1>3
  <2> HIDE DEF X, s, b, e
  <2> QED BY <1>1, <2>1, <2>2, <2>3
<1>9. Den * z >= (Den - Num) * N
  <2>1. /\ b \in Int /\ s \in Int /\ t \in Int /\ r \in Int /\ w \in Int /\ v \in Int
        /\ N \in Int /\ e \in Int /\ Num \in Int /\ Den \in Int
    BY <1>1, <1>3
  <2>2. e >= 0 BY <1>1, SquareNat
  <2>3. /\ z = N + 2 * (s + t) + w /\ b = N - 2 * r - v
        /\ Den * (2 * s) + Num * b - Num * e + 2 * Num * r + 2 * Den * t >= 0
    BY <1>3, <1>5, <1>6, <1>7, <1>8
  <2> HIDE DEF a, e, p, N, A, B, X, w, v, b, s, t, r, z
  <2>4. z \in Int BY <2>1, <2>3
  <2>5. Den * z = (Den - Num) * N + (Den * (2 * s) + Num * b - Num * e + 2 * Num * r
                                     + 2 * Den * t) + Num * e + Num * v + Den * w
    <3>1. Den * z = Den * N + 2 * (Den * s) + 2 * (Den * t) + Den * w BY <2>1, <2>3
    <3>2. Num * b = Num * N - 2 * (Num * r) - Num * v BY <2>1, <2>3
    <3>3. Den * (2 * s) = 2 * (Den * s) /\ 2 * Num * r = 2 * (Num * r)
          /\ 2 * Den * t = 2 * (Den * t) /\ (Den - Num) * N = Den * N - Num * N
      BY <2>1
    <3>4. /\ Den * s \in Int /\ Den * t \in Int /\ Num * r \in Int /\ Num * b \in Int
          /\ Num * N \in Int /\ Den * N \in Int /\ Num * v \in Int /\ Den * w \in Int
          /\ Num * e \in Int /\ Den * z \in Int
      BY <2>1, <2>4
    <3> QED BY <3>1, <3>2, <3>3, <3>4
  <2>6. /\ Num * e >= 0 /\ Num * v >= 0 /\ Den * w >= 0
        /\ (Den - Num) * N \in Int /\ Num * e \in Int /\ Num * v \in Int
        /\ Den * w \in Int
    BY <1>4, <2>1, <2>2, CbfAssumption, ProductNat
  <2> DEFINE k == Den * (2 * s) + Num * b - Num * e + 2 * Num * r + 2 * Den * t
  <2>7. k \in Int /\ k >= 0 BY <2>1, <2>3
  <2> HIDE DEF k
  <2>8. Den * z = (Den - Num) * N + k + Num * e + Num * v + Den * w BY <2>5 DEF k
  <2> QED BY <2>4, <2>6, <2>7, <2>8
<1> QED BY <1>9, Zenon DEF Keeps, z, N, p

\* Only the position of an agent changes as it moves.
LEMMA SameObstacle ==
  ASSUME NEW case \in Cases, NEW q \in Plane, NEW p \in Plane
  PROVE  /\ [case EXCEPT !.at = q] \in Cases
         /\ [case EXCEPT !.at = q].at = q
         /\ Outside(p, [case EXCEPT !.at = q]) <=> Outside(p, case)
         /\ \A r : Keeps([case EXCEPT !.at = q], p, r) <=> Keeps(case, p, r)
<1>1. /\ [case EXCEPT !.at = q] \in Cases
      /\ [case EXCEPT !.at = q].at = q
      /\ [case EXCEPT !.at = q].center = case.center
      /\ [case EXCEPT !.at = q].radius = case.radius
  BY DEF Cases
<1> QED BY <1>1 DEF Outside, Keeps, Barrier

\* A result that verification passed holds a control that meets the constraints
\* it was verified against, and that the loop applies.
LEMMA VerifiedControl ==
  ASSUME NEW mode, NEW baseline, NEW case \in Cases,
         NEW r \in FilterResults(mode, case, baseline), r.passed
  PROVE  /\ r.u \in Plane /\ Feasible(r)
         /\ Slack(case, r.u) >= 0 /\ Holds(mode, case, r.u)
<1>1. CASE baseline = "no_filter"
  <2>1. r = Unfiltered(mode, case) BY <1>1 DEF FilterResults
  <2>2. r.passed = Passed("nominal_stage1_cbf", case, case.wants, "no_filter")
    BY <2>1 DEF Unfiltered, Result
  <2>3. MapStatus("no_filter") # "optimal" BY DEF MapStatus
  <2> QED BY <2>2, <2>3 DEF Passed
<1>2. CASE baseline # "no_filter" /\ baseline \in {"moreau_filter", "exact_vs_smoothed"}
  <2>1. r = Unavailable(case) BY <1>2 DEF FilterResults
  <2>2. r.passed = Passed("nominal_stage1_cbf", case, NaN, "unavailable")
    BY <2>1 DEF Unavailable, Result
  <2>3. MapStatus("unavailable") # "optimal" BY DEF MapStatus
  <2> QED BY <2>2, <2>3 DEF Passed
<1>3. CASE baseline # "no_filter" /\ ~(baseline \in {"moreau_filter", "exact_vs_smoothed"})
  <2>1. PICK ans \in Answers(mode, case) : r = Result(mode, case, ans)
    BY <1>3 DEF FilterResults
  <2>2. /\ r.passed = Passed(mode, case, ans.u, ans.status)
        /\ r.u = ans.u /\ r.canonical = MapStatus(ans.status)
    BY <2>1 DEF Result
  <2>3. Passed(mode, case, r.u, ans.status) BY <2>2
  <2> QED BY <2>2, <2>3 DEF Passed, Feasible, Finite
<1> QED BY <1>1, <1>2, <1>3

-----------------------------------------------------------------------------
(***************************************************************************)
(* The receding horizon.                                                   *)
(***************************************************************************)

Outcomes == UNION {FilterResults(m, c, b) : m \in Modes, c \in Cases, b \in Baselines}
RHStep == [at : Plane, next : Plane, result : Outcomes]

\* The agent as the filter of a recorded step saw it.
Seen(i) == [call.scene EXCEPT !.at = steps[i].at]

\* Steps are only taken in a call, each from where the one before ended.
Chained ==
  /\ steps \in Seq(RHStep)
  /\ phase = "rolling" \/ steps # <<>> => call \in Calls
  /\ steps # <<>> => phase \in {"rolling", "returned"}
  /\ phase = "rolling" =>
       pos = IF steps = <<>> THEN call.scene.at ELSE steps[Len(steps)].next
  /\ \A i \in 1..Len(steps) :
       steps[i].at = IF i = 1 THEN call.scene.at ELSE steps[i - 1].next

\* Each records what the filter answered for the agent at its place.
Recorded ==
  \A i \in 1..Len(steps) :
    /\ steps[i].result \in FilterResults(call.mode, Seen(i), call.baseline)
    /\ Feasible(steps[i].result) => steps[i].next = Plus(steps[i].at, steps[i].result.u)

Violated ==
  \A k \in neg.violations :
    k \in Nat /\ k + 1 \in 1..Len(steps) /\ ~Outside(steps[k + 1].next, call.scene)

\* The inductive invariant: nothing but the verification of the controls says
\* that the next barrier is kept, and it is about the place the step begins at.
HInv == Chained /\ Recorded /\ Violated /\ BarrierKept

\* A call is made for a case of the plane.
LEMMA CallIsCase == ASSUME call \in Calls PROVE call.scene \in Cases /\ call.scene.at \in Plane
  BY HorizonAssumption DEF Calls, Cases

\* Nothing has been rolled.
LEMMA HInit == Init => HInv
  BY DEF Init, HInv, Chained, Recorded, Violated, BarrierKept, NoNegatives

\* The actions that take no step of the agent.
LEMMA Standing ==
  ASSUME HInv, steps' = steps, neg' = neg,
         \/ call' = call /\ phase' = phase /\ pos' = pos
         \/ steps = <<>> /\ phase' # "rolling"
         \/ steps = <<>> /\ call' \in Calls /\ pos' = call'.scene.at
  PROVE  HInv'
<1>1. CASE steps = <<>>
  <2>1. Len(steps) = 0 /\ DOMAIN steps = {} BY <1>1
  <2>2. \A k \in neg.violations : FALSE BY <2>1 DEF HInv, Violated
  <2>3. Chained' BY <1>1, <2>1 DEF HInv, Chained
  <2>4. Recorded' /\ Violated' /\ BarrierKept'
    BY <2>1, <2>2 DEF Recorded, Violated, BarrierKept
  <2> QED BY <2>3, <2>4 DEF HInv
<1>2. CASE steps # <<>>
  <2>1. call' = call /\ phase' = phase /\ pos' = pos BY <1>2
  <2> QED BY <2>1 DEF HInv, Chained, Recorded, Violated, BarrierKept, Seen
<1> QED BY <1>1, <1>2

\* One turn of the loop.
LEMMA RollKeeps == ASSUME HInv, Roll PROVE HInv'
<1> DEFINE n == Len(steps)
<1>1. /\ steps \in Seq(RHStep) /\ n \in Nat /\ DOMAIN steps = 1..n
      /\ call \in Calls /\ call.scene \in Cases /\ phase = "rolling"
      /\ call.mode \in Modes /\ call.baseline \in Baselines
      /\ pos = IF n = 0 THEN call.scene.at ELSE steps[n].next
  <2>1. steps \in Seq(RHStep) /\ phase = "rolling" /\ call \in Calls
    BY DEF Roll, HInv, Chained
  <2>2. n \in Nat /\ DOMAIN steps = 1..n /\ (n = 0 <=> steps = <<>>) BY <2>1
  <2> QED BY <2>1, <2>2, CallIsCase DEF HInv, Chained, Calls
<1>2. pos \in Plane
  <2>1. n # 0 => steps[n] \in RHStep BY <1>1
  <2> QED BY <1>1, <2>1, CallIsCase DEF RHStep
<1>3. Observed \in Cases /\ Observed.at = pos
  BY <1>1, <1>2, SameObstacle DEF Observed
<1>4. PICK r \in FilterResults(call.mode, Observed, call.baseline) :
        /\ steps' = Append(steps, [at |-> pos, next |-> IF Feasible(r) THEN Plus(pos, r.u) ELSE pos,
                                   result |-> r])
        /\ neg'.violations = neg.violations \cup
             {i \in {n} : ~Outside(IF Feasible(r) THEN Plus(pos, r.u) ELSE pos, call.scene)}
        /\ phase' \in {"rolling", "returned"}
        /\ pos' = IF Feasible(r) THEN Plus(pos, r.u) ELSE pos
        /\ call' = call
  BY DEF Roll, StepResults
<1> DEFINE next == IF Feasible(r) THEN Plus(pos, r.u) ELSE pos
           new == [at |-> pos, next |-> next, result |-> r]
<1>5. next \in Plane
  <2>1. Feasible(r) => r.u \in Plane BY DEF Feasible, Finite
  <2> QED BY <1>2, <2>1 DEF Plus, Plane
<1>6. new \in RHStep
  <2>1. r \in Outcomes BY <1>1, <1>3, <1>4 DEF Outcomes
  <2> QED BY <1>2, <1>5, <2>1 DEF RHStep
<1>7. /\ steps' \in Seq(RHStep) /\ Len(steps') = n + 1 /\ DOMAIN steps' = 1..(n + 1)
      /\ \A i \in 1..n : steps'[i] = steps[i]
      /\ steps'[n + 1] = new /\ steps' # <<>>
  <2> HIDE DEF new
  <2> QED BY <1>1, <1>4, <1>6 DEF new
<1>8. /\ steps'[n + 1].at = pos /\ steps'[n + 1].next = next
      /\ steps'[n + 1].result = r /\ pos' = next
  BY <1>4, <1>7
<1>9. Chained'
  <2>1. \A i \in 1..(n + 1) :
          steps'[i].at = IF i = 1 THEN call.scene.at ELSE steps'[i - 1].next
    <3> TAKE i \in 1..(n + 1)
    <3>1. CASE i = n + 1
      <4>1. i # 1 => i - 1 \in 1..n /\ i - 1 = n BY <1>1, <3>1
      <4>2. i # 1 => steps'[i - 1].next = steps[n].next BY <1>7, <4>1
      <4>3. i = 1 <=> n = 0 BY <1>1, <3>1
      <4> QED BY <1>1, <1>8, <3>1, <4>2, <4>3
    <3>2. CASE i \in 1..n
      <4>1. i # 1 => i - 1 \in 1..n BY <1>1, <3>2
      <4> QED BY <1>7, <3>2, <4>1 DEF HInv, Chained
    <3> QED BY <1>1, <3>1, <3>2
  <2> QED BY <1>1, <1>4, <1>7, <1>8, <2>1 DEF Chained
<1>10. Recorded'
  <2>1. ASSUME NEW i \in 1..(n + 1)
        PROVE  /\ steps'[i].result \in
                    FilterResults(call.mode, [call.scene EXCEPT !.at = steps'[i].at], call.baseline)
               /\ Feasible(steps'[i].result) =>
                    steps'[i].next = Plus(steps'[i].at, steps'[i].result.u)
    <3>1. CASE i = n + 1 BY <1>8, <3>1 DEF Observed
    <3>2. CASE i \in 1..n BY <1>7, <3>2 DEF HInv, Recorded, Seen
    <3> QED BY <1>1, <3>1, <3>2
  <2> QED BY <1>4, <1>7, <2>1 DEF Recorded, Seen
<1>11. Violated'
  <2> SUFFICES ASSUME NEW k \in neg'.violations
               PROVE  /\ k \in Nat /\ k + 1 \in 1..(n + 1)
                      /\ ~Outside(steps'[k + 1].next, call.scene)
    BY <1>4, <1>7 DEF Violated
  <2>1. CASE k \in neg.violations
    <3>1. k \in Nat /\ k + 1 \in 1..n /\ ~Outside(steps[k + 1].next, call.scene)
      BY <2>1 DEF HInv, Violated
    <3> QED BY <1>1, <1>7, <3>1
  <2>2. CASE k = n /\ ~Outside(next, call.scene) BY <1>1, <1>8, <2>2
  <2> QED BY <1>4, <2>1, <2>2
<1>12. r.passed => Keeps(call.scene, pos, next)
  <2> SUFFICES ASSUME r.passed PROVE Keeps(call.scene, pos, next) OBVIOUS
  <2>1. r.u \in Plane /\ Feasible(r) /\ Slack(Observed, r.u) >= 0 BY <1>3, VerifiedControl
  <2>2. Keeps(Observed, pos, Plus(pos, r.u)) BY <1>3, <2>1, AffineKeeps
  <2> QED BY <1>1, <1>2, <2>1, <2>2, SameObstacle DEF Observed
<1>13. ASSUME NEW i \in 1..(n + 1), Num <= Den, Outside(call.scene.at, call.scene),
              \A j \in 1..i : steps'[j].result.passed
       PROVE  Outside(steps'[i].next, call.scene) /\ i - 1 \notin neg'.violations
  <2>1. CASE i \in 1..n
    <3>1. \A j \in 1..i : steps[j].result.passed BY <1>1, <1>7, <1>13, <2>1
    <3>2. Outside(steps[i].next, call.scene) /\ i - 1 \notin neg.violations
      BY <1>1, <1>13, <2>1, <3>1 DEF HInv, BarrierKept
    <3>3. i - 1 # n BY <1>1, <2>1
    <3> QED BY <1>4, <1>7, <2>1, <3>2, <3>3
  <2>2. CASE i = n + 1
    <3>1. r.passed BY <1>1, <1>8, <1>13, <2>2
    <3>2. Outside(pos, call.scene)
      <4>1. CASE n = 0 BY <1>1, <1>13, <4>1
      <4>2. CASE n # 0
        <5>1. n \in 1..n BY <1>1, <4>2
        <5>2. \A j \in 1..n : steps[j].result.passed BY <1>1, <1>7, <1>13, <2>2
        <5> QED BY <1>1, <1>13, <4>2, <5>1, <5>2 DEF HInv, BarrierKept
      <4> QED BY <4>1, <4>2
    <3>3. Outside(next, call.scene)
      <4> HIDE DEF next
      <4> QED BY <1>1, <1>2, <1>5, <1>12, <1>13, <3>1, <3>2, KeepsOutside
    <3>4. i - 1 = n /\ n \notin neg.violations
      BY <1>1, <2>2 DEF HInv, Violated
    <3> QED BY <1>4, <1>8, <2>2, <3>3, <3>4
  <2> QED BY <1>1, <1>13, <2>1, <2>2
<1>14. ASSUME NEW i \in 1..(n + 1)
       PROVE  steps'[i].result.passed => Keeps(call.scene, steps'[i].at, steps'[i].next)
  <2>1. CASE i \in 1..n BY <1>1, <1>7, <2>1 DEF HInv, BarrierKept
  <2>2. CASE i = n + 1
    <3> HIDE DEF next, new
    <3> QED BY <1>8, <1>12, <2>2
  <2> QED BY <1>1, <2>1, <2>2
<1>15. BarrierKept'
  <2> HIDE DEF next, new
  <2> QED BY <1>4, <1>7, <1>13, <1>14 DEF BarrierKept
<1> QED BY <1>9, <1>10, <1>11, <1>15 DEF HInv

\* Every action keeps the invariant of the loop (_run_trajectory).
LEMMA HNext == ASSUME HInv, [Next]_vars PROVE HInv'
<1>1. CASE Start
  <2>1. steps = <<>> /\ steps' = steps /\ neg' = neg
    BY <1>1 DEF Start, HInv, Chained
  <2>2. call' \in Calls /\ pos' = call'.scene.at BY <1>1 DEF Start
  <2> QED BY <2>1, <2>2, Standing
<1>2. CASE Roll BY <1>2, RollKeeps
<1>3. CASE Batch
  <2>1. steps = <<>> BY <1>3 DEF Batch, HInv, Chained
  <2> QED BY <1>3, <2>1, Standing DEF Batch
<1>4. CASE Compare
  <2>1. steps = <<>> BY <1>4 DEF Compare, HInv, Chained
  <2>2. steps' = steps /\ neg' = neg /\ phase' # "rolling" BY <1>4 DEF Compare
  <2> QED BY <2>1, <2>2, Standing
<1>5. CASE Stopped \/ UNCHANGED vars BY <1>5, Standing DEF Stopped, vars
<1> QED BY <1>1, <1>2, <1>3, <1>4, <1>5 DEF Next

\* Every reachable trajectory is chained, recorded and judged as HInv says: what
\* the two theorems on the barrier (_run_trajectory) rest on.
THEOREM HorizonInvariant == Spec => []HInv
<1> QED BY HInit, HNext, PTL DEF Spec

\* A step by a verified control leaves of the barrier all but alpha * dt of it
\* (_run_trajectory), for any answers of the solver, any alpha * dt and any number
\* of steps; where alpha * dt is at most one, an agent that begins outside of the
\* obstacle is outside after every step up to the first whose control was rejected.
THEOREM BarrierIsKept == Spec => []BarrierKept
<1>1. HInv => BarrierKept BY DEF HInv
<1> QED BY <1>1, HorizonInvariant, PTL

\* A step by a control that the robust filter verified leaves of the barrier all
\* but alpha * dt of it wherever within epsilon of the observed position the agent
\* is (robust_cbf_soc_constants), for any alpha * dt and epsilon; where alpha * dt
\* is at most one, it ends outside from every such place that is outside.
THEOREM NoiseIsCovered == Spec => []RobustCovers
<1>1. HInv => RobustCovers
  <2> SUFFICES ASSUME HInv, NEW i \in DOMAIN steps,
                      call.mode = "soc_robust_stage3_cbf", steps[i].result.passed,
                      NEW d \in Noise
               PROVE  LET true == Plus(steps[i].at, d) after == Plus(true, steps[i].result.u)
                      IN  /\ Keeps(call.scene, true, after)
                          /\ Num <= Den /\ Outside(true, call.scene)
                             => Outside(after, call.scene)
    BY DEF RobustCovers
  <2> DEFINE p == steps[i].at
             r == steps[i].result
             true == Plus(p, d)
             after == Plus(true, r.u)
  <2>1. /\ i \in 1..Len(steps) /\ steps[i] \in RHStep /\ steps # <<>>
        /\ p \in Plane /\ call.scene \in Cases
    <3>1. steps \in Seq(RHStep) /\ DOMAIN steps = 1..Len(steps) BY DEF HInv, Chained
    <3>2. i \in 1..Len(steps) /\ steps[i] \in RHStep BY <3>1
    <3>3. steps # <<>> BY <3>2
    <3>4. call \in Calls BY <3>3 DEF HInv, Chained
    <3> QED BY <3>2, <3>3, <3>4, CallIsCase DEF RHStep
  <2>2. r \in FilterResults(call.mode, Seen(i), call.baseline) BY <2>1 DEF HInv, Recorded
  <2>3. Seen(i) \in Cases /\ Seen(i).at = p BY <2>1, SameObstacle DEF Seen
  <2>4. r.u \in Plane /\ RobustHolds(Seen(i), r.u)
    BY <2>2, <2>3, VerifiedControl DEF Holds
  <2>5. d \in Plane /\ Dot(d, d) <= Epsilon * Epsilon
    BY CbfAssumption DEF Noise, Plane
  <2>6. true \in Plane /\ after \in Plane
    <3>1. \A v, w \in Plane : Plus(v, w) \in Plane BY DEF Plus, Plane
    <3> QED BY <2>1, <2>4, <2>5, <3>1
  <2>7. Keeps(Seen(i), true, after) BY <2>3, <2>4, <2>5, RobustKeeps
  <2>8. Keeps(call.scene, true, after)
    <3> HIDE DEF true, after
    <3> QED BY <2>1, <2>6, <2>7, SameObstacle DEF Seen
  <2>9. Num <= Den /\ Outside(true, call.scene) => Outside(after, call.scene)
    <3> HIDE DEF true, after
    <3> QED BY <2>1, <2>6, <2>8, KeepsOutside
  <2> QED BY <2>8, <2>9
<1> QED BY <1>1, HorizonInvariant, PTL
-----------------------------------------------------------------------------
(***************************************************************************)
(* What the answers of the solver mean to those who read its results.      *)
(***************************************************************************)

\* No control is none of the plane.
LEMMA NaNIsNone == ~Finite(NaN)
  BY DEF Finite, NaN, Plane

\* A set of numbers that is not empty has a least one.
LEMMA LeastNumber ==
  ASSUME NEW S, S \subseteq Nat, S # {}
  PROVE  \E i \in S : \A j \in S : i <= j
<1>1. PICK i \in S : \A j \in S : ~(<<j, i>> \in OpToRel(<, Nat))
  BY NatLessThanWellFounded, WFMin
<1>2. \A j \in S : ~(j < i) BY <1>1 DEF OpToRel
<1> QED BY <1>2

\* Of the allowed controls one is nearest to the desired one: distances are
\* whole numbers.
LEMMA NearestIsAllowed ==
  ASSUME NEW v \in Plane, NEW S, S \subseteq Plane, S # {}
  PROVE  Nearest(v, S) \in S
<1> DEFINE D == {Distance2(u, v) : u \in S}
<1>1. \A u \in S : Distance2(u, v) \in Nat
  <2> SUFFICES ASSUME NEW u \in S PROVE Distance2(u, v) \in Nat OBVIOUS
  <2>1. u[1] \in Int /\ u[2] \in Int /\ v[1] \in Int /\ v[2] \in Int BY DEF Plane
  <2> DEFINE x == u[1] - v[1]
             y == u[2] - v[2]
  <2>2. x \in Int /\ y \in Int BY <2>1
  <2>3. Distance2(u, v) = x * x + y * y BY DEF Distance2, Dot, Minus
  <2> HIDE DEF x, y
  <2>4. x * x \in Int /\ x * x >= 0 /\ y * y \in Int /\ y * y >= 0 BY <2>2, SquareNat
  <2> QED BY <2>3, <2>4
<1>2. PICK m \in D : \A n \in D : m <= n
  <2>1. D \subseteq Nat /\ D # {} BY <1>1
  <2> QED BY <2>1, LeastNumber
<1>3. \E u \in S : \A w \in S : Distance2(u, v) <= Distance2(w, v) BY <1>2
<1> QED BY <1>3 DEF Nearest

\* Answers with a control, which an accurate one shares with the inaccurate and
\* the early ones, and answers with none.
WithControl == [u : Plane, status : {"optimal", "optimal_inaccurate", "user_limit"}]
Without == {[u |-> NaN, status |-> s] : s \in {"infeasible", "error", "infeasible_inaccurate"}}

\* An accurate solve has the nearest allowed control, or there is none.
LEMMA AccurateAnswers ==
  ASSUME NEW mode, NEW case \in Cases
  PROVE  /\ Accurate(mode, case) \in WithControl \cup Without
         /\ Accurate(mode, case).status = "optimal" =>
              /\ Accurate(mode, case).u = Nearest(case.wants, Allowed(mode, case))
              /\ Accurate(mode, case).u \in Allowed(mode, case)
         /\ Accurate(mode, case).status \in {"optimal", "infeasible"}
         /\ Accurate(mode, case).status = "infeasible" =>
              Accurate(mode, case).u = NaN /\ Allowed(mode, case) = {}
<1> DEFINE S == Allowed(mode, case)
<1>1. CASE S = {}
  <2>1. Accurate(mode, case) = [u |-> NaN, status |-> "infeasible"] BY <1>1 DEF Accurate
  <2> QED BY <1>1, <2>1 DEF Without
<1>2. CASE S # {}
  <2>1. Accurate(mode, case) = [u |-> Nearest(case.wants, S), status |-> "optimal"]
    BY <1>2 DEF Accurate
  <2>2. case.wants \in Plane BY DEF Cases
  <2>3. S \subseteq Plane BY CbfAssumption DEF Allowed, Plane
  <2>4. Nearest(case.wants, S) \in S BY <1>2, <2>2, <2>3, NearestIsAllowed
  <2> HIDE DEF S
  <2> QED BY <2>1, <2>3, <2>4 DEF WithControl, S
<1> QED BY <1>1, <1>2

\* Whatever the solver answers, there is a control or none with its status.
LEMMA AnswersAreTwofold ==
  ASSUME NEW mode, NEW case \in Cases
  PROVE  Answers(mode, case) \subseteq WithControl \cup Without
<1>1. Failures \subseteq Without BY DEF Failures, Without
<1>2. [u : Rough, status : {"optimal_inaccurate", "user_limit"}] \subseteq WithControl
  BY CbfAssumption DEF WithControl, Plane
<1> QED BY <1>1, <1>2, AccurateAnswers DEF Answers

\* The loop, the gate, the taxonomy and verification agree whether r can be used.
OneFeasible(r) ==
  /\ Feasible(r) <=> Solved(r) \/ r.status = "no_filter"
  /\ Feasible(r) <=> Classify(r) \in {"feasible_optimal", "feasible_inaccurate"}
  /\ r.passed => Feasible(r)
  /\ Classify(r) = "unexplained" <=> r.status = "user_limit"

\* The statuses that come with a control and those that come without one are
\* never confused.
LEMMA AnswersMeanOne ==
  ASSUME NEW mode, NEW case, NEW ans \in WithControl \cup Without
  PROVE  OneFeasible(Result(mode, case, ans))
<1>0. PICK r : r = Result(mode, case, ans) OBVIOUS
<1> SUFFICES OneFeasible(r) BY <1>0
<1>1. /\ r.u = ans.u /\ r.status = ans.status /\ r.canonical = MapStatus(ans.status)
      /\ r.passed = Passed(mode, case, ans.u, ans.status)
  BY <1>0 DEF Result
<1>2. r.passed => Finite(r.u) /\ r.canonical = "optimal" BY <1>1 DEF Passed
<1>3. CASE ans \in WithControl
  <2>1. Finite(r.u) BY <1>1, <1>3 DEF WithControl, Finite
  <2>2. ans.status \in {"optimal", "optimal_inaccurate", "user_limit"}
    BY <1>3 DEF WithControl
  <2>3. CASE ans.status = "optimal"
    <3>1. r.status = "optimal" /\ r.canonical = "optimal" BY <1>1, <2>3 DEF MapStatus
    <3>2. Classify(r) = "feasible_optimal" BY <2>1, <3>1 DEF Classify
    <3> QED BY <2>1, <3>1, <3>2 DEF OneFeasible, Feasible, Solved
  <2>4. CASE ans.status = "optimal_inaccurate"
    <3>1. r.status = "optimal_inaccurate" /\ r.canonical = "optimal"
      BY <1>1, <2>4 DEF MapStatus
    <3>2. Classify(r) = "feasible_inaccurate" BY <2>1, <3>1 DEF Classify
    <3> QED BY <2>1, <3>1, <3>2 DEF OneFeasible, Feasible, Solved
  <2>5. CASE ans.status = "user_limit"
    <3>1. r.status = "user_limit" /\ r.canonical = "unknown" BY <1>1, <2>5 DEF MapStatus
    <3>2. Classify(r) = "unexplained" BY <2>1, <3>1 DEF Classify
    <3> QED BY <1>2, <2>1, <3>1, <3>2 DEF OneFeasible, Feasible, Solved
  <2> QED BY <2>2, <2>3, <2>4, <2>5
<1>4. CASE ans \in Without
  <2>1. ~Finite(r.u) BY <1>1, <1>4, NaNIsNone DEF Without
  <2>2. ans.status \in {"infeasible", "error", "infeasible_inaccurate"} BY <1>4 DEF Without
  <2>3. r.canonical \in {"infeasible", "numerical_failure"} BY <1>1, <2>2 DEF MapStatus
  <2>4. Classify(r) \in {"near_infeasible_geometry", "declared_infeasible", "numerical_failure"}
    BY <2>1, <2>3 DEF Classify
  <2> QED BY <1>1, <1>2, <2>1, <2>2, <2>4 DEF OneFeasible, Feasible, Solved
<1> QED BY <1>3, <1>4

\* Nor do the filters that ask no solver confuse them.
LEMMA ResultsMeanOne ==
  ASSUME NEW mode, NEW case \in Cases, NEW baseline,
         NEW r \in FilterResults(mode, case, baseline)
  PROVE  OneFeasible(r)
<1>1. CASE baseline = "no_filter"
  <2>1. r = Unfiltered(mode, case) BY <1>1 DEF FilterResults
  <2>2. /\ r.u = case.wants /\ r.status = "no_filter" /\ r.canonical = "optimal"
        /\ r.passed = Passed("nominal_stage1_cbf", case, case.wants, "no_filter")
    BY <2>1 DEF Unfiltered, Result
  <2>3. Finite(r.u) BY <2>2 DEF Finite, Cases
  <2>4. Classify(r) = "feasible_optimal" BY <2>2, <2>3 DEF Classify
  <2> QED BY <2>2, <2>3, <2>4 DEF OneFeasible, Feasible, Solved
<1>2. CASE baseline # "no_filter" /\ baseline \in {"moreau_filter", "exact_vs_smoothed"}
  <2>1. r = Unavailable(case) BY <1>2 DEF FilterResults
  <2>2. /\ r.u = NaN /\ r.status = "unavailable" /\ r.canonical = MapStatus("unavailable")
        /\ r.passed = Passed("nominal_stage1_cbf", case, NaN, "unavailable")
    BY <2>1 DEF Unavailable, Result
  <2>3. r.canonical = "unavailable" BY <2>2 DEF MapStatus
  <2>4. ~Finite(r.u) /\ ~r.passed BY <2>2, NaNIsNone DEF Passed
  <2>5. Classify(r) = "backend_unavailable" BY <2>3, <2>4 DEF Classify
  <2> QED BY <2>2, <2>3, <2>4, <2>5 DEF OneFeasible, Feasible, Solved
<1>3. CASE baseline # "no_filter" /\ ~(baseline \in {"moreau_filter", "exact_vs_smoothed"})
  <2>1. PICK ans \in Answers(mode, case) : r = Result(mode, case, ans)
    BY <1>3 DEF FilterResults
  <2> QED BY <2>1, AnswersAreTwofold, AnswersMeanOne
<1> QED BY <1>1, <1>2, <1>3

\* A control that meets the robust condition meets the affine one wherever
\* within the noise the agent is: the independent validation confirms it.
LEMMA RobustIsConfirmed ==
  ASSUME NEW case \in Cases, NEW u \in Plane, RobustHolds(case, u)
  PROVE  RobustnessHolds(case, u)
<1> SUFFICES ASSUME NEW d \in Noise
             PROVE  Slack([case EXCEPT !.at = Plus(@, d)], u) >= 0
  BY DEF RobustnessHolds
<1> DEFINE a == Minus(case.at, case.center)
           e == Epsilon * Epsilon
           p == Plus(case.at, d)
           b == Barrier(case.at, case)
           s == Dot(a, u)
           t == Dot(d, u)
           r == Dot(d, a)
           v == Dot(d, d)
           X == Slack(case, u) - Num * Epsilon * Epsilon
           z == Slack([case EXCEPT !.at = Plus(@, d)], u)
<1>1. /\ d \in Plane /\ v <= e /\ case.at \in Plane /\ a \in Plane /\ p \in Plane
      /\ Num \in Nat /\ Den \in Nat /\ e \in Int /\ Epsilon \in Int
  BY CbfAssumption DEF Noise, Cases, Plane, Minus, Plus
<1>2. /\ d[1] \in Int /\ d[2] \in Int /\ u[1] \in Int /\ u[2] \in Int
      /\ a[1] \in Int /\ a[2] \in Int
      /\ v = d[1] * d[1] + d[2] * d[2] /\ t = d[1] * u[1] + d[2] * u[2]
      /\ r = d[1] * a[1] + d[2] * a[2] /\ s = a[1] * u[1] + a[2] * u[2]
  BY <1>1 DEF Plane, Dot
<1>3. /\ b \in Int /\ v \in Int /\ s \in Int /\ t \in Int /\ r \in Int /\ Dot(a, d) = r
  <2>1. b \in Int BY <1>1, BarrierInt
  <2>2. Dot(a, d) = r BY <1>1 DEF Dot, Plane
  <2> HIDE DEF a, b
  <2> QED BY <1>2, <2>1, <2>2
<1>4. X + 2 * Num * r + 2 * Den * t >= 0 BY <1>1, NoiseOutweighed
<1>5. X = Den * (2 * s) + Num * b - Num * e
  <2>1. X = (Den * (2 * s) + Num * b) - Num * Epsilon * Epsilon BY DEF Slack
  <2>2. Num * Epsilon * Epsilon = Num * e BY <1>1
  <2> HIDE DEF X, s, b, e
  <2> QED BY <1>1, <1>3, <2>1, <2>2
<1>6. z = Den * (2 * (s + t)) + Num * (b + 2 * r + v)
  <2>1. /\ [case EXCEPT !.at = Plus(@, d)].at = p
        /\ [case EXCEPT !.at = Plus(@, d)].center = case.center
        /\ [case EXCEPT !.at = Plus(@, d)].radius = case.radius
    BY DEF Cases
  <2>2. z = Den * (2 * Dot(Minus(p, case.center), u)) + Num * Barrier(p, case)
    BY <2>1 DEF Slack, Barrier
  <2>3. Dot(Minus(p, case.center), u) = s + t
    <3>1. Minus(p, case.center)[1] = a[1] + d[1] /\ Minus(p, case.center)[2] = a[2] + d[2]
      BY <1>1 DEF Minus, Plus, Cases, Plane
    <3>2. Dot(Minus(p, case.center), u) = (a[1] + d[1]) * u[1] + (a[2] + d[2]) * u[2]
      BY <3>1 DEF Dot
    <3>3. (a[1] + d[1]) * u[1] + (a[2] + d[2]) * u[2] = s + t
      <4> HIDE DEF a, s, t
      <4> QED BY <1>2
    <3> QED BY <3>2, <3>3
  <2>4. Barrier(p, case) = b + 2 * r + v BY <1>1, <1>3, BarrierAfter
  <2> QED BY <2>2, <2>3, <2>4
<1> HIDE DEF a, b, s, t, r, v, z, X, e
<1>7. e >= 0 BY <1>1, SquareNat DEF e
<1>8. /\ v >= 0
  BY <1>2, SquareNat
<1>9. z = (X + 2 * Num * r + 2 * Den * t) + Num * e + Num * v
  <2>1. /\ Den * (2 * (s + t)) = Den * (2 * s) + 2 * Den * t
        /\ Num * (b + 2 * r + v) = Num * b + 2 * Num * r + Num * v
    BY <1>1, <1>3
  <2>2. /\ Den * (2 * s) \in Int /\ 2 * Den * t \in Int /\ Num * b \in Int
        /\ 2 * Num * r \in Int /\ Num * v \in Int /\ Num * e \in Int
    BY <1>1, <1>3
  <2> QED BY <1>5, <1>6, <2>1, <2>2
<1>10. /\ Num * e >= 0 /\ Num * v >= 0 /\ Num * e \in Int /\ Num * v \in Int
  BY <1>1, <1>3, <1>7, <1>8, ProductNat
<1>11. X + 2 * Num * r + 2 * Den * t \in Int
  <2>1. /\ Den * (2 * s) \in Int /\ 2 * Den * t \in Int /\ Num * b \in Int
        /\ 2 * Num * r \in Int /\ Num * e \in Int
    BY <1>1, <1>3
  <2> QED BY <1>5, <2>1
<1> DEFINE k == X + 2 * Num * r + 2 * Den * t
           m == Num * e
           n == Num * v
<1>12. k \in Int /\ k >= 0 /\ m \in Int /\ m >= 0 /\ n \in Int /\ n >= 0 /\ z = k + m + n
  BY <1>4, <1>9, <1>10, <1>11
<1> HIDE DEF k, m, n
<1>13. z >= 0 BY <1>12
<1> QED BY <1>13 DEF z
-----------------------------------------------------------------------------
(***************************************************************************)
(* The batch.                                                              *)
(***************************************************************************)

Alone == "public_solver_filter"

\* An accurate control passes verification: the robust condition is the
\* stronger one.
LEMMA AccuratePasses ==
  ASSUME NEW mode, NEW case \in Cases, Accurate(mode, case).status = "optimal"
  PROVE  Passed(mode, case, Accurate(mode, case).u, "optimal")
<1>1. PICK u : u = Accurate(mode, case).u OBVIOUS
<1>2. u \in Allowed(mode, case) BY <1>1, AccurateAnswers
<1>3. u \in Plane /\ Dot(u, u) <= UMax2 /\ Holds(mode, case, u)
  BY <1>2, CbfAssumption DEF Allowed, Plane
<1>4. Slack(case, u) >= 0
  <2>1. CASE mode = "soc_robust_stage3_cbf"
    <3>1. Slack(case, u) - Num * Epsilon * Epsilon >= 0
      BY <1>3, <2>1 DEF Holds, RobustHolds, AtLeastRoots
    <3>2. Num * Epsilon * Epsilon \in Int /\ Num * Epsilon * Epsilon >= 0
      <4>1. Num * Epsilon \in Int /\ Num * Epsilon >= 0 BY CbfAssumption, ProductNat
      <4> QED BY <4>1, CbfAssumption, ProductNat
    <3>3. Slack(case, u) \in Int
      <4>1. Barrier(case.at, case) \in Int BY BarrierInt DEF Cases
      <4>2. Dot(Minus(case.at, case.center), u) \in Int
        BY <1>3 DEF Dot, Minus, Cases, Plane
      <4> QED BY <4>1, <4>2, CbfAssumption DEF Slack
    <3> QED BY <3>1, <3>2, <3>3
  <2>2. CASE mode # "soc_robust_stage3_cbf" BY <1>3, <2>2 DEF Holds
  <2> QED BY <2>1, <2>2
<1>5. MapStatus("optimal") = "optimal" BY DEF MapStatus
<1> QED BY <1>1, <1>3, <1>4, <1>5 DEF Passed, Finite

\* What the rows of one problem have in common.
JointAgrees(mode, asked, joint) ==
  /\ \/ \A i \in 1..Len(asked) : joint[i] \in WithControl
     \/ \A i \in 1..Len(asked) : joint[i] \in Without
  /\ \A i \in 1..Len(asked) : joint[i].status = "optimal" =>
       \A k \in 1..Len(asked) : /\ joint[k] = Accurate(mode, asked[k])
                               /\ joint[k].status = "optimal"
  /\ \A i \in 1..Len(asked) : joint[i].status = "infeasible" =>
       \E k \in 1..Len(asked) : Allowed(mode, asked[k]) = {}

\* One problem for all rows finds a control for each of them or for none, and
\* if it is solved accurately the controls the rows would get alone.
LEMMA JointIsOne ==
  ASSUME NEW mode, NEW asked \in Seq(Cases), NEW joint \in Joint(mode, asked)
  PROVE  JointAgrees(mode, asked, joint)
<1> DEFINE D == 1..Len(asked)
           Solvable == \A i \in D : Accurate(mode, asked[i]).status = "optimal"
<1>1. DOMAIN asked = D /\ \A i \in D : asked[i] \in Cases BY ElementOfSeq
<1>2. \/ joint = [i \in D |-> IF Solvable THEN Accurate(mode, asked[i])
                              ELSE [u |-> NaN, status |-> "infeasible"]]
      \/ \E f \in Failures : joint = [i \in D |-> f]
      \/ \E us \in [D -> Rough], s \in {"optimal_inaccurate", "user_limit"} :
           joint = [i \in D |-> [u |-> us[i], status |-> s]]
  BY <1>1 DEF Joint, RowOf
<1>3. CASE joint = [i \in D |-> IF Solvable THEN Accurate(mode, asked[i])
                                ELSE [u |-> NaN, status |-> "infeasible"]]
  <2>1. CASE Solvable
    <3>1. \A i \in D : joint[i] = Accurate(mode, asked[i]) BY <1>3, <2>1
    <3>2. \A i \in D : joint[i].status = "optimal" BY <2>1, <3>1
    <3>3. \A i \in D : joint[i] \in WithControl
      <4> SUFFICES ASSUME NEW i \in D PROVE joint[i] \in WithControl OBVIOUS
      <4>1. joint[i] \in WithControl \cup Without BY <1>1, <3>1, AccurateAnswers
      <4> QED BY <3>2, <4>1 DEF Without
    <3> QED BY <3>1, <3>2, <3>3 DEF JointAgrees
  <2>2. CASE ~Solvable
    <3>1. \A i \in D : joint[i] = [u |-> NaN, status |-> "infeasible"] BY <1>3, <2>2
    <3>2. \E k \in D : Allowed(mode, asked[k]) = {} BY <1>1, <2>2, AccurateAnswers
    <3> QED BY <3>1, <3>2 DEF JointAgrees, Without
  <2> QED BY <2>1, <2>2
<1>4. CASE \E f \in Failures : joint = [i \in D |-> f]
  <2>1. PICK f \in Failures : joint = [i \in D |-> f] BY <1>4
  <2>2. f \in Without /\ f.status # "optimal" /\ f.status # "infeasible"
    BY <2>1 DEF Failures, Without
  <2> QED BY <2>1, <2>2 DEF JointAgrees
<1>5. CASE \E us \in [D -> Rough], s \in {"optimal_inaccurate", "user_limit"} :
             joint = [i \in D |-> [u |-> us[i], status |-> s]]
  <2>1. PICK us \in [D -> Rough], s \in {"optimal_inaccurate", "user_limit"} :
          joint = [i \in D |-> [u |-> us[i], status |-> s]]
    BY <1>5
  <2>2. \A i \in D : us[i] \in Plane BY <2>1, CbfAssumption DEF Plane
  <2>3. \A i \in D : joint[i] = [u |-> us[i], status |-> s] BY <2>1
  <2>4. ASSUME NEW i \in D PROVE joint[i] \in WithControl /\ joint[i].status = s
    <3>1. PICK v : v = us[i] OBVIOUS
    <3>2. joint[i] = [u |-> v, status |-> s] /\ v \in Plane BY <2>2, <2>3, <3>1
    <3> QED BY <3>2 DEF WithControl
  <2> QED BY <2>4 DEF JointAgrees
<1> QED BY <1>2, <1>3, <1>4, <1>5

\* The results of rows that are filtered one after another.
OwnResults == UNION {FilterResults(m, c, Alone) : m \in Modes, c \in Cases}

BatchRows(mode, asked, joint) == [i \in DOMAIN asked |-> BatchRow(mode, asked, joint, i)]

\* What a comparison of rows with the results of their own says.
Differ(results, alone) ==
  \E k \in DOMAIN alone : /\ Finite(results[k].u) /\ Finite(alone[k].u)
                          /\ results[k].u # alone[k].u

\* A batch in progress or done: its results are those of one problem, and those
\* obtained alone so far are of its first rows.
BatchShape(b, done) ==
  /\ b.mode \in Modes /\ b.rows \in Batches
  /\ b = [mode |-> b.mode, rows |-> b.rows, alone |-> b.alone, raised |-> b.raised,
          results |-> b.results]
  /\ \E joint \in Joint(b.mode, b.rows) : b.results = BatchRows(b.mode, b.rows, joint)
  /\ b.alone \in Seq(OwnResults)
  /\ \A k \in 1..Len(b.alone) : b.alone[k] \in FilterResults(b.mode, b.rows[k], Alone)
  /\ IF done THEN /\ Len(b.alone) = Len(b.rows)
                  /\ b.raised <=> Differ(b.results, b.alone)
             ELSE Len(b.alone) < Len(b.rows)

BatchInv ==
  /\ phase \notin {"comparing", "batched"} => batch = NoBatch
  /\ phase \in {"comparing", "batched"} => BatchShape(batch, phase = "batched")

\* A batch call stores what its one problem answered.
LEMMA BatchBegins == ASSUME BatchInv, Batch PROVE BatchInv'
<1>1. PICK asked \in Batches, mode \in Modes : \E joint \in Joint(mode, asked) :
        batch' = [mode |-> mode, rows |-> asked, alone |-> <<>>, raised |-> FALSE,
                  results |-> BatchRows(mode, asked, joint)]
  BY DEF Batch, BatchRows
<1>2. PICK joint \in Joint(mode, asked) :
        batch' = [mode |-> mode, rows |-> asked, alone |-> <<>>, raised |-> FALSE,
                  results |-> BatchRows(mode, asked, joint)]
  BY <1>1
<1>3. phase' = "comparing" BY DEF Batch
<1>4. PICK b : b = batch' OBVIOUS
<1>5. PICK results : results = BatchRows(mode, asked, joint) OBVIOUS
<1>6. b = [mode |-> mode, rows |-> asked, alone |-> <<>>, raised |-> FALSE, results |-> results]
  BY <1>2, <1>4, <1>5
<1>7. b.mode = mode /\ b.rows = asked /\ b.alone = <<>> /\ b.raised = FALSE
      /\ b.results = results
  BY <1>6
<1>8. Len(b.alone) = 0 /\ b.alone \in Seq(OwnResults) /\ 0 < Len(asked)
  <2>1. asked \in Seq(Cases) /\ asked # <<>> BY HorizonAssumption
  <2> QED BY <1>7, <2>1
<1>9. \E j \in Joint(b.mode, b.rows) : b.results = BatchRows(b.mode, b.rows, j)
  BY <1>5, <1>7
<1>10. BatchShape(b, FALSE) BY <1>6, <1>7, <1>8, <1>9 DEF BatchShape
<1> QED BY <1>3, <1>4, <1>10 DEF BatchInv

\* Another row is filtered alone and compared.
LEMMA ComparisonGoesOn == ASSUME BatchInv, Compare PROVE BatchInv'
<1>1. PICK b : b = batch OBVIOUS
<1>2. BatchShape(b, FALSE) /\ phase = "comparing" BY <1>1 DEF BatchInv, Compare
<1>3. PICK n : n = Len(b.alone) OBVIOUS
<1>4. /\ n \in Nat /\ n < Len(b.rows) /\ b.alone \in Seq(OwnResults)
      /\ b.rows \in Seq(Cases) /\ b.mode \in Modes
  BY <1>2, <1>3, HorizonAssumption DEF BatchShape
<1>5. PICK r \in FilterResults(b.mode, b.rows[n + 1], Alone) :
        LET alone == Append(b.alone, r)
            whole == Len(alone) = Len(b.rows)
        IN  /\ batch' = [b EXCEPT !.alone = alone, !.raised = whole /\ Differ(b.results, alone)]
            /\ phase' = IF whole THEN "batched" ELSE "comparing"
  BY <1>1, <1>3 DEF Compare, Differ, Alone
<1>6. PICK alone : alone = Append(b.alone, r) OBVIOUS
<1>7. PICK whole \in BOOLEAN : whole <=> Len(alone) = Len(b.rows) BY Zenon
<1>8. PICK raised \in BOOLEAN : raised <=> whole /\ Differ(b.results, alone) BY Zenon
<1>9. /\ batch' = [b EXCEPT !.alone = alone, !.raised = raised]
      /\ phase' = IF whole THEN "batched" ELSE "comparing"
  <2>1. (Len(alone) = Len(b.rows)) = whole BY <1>7, Zenon
  <2>2. (whole /\ Differ(b.results, alone)) = raised BY <1>8, Zenon DEF Differ
  <2> QED BY <1>5, <1>6, <2>1, <2>2, Zenon
<1>10. n + 1 \in 1..Len(b.rows) /\ b.rows[n + 1] \in Cases
  BY <1>4, ElementOfSeq
<1>11. r \in OwnResults BY <1>4, <1>5, <1>10 DEF OwnResults
<1>12. /\ alone \in Seq(OwnResults) /\ Len(alone) = n + 1 /\ alone[n + 1] = r
       /\ \A k \in 1..n : alone[k] = b.alone[k]
  BY <1>3, <1>4, <1>6, <1>11
<1>13. PICK c : c = batch' OBVIOUS
<1>14. c = [mode |-> b.mode, rows |-> b.rows, alone |-> alone, raised |-> raised,
            results |-> b.results]
  BY <1>2, <1>9, <1>13 DEF BatchShape
<1>15. c.mode = b.mode /\ c.rows = b.rows /\ c.alone = alone /\ c.raised = raised
       /\ c.results = b.results
  BY <1>14
<1>16. \A k \in 1..Len(c.alone) : c.alone[k] \in FilterResults(c.mode, c.rows[k], Alone)
  <2> SUFFICES ASSUME NEW k \in 1..(n + 1)
               PROVE  alone[k] \in FilterResults(b.mode, b.rows[k], Alone)
    BY <1>12, <1>15
  <2>1. CASE k = n + 1 BY <1>5, <1>12, <2>1
  <2>2. CASE k \in 1..n BY <1>2, <1>3, <1>12, <2>2 DEF BatchShape
  <2> QED BY <1>4, <2>1, <2>2
<1>17. \E j \in Joint(c.mode, c.rows) : c.results = BatchRows(c.mode, c.rows, j)
  BY <1>2, <1>15 DEF BatchShape
<1>18. /\ c.mode \in Modes /\ c.rows \in Batches /\ c.alone \in Seq(OwnResults)
       /\ c = [mode |-> c.mode, rows |-> c.rows, alone |-> c.alone, raised |-> c.raised,
               results |-> c.results]
  BY <1>2, <1>12, <1>14, <1>15 DEF BatchShape
<1>19. CASE whole
  <2>1. phase' = "batched" BY <1>9, <1>19
  <2>2. Len(c.alone) = Len(c.rows) BY <1>7, <1>15, <1>19
  <2>3. c.raised <=> Differ(c.results, c.alone) BY <1>8, <1>15, <1>19
  <2>4. BatchShape(c, TRUE) BY <1>16, <1>17, <1>18, <2>2, <2>3 DEF BatchShape
  <2> QED BY <1>13, <2>1, <2>4 DEF BatchInv
<1>20. CASE ~whole
  <2>1. phase' = "comparing" BY <1>9, <1>20
  <2>2. Len(c.alone) < Len(c.rows)
    <3>1. Len(alone) # Len(b.rows) BY <1>7, <1>20
    <3>2. Len(b.rows) \in Nat BY <1>4
    <3> QED BY <1>4, <1>12, <1>15, <3>1, <3>2
  <2>3. BatchShape(c, FALSE) BY <1>16, <1>17, <1>18, <2>2 DEF BatchShape
  <2> QED BY <1>13, <2>1, <2>3 DEF BatchInv
<1> QED BY <1>19, <1>20

\* No batch has been asked for.
LEMMA BatchInit == Init => BatchInv
  BY DEF Init, BatchInv

\* The rows stay those of one problem, and those obtained alone those of the rows
\* (apply_cbf_filter_batch).
LEMMA BatchNext == ASSUME BatchInv, [Next]_vars PROVE BatchInv'
<1>1. CASE Start BY <1>1 DEF Start, BatchInv
<1>2. CASE Roll BY <1>2 DEF Roll, BatchInv
<1>3. CASE Batch BY <1>3, BatchBegins
<1>4. CASE Compare BY <1>4, ComparisonGoesOn
<1>5. CASE Stopped \/ UNCHANGED vars BY <1>5 DEF Stopped, vars, BatchInv
<1> QED BY <1>1, <1>2, <1>3, <1>4, <1>5 DEF Next

\* A result of a row solved alone that is optimal has the accurate control.
LEMMA AloneIsAccurate ==
  ASSUME NEW mode, NEW case \in Cases, NEW r \in FilterResults(mode, case, Alone),
         r.status = "optimal"
  PROVE  r.u = Accurate(mode, case).u
<1>1. PICK ans \in Answers(mode, case) : r = Result(mode, case, ans)
  BY DEF FilterResults, Alone
<1>2. r.u = ans.u /\ ans.status = "optimal" BY <1>1 DEF Result
<1>3. ans = Accurate(mode, case) BY <1>2 DEF Answers, Failures
<1> QED BY <1>2, <1>3

\* What the rows of one problem share settles what the batch promises.
LEMMA BatchSettled == ASSUME BatchInv, phase = "batched" PROVE BatchIsSequential
<1>1. PICK b : b = batch OBVIOUS
<1>2. BatchShape(b, TRUE) BY <1>1 DEF BatchInv
<1>3a. PICK asked \in Seq(Cases) : asked = b.rows
  BY <1>2, HorizonAssumption DEF BatchShape
<1>3b. PICK mode, alone : mode = b.mode /\ alone = b.alone
  OBVIOUS
<1>3. asked = b.rows /\ mode = b.mode /\ alone = b.alone
  BY <1>3a, <1>3b
<1>4. PICK joint \in Joint(mode, asked) : b.results = BatchRows(mode, asked, joint)
  BY <1>2, <1>3 DEF BatchShape
<1>5. PICK D : D = 1..Len(asked) OBVIOUS
<1>6. DOMAIN asked = D /\ (\A k \in D : asked[k] \in Cases) BY <1>5, ElementOfSeq
<1>7. DOMAIN alone = D /\ \A k \in D : alone[k] \in FilterResults(mode, asked[k], Alone)
  <2>1. alone \in Seq(OwnResults) /\ Len(alone) = Len(asked)
    BY <1>2, <1>3 DEF BatchShape
  <2> QED BY <1>2, <1>3, <1>5, <2>1 DEF BatchShape
<1>8. JointAgrees(mode, asked, joint) BY JointIsOne
<1>9. \A k \in D : /\ b.results[k].u = joint[k].u /\ b.results[k].status = joint[k].status
                   /\ b.results[k].passed = Passed(mode, asked[k], joint[k].u, joint[k].status)
  <2> SUFFICES ASSUME NEW k \in D
               PROVE  /\ b.results[k].u = joint[k].u /\ b.results[k].status = joint[k].status
                      /\ b.results[k].passed = Passed(mode, asked[k], joint[k].u, joint[k].status)
    OBVIOUS
  <2>1. b.results[k] = Result(mode, asked[k], joint[k])
    BY <1>4, <1>6 DEF BatchRows, BatchRow
  <2> QED BY <2>1 DEF Result
<1>10. b.raised <=> \E k \in D : /\ Finite(joint[k].u) /\ Finite(alone[k].u)
                                 /\ joint[k].u # alone[k].u
  BY <1>2, <1>3, <1>7, <1>9 DEF BatchShape, Differ
<1>11. (\A i \in D : Finite(joint[i].u)) \/ (\A i \in D : ~Finite(joint[i].u))
  BY <1>5, <1>8, NaNIsNone DEF JointAgrees, WithControl, Without, Finite
<1> SUFFICES ASSUME NEW i \in D, NEW j \in D
             PROVE  /\ Finite(joint[i].u) <=> Finite(joint[j].u)
                    /\ joint[i].status = "optimal" =>
                         /\ b.results[i].passed
                         /\ joint[i].u = Nearest(asked[i].wants, Allowed(mode, asked[i]))
                         /\ (\A k \in D : alone[k].status = "optimal") => ~b.raised
                    /\ joint[i].status = "infeasible" =>
                         \E k \in D : Allowed(mode, asked[k]) = {}
                    /\ ~b.raised /\ b.results[i].passed /\ Finite(alone[i].u) =>
                         joint[i].u = alone[i].u
  BY <1>1, <1>3, <1>6, <1>9 DEF BatchIsSequential
<1>12. ASSUME joint[i].status = "optimal"
       PROVE  /\ b.results[i].passed
              /\ joint[i].u = Nearest(asked[i].wants, Allowed(mode, asked[i]))
              /\ (\A k \in D : alone[k].status = "optimal") => ~b.raised
  <2>1. \A k \in D : joint[k] = Accurate(mode, asked[k]) /\ joint[k].status = "optimal"
    BY <1>5, <1>8, <1>12 DEF JointAgrees
  <2>2. b.results[i].passed
    <3>1. Passed(mode, asked[i], joint[i].u, "optimal") BY <1>6, <2>1, AccuratePasses
    <3> QED BY <1>9, <1>12, <3>1
  <2>3. joint[i].u = Nearest(asked[i].wants, Allowed(mode, asked[i]))
    BY <1>6, <2>1, AccurateAnswers
  <2>4. ASSUME \A k \in D : alone[k].status = "optimal" PROVE ~b.raised
    <3>1. \A k \in D : alone[k].u = Accurate(mode, asked[k]).u
      BY <1>6, <1>7, <2>4, AloneIsAccurate
    <3> QED BY <1>10, <2>1, <3>1
  <2> QED BY <2>2, <2>3, <2>4
<1>13. joint[i].status = "infeasible" => \E k \in D : Allowed(mode, asked[k]) = {}
  BY <1>5, <1>8 DEF JointAgrees
<1>14. ~b.raised /\ b.results[i].passed /\ Finite(alone[i].u) => joint[i].u = alone[i].u
  BY <1>9, <1>10 DEF Passed
<1> QED BY <1>11, <1>12, <1>13, <1>14

-----------------------------------------------------------------------------
(***************************************************************************)
(* The gate in front of the loop.                                          *)
(***************************************************************************)

\* Whatever program is run, the filter's variables take no step but those of
\* the module CbfHorizon.
LEMMA ResearchIsHorizon == ASSUME [ResearchNext]_researchVars PROVE [Next]_vars
<1>1. CASE NoStudy /\ NoObservation /\ GatedNext /\ UNCHANGED <<studyVars, gradVars>>
  BY <1>1 DEF GatedNext, GatedStart, Next
<1>2. CASE ~(NoStudy /\ NoObservation /\ GatedNext /\ UNCHANGED <<studyVars, gradVars>>)
  BY <1>2 DEF ResearchNext, researchVars
<1> QED BY <1>1, <1>2

\* The programs that are run, with the gate in front of the loop, take no other
\* steps of the filter than the loop and the batch themselves: what holds of
\* those holds of these (run_receding_horizon_filter).
THEOREM ResearchImplementsHorizon == ResearchSpec => Spec
<1>1. ResearchInit => Init BY DEF ResearchInit
<1> QED BY <1>1, ResearchIsHorizon, PTL DEF ResearchSpec, Spec

\* A batch is what filtering its rows one after another gives where both were
\* solved accurately, it has a control for each row or for none, and rows that
\* may be used agree with those solved alone (apply_cbf_filter_batch), for any
\* number of rows and any answers.
THEOREM BatchesAreSequential == ResearchSpec => []BatchIsSequential
<1>1. ResearchInit => BatchInv BY BatchInit DEF ResearchInit
<1>2. BatchInv /\ [ResearchNext]_researchVars => BatchInv'
  BY ResearchIsHorizon, BatchNext
<1>3. BatchInv => BatchIsSequential
  <2>1. phase # "batched" => BatchIsSequential BY DEF BatchIsSequential
  <2> QED BY <2>1, BatchSettled
<1> QED BY <1>1, <1>2, <1>3, PTL DEF ResearchSpec

GateFields(g, now, forced, status, count, held, bad, unexplained, verdict, raised, corpus) ==
  g = [now |-> now, forced |-> forced, status |-> status, count |-> count, held |-> held,
       bad |-> bad, unexplained |-> unexplained, verdict |-> verdict, raised |-> raised,
       corpus |-> corpus]

GateShape(g) == GateFields(g, g.now, g.forced, g.status, g.count, g.held, g.bad,
                           g.unexplained, g.verdict, g.raised, g.corpus)

\* What the gate holds of a case: one answer of the filter, with a control.
Answered(h, i) ==
  /\ h.case = HeldOut[i] /\ h.result \in Filtered(Nominal, HeldOut[i]) /\ Finite(h.result.u)

Marks == {"pass", "fail", "pending"}

\* The criteria are decided in order.
InOrder(g) ==
  /\ g.now \in 0..7 /\ g.forced \subseteq 1..6
  /\ g.status \in Seq(Marks)
  /\ g.now > 0 => Len(g.status) = g.now - 1
  /\ g.now < 5 => g.held = {}
  /\ g.count \in Nat /\ g.bad \in Nat
  /\ \A h \in g.held : \E i \in 1..Len(HeldOut) : Answered(h, i)

\* While the held-out cases are evaluated: if none was bad so far, each has a
\* control that is held, and is solved.
HeldOutAsked(g) ==
  g.now = 5 /\ g.bad = 0 =>
    /\ \A h \in g.held : Solved(h.result)
    /\ \A i \in 1..g.count : i \in 1..Len(HeldOut) => \E h \in g.held : Answered(h, i)

\* Once that criterion passed.
HeldPassed(g) ==
  g.now > 5 /\ g.status[5] = "pass" =>
    /\ \A i \in 1..Len(HeldOut) : \E h \in g.held : Answered(h, i)
    /\ \A h \in g.held : Solved(h.result) /\ Slack(h.case, h.result.u) >= 0

\* A verdict is green if every criterion passed.
Concluded(g) ==
  g.verdict # <<>> =>
    /\ g.now = 7
    /\ g.verdict[1].all_required_passed => \A i \in 1..6 : g.status[i] = "pass"

GateInv(g) == GateShape(g) /\ InOrder(g) /\ HeldOutAsked(g) /\ HeldPassed(g) /\ Concluded(g)

\* The locals of the gate once a criterion is decided.
LEMMA DecidedFields ==
  ASSUME NEW g, NEW s, GateShape(g)
  PROVE  GateFields(Decided(g, s), g.now + 1, g.forced, Append(g.status, s), 0, g.held, 0, 0,
                    g.verdict, g.raised, g.corpus)
<1>1. PICK now, forced, status, held, verdict, raised, corpus :
        /\ now = g.now + 1 /\ forced = g.forced /\ status = Append(g.status, s)
        /\ held = g.held /\ verdict = g.verdict /\ raised = g.raised /\ corpus = g.corpus
  OBVIOUS
<1>2. PICK old, before, n, b, u :
        old = g.now /\ before = g.status /\ n = g.count /\ b = g.bad /\ u = g.unexplained
  OBVIOUS
<1>3. g = [now |-> old, forced |-> forced, status |-> before, count |-> n, held |-> held,
           bad |-> b, unexplained |-> u, verdict |-> verdict, raised |-> raised,
           corpus |-> corpus]
  BY <1>1, <1>2 DEF GateShape, GateFields
<1>4. Decided(g, s) = [g EXCEPT !.now = now, !.status = status, !.count = 0, !.bad = 0,
                                !.unexplained = 0]
  BY <1>1 DEF Decided
<1>5. Decided(g, s) = [now |-> now, forced |-> forced, status |-> status, count |-> 0,
                       held |-> held, bad |-> 0, unexplained |-> 0, verdict |-> verdict,
                       raised |-> raised, corpus |-> corpus]
  BY <1>3, <1>4
<1> QED BY <1>1, <1>5 DEF GateFields

\* A criterion is decided that is not that of the held-out cases, or does not pass.
LEMMA DecidedKeeps ==
  ASSUME NEW g, NEW s \in Marks, GateInv(g),
         g.now \in 1..6, g.now = 5 => s # "pass"
  PROVE  GateInv(Decided(g, s))
<1>1. PICK d : d = Decided(g, s) OBVIOUS
<1>2. /\ d.now = g.now + 1 /\ d.forced = g.forced /\ d.status = Append(g.status, s)
      /\ d.count = 0 /\ d.held = g.held /\ d.bad = 0 /\ d.verdict = g.verdict /\ GateShape(d)
  <2>1. GateShape(g) BY DEF GateInv
  <2>2. GateFields(d, g.now + 1, g.forced, Append(g.status, s), 0, g.held, 0, 0,
                   g.verdict, g.raised, g.corpus)
    BY <1>1, <2>1, DecidedFields
  <2>3. PICK now, forced, status, held, verdict, raised, corpus :
          /\ now = g.now + 1 /\ forced = g.forced /\ status = Append(g.status, s)
          /\ held = g.held /\ verdict = g.verdict /\ raised = g.raised /\ corpus = g.corpus
    OBVIOUS
  <2>4. GateFields(d, now, forced, status, 0, held, 0, 0, verdict, raised, corpus)
    BY <2>2, <2>3
  <2>5. /\ d.now = now /\ d.forced = forced /\ d.status = status /\ d.count = 0
        /\ d.held = held /\ d.bad = 0 /\ d.verdict = verdict /\ GateShape(d)
    BY <2>4 DEF GateFields, GateShape
  <2> QED BY <2>3, <2>5
<1>3. g.verdict = <<>> BY DEF GateInv, Concluded
<1>4. /\ d.status \in Seq(Marks) /\ Len(d.status) = g.now
      /\ d.status[g.now] = s /\ \A i \in 1..(g.now - 1) : d.status[i] = g.status[i]
  BY <1>2 DEF GateInv, InOrder
<1>5. InOrder(d)
  <2>1. /\ g.now \in 0..7 /\ g.forced \subseteq 1..6
        /\ g.now < 5 => g.held = {}
        /\ \A h \in g.held : \E i \in 1..Len(HeldOut) : Answered(h, i)
    BY DEF GateInv, InOrder
  <2>2. d.now \in 0..7 /\ (d.now < 5 => d.held = {}) BY <1>2, <2>1
  <2>3. d.now > 0 => Len(d.status) = d.now - 1 BY <1>2, <1>4, <2>1
  <2>4. d.count \in Nat /\ d.bad \in Nat BY <1>2
  <2>5. \A h \in d.held : \E i \in 1..Len(HeldOut) : Answered(h, i) BY <1>2, <2>1
  <2>6. d.forced \subseteq 1..6 /\ d.status \in Seq(Marks) BY <1>2, <1>4, <2>1
  <2> QED BY <2>2, <2>3, <2>4, <2>5, <2>6 DEF InOrder
<1>6. HeldOutAsked(d)
  <2>1. d.now = 5 => d.held = {} BY <1>2 DEF GateInv, InOrder
  <2> QED BY <1>2, <2>1 DEF HeldOutAsked
<1>7. HeldPassed(d)
  <2> SUFFICES ASSUME d.now > 5, d.status[5] = "pass" PROVE HeldPassed(d) BY DEF HeldPassed
  <2>1. g.now = 6 /\ g.status[5] = "pass" BY <1>2, <1>4
  <2> QED BY <1>2, <2>1 DEF GateInv, HeldPassed
<1> QED BY <1>1, <1>2, <1>3, <1>5, <1>6, <1>7 DEF GateInv, Concluded

\* Before it is asked, and after it raised, the gate has decided nothing.
LEMMA NothingDecided == GateInv(NoGate) /\ GateInv(Raised)
<1>1. ASSUME NEW g, g.status = <<>>, g.now = 0, g.forced = {}, g.count = 0, g.held = {},
             g.bad = 0, g.verdict = <<>>, GateShape(g)
      PROVE  GateInv(g)
  <2>1. g.status \in Seq(Marks) /\ g.count \in Nat /\ g.bad \in Nat BY <1>1
  <2>2. InOrder(g) BY <1>1, <2>1 DEF InOrder
  <2>3. HeldOutAsked(g) /\ HeldPassed(g) /\ Concluded(g)
    BY <1>1 DEF HeldOutAsked, HeldPassed, Concluded
  <2> QED BY <1>1, <2>2, <2>3 DEF GateInv
<1>2. GateInv(NoGate)
  <2>1. /\ NoGate.status = <<>> /\ NoGate.now = 0 /\ NoGate.forced = {} /\ NoGate.count = 0
        /\ NoGate.held = {} /\ NoGate.bad = 0 /\ NoGate.verdict = <<>> /\ GateShape(NoGate)
    BY DEF NoGate, GateShape, GateFields
  <2> QED BY <1>1, <2>1
<1>3. GateInv(Raised)
  <2>1. PICK g : g = Raised OBVIOUS
  <2>2. g = [now |-> 0, forced |-> {}, status |-> <<>>, count |-> 0,
             held |-> {}, bad |-> 0, unexplained |-> 0, verdict |-> <<>>,
             raised |-> TRUE, corpus |-> FALSE]
    BY <2>1 DEF Raised, NoGate
  <2>3. /\ g.status = <<>> /\ g.now = 0 /\ g.forced = {} /\ g.count = 0
        /\ g.held = {} /\ g.bad = 0 /\ g.verdict = <<>> /\ GateShape(g)
    BY <2>2 DEF GateShape, GateFields
  <2> QED BY <1>1, <2>1, <2>3
<1> QED BY <1>2, <1>3

\* Asked, it begins with the first criterion.
LEMMA AskedBegins == ASSUME Ask PROVE GateInv(gate')
<1>1. PICK f \in Forced, c \in Present :
        gate' = [NoGate EXCEPT !.now = 1, !.forced = f, !.corpus = c]
  BY DEF Ask
<1>2. PICK g : g = gate' OBVIOUS
<1>3. g = [now |-> 1, forced |-> f, status |-> <<>>, count |-> 0, held |-> {}, bad |-> 0,
           unexplained |-> 0, verdict |-> <<>>, raised |-> FALSE, corpus |-> c]
  BY <1>1, <1>2 DEF NoGate
<1>4. /\ g.status = <<>> /\ g.now = 1 /\ g.forced = f /\ g.count = 0 /\ g.held = {}
      /\ g.bad = 0 /\ g.verdict = <<>> /\ GateShape(g)
  BY <1>3 DEF GateShape, GateFields
<1>5. g.status \in Seq(Marks) /\ Len(g.status) = 0 /\ g.count \in Nat /\ g.bad \in Nat BY <1>4
<1>6. InOrder(g) BY <1>4, <1>5, GateAssumption DEF InOrder
<1>7. HeldOutAsked(g) /\ HeldPassed(g) /\ Concluded(g)
  BY <1>4 DEF HeldOutAsked, HeldPassed, Concluded
<1> QED BY <1>2, <1>4, <1>6, <1>7 DEF GateInv

\* Which criterion each step decides.
LEMMA AtIndex ==
  /\ At("stage1") => gate.now = 1
  /\ At("stage2") => gate.now = 2
  /\ At("stage3") => gate.now = 3
  /\ At("disagreement") => gate.now = 4
  /\ At("held_out") => gate.now = 5
  /\ At("unexplained") => gate.now = 6
<1>1. DOMAIN Checklist = 1..6 BY DEF Checklist
<1>2. /\ Checklist[1] = "stage1" /\ Checklist[2] = "stage2" /\ Checklist[3] = "stage3"
      /\ Checklist[4] = "disagreement" /\ Checklist[5] = "held_out"
      /\ Checklist[6] = "unexplained"
  BY DEF Checklist
<1>3. ASSUME NEW c, At(c)
      PROVE  gate.now \in 1..6 /\ Checklist[gate.now] = c
  BY <1>1, <1>3 DEF At
<1>4. \A n \in 1..6 : n = 1 \/ n = 2 \/ n = 3 \/ n = 4 \/ n = 5 \/ n = 6 OBVIOUS
<1> QED BY <1>2, <1>3, <1>4


\* Only the counts differ.
Counting(d, g) == \E n \in Nat, b \in Nat, u \in {d.unexplained} :
  GateFields(d, g.now, g.forced, g.status, n, g.held, b, u, g.verdict, g.raised, g.corpus)

\* The counts of the last criterion say nothing of the cases that were held.
LEMMA CountingKeeps ==
  ASSUME NEW g, NEW d, GateInv(g), g.now = 6, Counting(d, g)
  PROVE  GateInv(d)
<1>1. PICK n \in Nat, b \in Nat, u \in {d.unexplained} :
        GateFields(d, g.now, g.forced, g.status, n, g.held, b, u, g.verdict, g.raised, g.corpus)
  BY DEF Counting
<1>2. PICK forced, status, held, verdict, raised, corpus :
        /\ forced = g.forced /\ status = g.status /\ held = g.held
        /\ verdict = g.verdict /\ raised = g.raised /\ corpus = g.corpus
  OBVIOUS
<1>3. GateFields(d, 6, forced, status, n, held, b, u, verdict, raised, corpus)
  BY <1>1, <1>2
<1>4. /\ d.now = 6 /\ d.forced = forced /\ d.status = status /\ d.count = n
      /\ d.held = held /\ d.bad = b /\ d.verdict = verdict /\ GateShape(d)
  BY <1>3 DEF GateFields, GateShape
<1>5. InOrder(d) BY <1>2, <1>4 DEF GateInv, InOrder
<1>6. HeldOutAsked(d) /\ HeldPassed(d) /\ Concluded(d)
  BY <1>2, <1>4 DEF GateInv, HeldOutAsked, HeldPassed, Concluded
<1> QED BY <1>4, <1>5, <1>6 DEF GateInv

\* The steps of the last criterion change its counts and nothing else.
LEMMA CountsKeep == ASSUME GateInv(gate), Audit \/ AuditBatch \/ Recount PROVE GateInv(gate')
<1>1. PICK g : g = gate OBVIOUS
<1>2. g.now = 6 /\ GateInv(g) BY <1>1, AtIndex DEF Audit, AuditBatch, Recount
<1>3. PICK d : d = gate' OBVIOUS
<1>4. CASE d = Raised BY <1>3, <1>4, NothingDecided
<1>5. PICK forced, status, held, verdict, raised, corpus, n, b, u :
        /\ forced = g.forced /\ status = g.status /\ held = g.held
        /\ verdict = g.verdict /\ raised = g.raised /\ corpus = g.corpus
        /\ n = g.count /\ b = g.bad /\ u = g.unexplained
  OBVIOUS
<1>6. /\ g = [now |-> 6, forced |-> forced, status |-> status, count |-> n, held |-> held,
              bad |-> b, unexplained |-> u, verdict |-> verdict, raised |-> raised,
              corpus |-> corpus]
      /\ n \in Nat /\ b \in Nat
  BY <1>2, <1>5 DEF GateInv, InOrder, GateShape, GateFields
<1>7. CASE \E x : d = [g EXCEPT !.count = @ + 1, !.unexplained = @ + x]
  <2>1. PICK x : d = [g EXCEPT !.count = @ + 1, !.unexplained = @ + x] BY <1>7
  <2>2. PICK m \in Nat : m = n + 1 BY <1>6
  <2>2v. PICK v : v = u + x OBVIOUS
  <2>3. d = [g EXCEPT !.count = m, !.unexplained = v] BY <1>5, <2>1, <2>2, <2>2v
  <2>4. d = [now |-> 6, forced |-> forced, status |-> status, count |-> m, held |-> held,
             bad |-> b, unexplained |-> v, verdict |-> verdict, raised |-> raised,
             corpus |-> corpus]
    BY <1>6, <2>3
  <2>5. GateFields(d, 6, forced, status, m, held, b, v, verdict, raised, corpus)
        /\ v \in {d.unexplained}
    BY <2>4 DEF GateFields
  <2>6. Counting(d, g) BY <1>2, <1>5, <1>6, <2>5 DEF Counting
  <2> QED BY <1>2, <1>3, <2>6, CountingKeeps
<1>8. CASE \E x \in {0, 1} : d = [g EXCEPT !.count = @ + 1, !.bad = @ + x]
  <2>1. PICK x \in {0, 1} : d = [g EXCEPT !.count = @ + 1, !.bad = @ + x] BY <1>8
  <2>2. PICK m \in Nat, c \in Nat : m = n + 1 /\ c = b + x BY <1>6
  <2>3. d = [g EXCEPT !.count = m, !.bad = c] BY <1>5, <2>1, <2>2
  <2>4. d = [now |-> 6, forced |-> forced, status |-> status, count |-> m, held |-> held,
             bad |-> c, unexplained |-> u, verdict |-> verdict, raised |-> raised,
             corpus |-> corpus]
    BY <1>6, <2>3
  <2>5. GateFields(d, 6, forced, status, m, held, c, u, verdict, raised, corpus)
        /\ u \in {d.unexplained}
    BY <2>4 DEF GateFields
  <2>6. Counting(d, g) BY <1>2, <1>5, <1>6, <2>5 DEF Counting
  <2> QED BY <1>2, <1>3, <2>6, CountingKeeps
<1>9. CASE Audit
  <2>1. \E r \in Filtered(Probes[g.count + 1].mode, Probes[g.count + 1].case) :
          d = [g EXCEPT !.count = @ + 1,
                 !.unexplained = @ + (IF Classify(r) = "unexplained" THEN 1 ELSE 0)]
    BY <1>1, <1>3, <1>9 DEF Audit
  <2> QED BY <1>7, <2>1
<1>10. CASE AuditBatch
  <2>1. \E c \in BatchDemos :
          d = IF c.raised THEN Raised
              ELSE [g EXCEPT !.count = @ + 1, !.unexplained =
                      @ + Cardinality({k \in DOMAIN c.rows : Classify(c.rows[k]) = "unexplained"})]
    BY <1>1, <1>3, <1>10 DEF AuditBatch
  <2> QED BY <1>4, <1>7, <2>1
<1>11. CASE Recount
  <2>1. \E r \in Filtered(Nominal, HeldOut[g.count - Len(Probes) + 1]) :
          d = [g EXCEPT !.count = @ + 1, !.bad = @ + (IF Solved(r) THEN 0 ELSE 1)]
    BY <1>1, <1>3, <1>11 DEF Recount
  <2>2. PICK r \in Filtered(Nominal, HeldOut[g.count - Len(Probes) + 1]) :
          d = [g EXCEPT !.count = @ + 1, !.bad = @ + (IF Solved(r) THEN 0 ELSE 1)]
    BY <2>1
  <2>3. PICK x \in {0, 1} : x = IF Solved(r) THEN 0 ELSE 1 OBVIOUS
  <2>4. d = [g EXCEPT !.count = @ + 1, !.bad = @ + x] BY <2>2, <2>3
  <2> QED BY <1>8, <2>4
<1> QED BY <1>9, <1>10, <1>11

\* One more of the held-out cases is filtered.
LEMMA EvaluationKeeps == ASSUME GateInv(gate), EvaluateHeldOut PROVE GateInv(gate')
<1>1. PICK g : g = gate OBVIOUS
<1>2. /\ g.now = 5 /\ GateInv(g) /\ g.count < Len(HeldOut)
      /\ InOrder(g) /\ HeldOutAsked(g) /\ Concluded(g)
  BY <1>1, AtIndex DEF EvaluateHeldOut, GateInv
<1>3. PICK d : d = gate' OBVIOUS
<1>4. PICK forced, status, held, verdict, raised, corpus, n, b, u :
        /\ forced = g.forced /\ status = g.status /\ held = g.held
        /\ verdict = g.verdict /\ raised = g.raised /\ corpus = g.corpus
        /\ n = g.count /\ b = g.bad /\ u = g.unexplained
  OBVIOUS
<1>5. /\ g = [now |-> 5, forced |-> forced, status |-> status, count |-> n, held |-> held,
              bad |-> b, unexplained |-> u, verdict |-> verdict, raised |-> raised,
              corpus |-> corpus]
      /\ n \in Nat /\ b \in Nat
  BY <1>2, <1>4 DEF GateInv, InOrder, GateShape, GateFields
<1>6. PICK m \in Nat : m = n + 1 BY <1>5
<1>7. m \in 1..Len(HeldOut) /\ HeldOut[m] \in Cases
  <2>1. n < Len(HeldOut) /\ HeldOut \in Seq(Cases) BY <1>2, <1>4, GateAssumption
  <2>2. m \in 1..Len(HeldOut) BY <1>5, <1>6, <2>1
  <2> QED BY <2>1, <2>2, ElementOfSeq
<1>8. PICK case : case = HeldOut[m] OBVIOUS
<1>9. PICK r \in Filtered(Nominal, case) :
        d = [g EXCEPT !.count = @ + 1, !.bad = @ + (IF Solved(r) THEN 0 ELSE 1),
               !.held = IF Finite(r.u) THEN @ \cup {[case |-> case, result |-> r]} ELSE @]
  BY <1>1, <1>3, <1>4, <1>6, <1>8 DEF EvaluateHeldOut
<1>10. PICK h : h = [case |-> case, result |-> r] OBVIOUS
<1>11. PICK c \in Nat : c = b + (IF Solved(r) THEN 0 ELSE 1) BY <1>5
<1>12. PICK kept : kept = IF Finite(r.u) THEN held \cup {h} ELSE held OBVIOUS
<1>13. d = [g EXCEPT !.count = m, !.bad = c, !.held = kept]
  BY <1>4, <1>6, <1>9, <1>10, <1>11, <1>12
<1>14. d = [now |-> 5, forced |-> forced, status |-> status, count |-> m, held |-> kept,
            bad |-> c, unexplained |-> u, verdict |-> verdict, raised |-> raised,
            corpus |-> corpus]
  BY <1>5, <1>13
<1>15. /\ d.now = 5 /\ d.forced = forced /\ d.status = status /\ d.count = m
       /\ d.held = kept /\ d.bad = c /\ d.verdict = verdict /\ GateShape(d)
  BY <1>14 DEF GateFields, GateShape
<1>16. Finite(r.u) => Answered(h, m)
  <2>1. h.case = HeldOut[m] /\ h.result = r BY <1>8, <1>10
  <2> QED BY <1>8, <1>9, <2>1 DEF Answered
<1>17. \A x \in kept : \E i \in 1..Len(HeldOut) : Answered(x, i)
  <2> SUFFICES ASSUME NEW x \in kept PROVE \E i \in 1..Len(HeldOut) : Answered(x, i) OBVIOUS
  <2>1. CASE x \in held BY <1>2, <1>4, <2>1 DEF InOrder
  <2>2. CASE x \notin held
    <3>1. Finite(r.u) /\ x = h BY <1>12, <2>2
    <3> QED BY <1>7, <1>16, <3>1
  <2> QED BY <2>1, <2>2
<1>18. InOrder(d)
  <2>1. /\ forced \subseteq 1..6 /\ status \in Seq(Marks) /\ Len(status) = 4
    BY <1>2, <1>4 DEF InOrder
  <2>2. 5 \in 0..7 /\ ~(5 < 5) /\ 5 - 1 = 4 OBVIOUS
  <2> QED BY <1>15, <1>17, <2>1, <2>2 DEF InOrder
<1>19. HeldOutAsked(d)
  <2> SUFFICES ASSUME c = 0
               PROVE  /\ \A x \in kept : Solved(x.result)
                      /\ \A i \in 1..m : i \in 1..Len(HeldOut) => \E x \in kept : Answered(x, i)
    BY <1>15 DEF HeldOutAsked
  <2>1. Solved(r) /\ b = 0 BY <1>5, <1>11
  <2>2. Finite(r.u) /\ kept = held \cup {h} BY <1>12, <2>1 DEF Solved
  <2>3. /\ \A x \in held : Solved(x.result)
        /\ \A i \in 1..n : i \in 1..Len(HeldOut) => \E x \in held : Answered(x, i)
    BY <1>2, <1>4, <2>1 DEF HeldOutAsked
  <2>4. Solved(h.result) BY <1>10, <2>1
  <2>5. ASSUME NEW i \in 1..m, i \in 1..Len(HeldOut) PROVE \E x \in kept : Answered(x, i)
    <3>1. CASE i = m BY <1>16, <2>2, <3>1
    <3>2. CASE i \in 1..n BY <2>2, <2>3, <2>5, <3>2
    <3> QED BY <1>5, <1>6, <3>1, <3>2
  <2> QED BY <2>2, <2>3, <2>4, <2>5
<1>20. HeldPassed(d) BY <1>15 DEF HeldPassed
<1>21. Concluded(d)
  <2>1. verdict = <<>> BY <1>2, <1>4 DEF Concluded
  <2> QED BY <1>15, <2>1 DEF Concluded
<1> QED BY <1>3, <1>15, <1>18, <1>19, <1>20, <1>21 DEF GateInv

\* The criterion of the held-out cases passes if none of them was bad and no
\* margin is negative.
LEMMA MarginsKeep == ASSUME GateInv(gate), HeldOutMargins PROVE GateInv(gate')
<1>1. PICK g : g = gate OBVIOUS
<1>2. /\ g.now = 5 /\ GateInv(g) /\ g.count = Len(HeldOut)
      /\ InOrder(g) /\ HeldOutAsked(g) /\ Concluded(g) /\ GateShape(g)
  BY <1>1, AtIndex DEF HeldOutMargins, GateInv
<1>3. PICK enough \in BOOLEAN : enough <=> Len(HeldOut) >= MinHeldOut BY Zenon
<1>4. PICK good \in BOOLEAN :
        good <=> g.bad = 0 /\ \A h \in g.held : Slack(h.case, h.result.u) >= 0
  BY Zenon
<1>5. PICK s \in Marks : s = IF enough THEN Mark(good) ELSE "pending" BY DEF Mark, Marks
<1>6. PICK d : d = gate' OBVIOUS
<1>7. d = [Decided(g, s) EXCEPT !.held = IF enough /\ good THEN @ ELSE {}]
  <2>1. (Len(HeldOut) >= MinHeldOut) = enough BY <1>3, GateAssumption
  <2>2. (g.bad = 0 /\ \A h \in g.held : Slack(h.case, h.result.u) >= 0) = good BY <1>4, Zenon
  <2> QED BY <1>1, <1>5, <1>6, <2>1, <2>2, Zenon DEF HeldOutMargins
<1>8. PICK forced, status, verdict, raised, corpus, kept :
        /\ forced = g.forced /\ status = Append(g.status, s)
        /\ verdict = g.verdict /\ raised = g.raised /\ corpus = g.corpus
        /\ kept = IF enough /\ good THEN g.held ELSE {}
  OBVIOUS
<1>9. PICK held : held = g.held OBVIOUS
<1>10. Decided(g, s) = [now |-> 6, forced |-> forced, status |-> status, count |-> 0,
                        held |-> held, bad |-> 0, unexplained |-> 0, verdict |-> verdict,
                        raised |-> raised, corpus |-> corpus]
  <2>1. GateFields(Decided(g, s), g.now + 1, g.forced, Append(g.status, s), 0, g.held, 0, 0,
                   g.verdict, g.raised, g.corpus)
    BY <1>2, DecidedFields
  <2>2. g.now + 1 = 6 BY <1>2
  <2> QED BY <1>8, <1>9, <2>1, <2>2 DEF GateFields
<1>11. d = [Decided(g, s) EXCEPT !.held = kept]
  <2>1. Decided(g, s).held = g.held BY <1>9, <1>10
  <2> QED BY <1>7, <1>8, <2>1
<1>12. d = [now |-> 6, forced |-> forced, status |-> status, count |-> 0,
            held |-> kept, bad |-> 0, unexplained |-> 0, verdict |-> verdict,
            raised |-> raised, corpus |-> corpus]
  BY <1>10, <1>11
<1>13. /\ d.now = 6 /\ d.forced = forced /\ d.status = status /\ d.count = 0
       /\ d.held = kept /\ d.bad = 0 /\ d.verdict = verdict /\ GateShape(d)
  BY <1>12 DEF GateFields, GateShape
<1>14. status \in Seq(Marks) /\ Len(status) = 5 /\ status[5] = s
  <2>1. g.status \in Seq(Marks) /\ Len(g.status) = 4 BY <1>2 DEF InOrder
  <2> QED BY <1>8, <2>1
<1>15. InOrder(d)
  <2>1. forced \subseteq 1..6 /\ \A h \in kept : \E i \in 1..Len(HeldOut) : Answered(h, i)
    BY <1>2, <1>8 DEF InOrder
  <2>2. 6 \in 0..7 /\ ~(6 < 5) /\ 6 - 1 = 5 /\ 0 \in Nat OBVIOUS
  <2> QED BY <1>13, <1>14, <2>1, <2>2 DEF InOrder
<1>16. HeldPassed(d)
  <2> SUFFICES ASSUME s = "pass"
               PROVE  /\ \A i \in 1..Len(HeldOut) : \E h \in kept : Answered(h, i)
                      /\ \A h \in kept : Solved(h.result) /\ Slack(h.case, h.result.u) >= 0
    BY <1>13, <1>14 DEF HeldPassed
  <2>1. enough /\ good BY <1>5 DEF Mark
  <2>2. kept = g.held /\ g.bad = 0 /\ \A h \in g.held : Slack(h.case, h.result.u) >= 0
    BY <1>4, <1>8, <2>1
  <2>3. /\ \A h \in g.held : Solved(h.result)
        /\ \A i \in 1..Len(HeldOut) : \E h \in g.held : Answered(h, i)
    BY <1>2, <2>2 DEF HeldOutAsked
  <2> QED BY <2>2, <2>3
<1>17. HeldOutAsked(d) /\ Concluded(d)
  <2>1. verdict = <<>> BY <1>2, <1>8 DEF Concluded
  <2> QED BY <1>13, <2>1 DEF HeldOutAsked, Concluded
<1> QED BY <1>6, <1>13, <1>15, <1>16, <1>17 DEF GateInv

\* The verdict is green if every criterion passed.
LEMMA ConclusionKeeps == ASSUME GateInv(gate), Conclude PROVE GateInv(gate')
<1>1. PICK g : g = gate OBVIOUS
<1>2. g.now = 7 /\ GateInv(g) BY <1>1 DEF Conclude, Checklist
<1>3. PICK green \in BOOLEAN : green <=> \A i \in DOMAIN g.status : g.status[i] = "pass" BY Zenon
<1>4. PICK d : d = gate' OBVIOUS
<1>5. d = [g EXCEPT !.verdict = <<[asked |-> TRUE, unblock_allowed |-> green,
                                   all_required_passed |-> green]>>]
  <2>1. Green4 = green BY <1>1, <1>3, Zenon DEF Green4
  <2> QED BY <1>1, <1>4, <2>1 DEF Conclude
<1>6. PICK v : v = <<[asked |-> TRUE, unblock_allowed |-> green,
                      all_required_passed |-> green]>>
  OBVIOUS
<1>7. v # <<>> /\ v[1].all_required_passed = green BY <1>6
<1>8. PICK forced, status, held, raised, corpus, n, b, u :
        /\ forced = g.forced /\ status = g.status /\ held = g.held
        /\ raised = g.raised /\ corpus = g.corpus
        /\ n = g.count /\ b = g.bad /\ u = g.unexplained
  OBVIOUS
<1>9. d = [now |-> 7, forced |-> forced, status |-> status, count |-> n, held |-> held,
           bad |-> b, unexplained |-> u, verdict |-> v, raised |-> raised, corpus |-> corpus]
  BY <1>2, <1>5, <1>6, <1>8 DEF GateInv, GateShape, GateFields
<1>10. /\ d.now = 7 /\ d.forced = forced /\ d.status = status /\ d.count = n
       /\ d.held = held /\ d.bad = b /\ d.verdict = v /\ GateShape(d)
  BY <1>9 DEF GateFields, GateShape
<1>11. InOrder(d) BY <1>2, <1>8, <1>10 DEF GateInv, InOrder
<1>12. HeldOutAsked(d) /\ HeldPassed(d)
  BY <1>2, <1>8, <1>10 DEF GateInv, HeldOutAsked, HeldPassed
<1>13. Concluded(d)
  <2>1. DOMAIN status = 1..6 BY <1>2, <1>8 DEF GateInv, InOrder
  <2>2. green => \A i \in 1..6 : status[i] = "pass" BY <1>3, <1>8, <2>1
  <2> QED BY <1>7, <1>10, <2>2 DEF Concluded
<1> QED BY <1>4, <1>10, <1>11, <1>12, <1>13 DEF GateInv

\* Every step of the evaluation (evaluate_stage4_gate).
LEMMA GateStepKeeps == ASSUME GateInv(gate), GateStep PROVE GateInv(gate')
<1>1. CASE Ask BY <1>1, AskedBegins
<1>2. ASSUME NEW s \in Marks, gate' = Decided(gate, s), gate.now \in 1..6,
             gate.now = 5 => s # "pass"
      PROVE  GateInv(gate')
  BY <1>2, DecidedKeeps
<1>3. CASE gate' = Raised BY <1>3, NothingDecided
<1>4. ForcedPending => GateInv(gate')
  <2>1. gate.forced \subseteq 1..6 BY DEF GateInv, InOrder
  <2>2. "pending" \in Marks BY DEF Marks
  <2> QED BY <1>2, <2>1, <2>2 DEF ForcedPending
<1>5. \A ok : Mark(ok) \in Marks BY DEF Mark, Marks
<1>6. StageOne \/ StageTwo \/ StageThree \/ Disagreement => GateInv(gate')
  <2> SUFFICES ASSUME StageOne \/ StageTwo \/ StageThree \/ Disagreement PROVE GateInv(gate')
    OBVIOUS
  <2>1. gate.now \in 1..6 /\ gate.now # 5
    BY AtIndex DEF StageOne, StageTwo, StageThree, Disagreement
  <2>2. gate' = Raised \/ \E ok : gate' = Decided(gate, Mark(ok))
    BY DEF StageOne, StageTwo, StageThree, Disagreement
  <2> QED BY <1>2, <1>3, <1>5, <2>1, <2>2
<1>7. Missing => GateInv(gate')
  <2> SUFFICES ASSUME Missing PROVE GateInv(gate') OBVIOUS
  <2>1. gate.now \in 1..6 /\ gate' = Decided(gate, "pending") BY AtIndex DEF Missing
  <2>2. "pending" \in Marks BY DEF Marks
  <2> QED BY <1>2, <2>1, <2>2
<1>8. Unexplained => GateInv(gate')
  <2> SUFFICES ASSUME Unexplained PROVE GateInv(gate') OBVIOUS
  <2>1. gate.now = 6 BY AtIndex DEF Unexplained
  <2>2. \E ok : gate' = Decided(gate, Mark(ok)) BY DEF Unexplained
  <2> QED BY <1>2, <1>5, <2>1, <2>2
<1> QED BY <1>1, <1>4, <1>6, <1>7, <1>8, EvaluationKeeps, MarginsKeep, CountsKeep,
           ConclusionKeeps DEF GateStep

\* Once the loop is entered, or a batch, the gate's locals are gone.
LEMMA GateNextKeeps == ASSUME GateInv(gate), [ResearchNext]_researchVars PROVE GateInv(gate')
<1>1. CASE GateStep BY <1>1, GateStepKeeps
<1>2. CASE GatedStart BY <1>2, NothingDecided DEF GatedStart
<1>3. CASE gate' = gate BY <1>3
<1>4. GatedNext => GateStep \/ GatedStart \/ gate' = gate BY DEF GatedNext
<1> QED BY <1>1, <1>2, <1>3, <1>4 DEF ResearchNext, researchVars

\* What a passed criterion says of the cases it held.
LEMMA GreenSpeaks ==
  ASSUME GateInv(gate), gate.verdict # <<>>, gate.verdict[1].all_required_passed
  PROVE  /\ {h.case : h \in gate.held} = {HeldOut[i] : i \in DOMAIN HeldOut}
         /\ \A h \in gate.held :
              /\ Feasible(h.result)
              /\ Keeps(h.case, h.case.at, Plus(h.case.at, h.result.u))
<1>1. gate.now > 5 /\ gate.status[5] = "pass" BY DEF GateInv, Concluded
<1>2. /\ \A i \in 1..Len(HeldOut) : \E h \in gate.held : Answered(h, i)
      /\ \A h \in gate.held : Solved(h.result) /\ Slack(h.case, h.result.u) >= 0
      /\ \A h \in gate.held : \E i \in 1..Len(HeldOut) : Answered(h, i)
  BY <1>1 DEF GateInv, HeldPassed, InOrder
<1>3. DOMAIN HeldOut = 1..Len(HeldOut) /\ \A i \in 1..Len(HeldOut) : HeldOut[i] \in Cases
  BY GateAssumption, ElementOfSeq
<1>4. {h.case : h \in gate.held} = {HeldOut[i] : i \in DOMAIN HeldOut}
  BY <1>2, <1>3 DEF Answered
<1>5. ASSUME NEW h \in gate.held
      PROVE  /\ Feasible(h.result)
             /\ Keeps(h.case, h.case.at, Plus(h.case.at, h.result.u))
  <2>1. PICK i \in 1..Len(HeldOut) : Answered(h, i) BY <1>2
  <2>2. h.case \in Cases /\ h.result.u \in Plane BY <1>3, <2>1 DEF Answered, Finite
  <2>3. Feasible(h.result) BY <1>2 DEF Solved, Feasible
  <2>4. Slack(h.case, h.result.u) >= 0 BY <1>2
  <2> QED BY <2>2, <2>3, <2>4, AffineKeeps
<1> QED BY <1>4, <1>5

\* Of every result that is kept, all who read it think alike.
LEMMA KeptResultsMeanOne ==
  ASSUME HInv, BatchInv, GateInv(gate)
  PROVE  \A r \in {steps[i].result : i \in DOMAIN steps}
                    \cup {batch.results[i] : i \in DOMAIN batch.rows}
                    \cup {h.result : h \in gate.held} : OneFeasible(r)
<1>1. ASSUME NEW i \in DOMAIN steps PROVE OneFeasible(steps[i].result)
  <2>1. /\ i \in 1..Len(steps) /\ steps[i] \in RHStep /\ steps # <<>>
    <3>1. steps \in Seq(RHStep) BY DEF HInv, Chained
    <3> QED BY <3>1, ElementOfSeq
  <2>2. steps[i].result \in FilterResults(call.mode, Seen(i), call.baseline)
    BY <2>1 DEF HInv, Recorded
  <2>3. Seen(i) \in Cases
    <3>1. call \in Calls BY <2>1 DEF HInv, Chained
    <3> QED BY <2>1, <3>1, CallIsCase, SameObstacle DEF Seen, RHStep
  <2> QED BY <2>2, <2>3, ResultsMeanOne
<1>2. ASSUME NEW i \in DOMAIN batch.rows PROVE OneFeasible(batch.results[i])
  <2>1. CASE phase \notin {"comparing", "batched"}
    <3>1. batch.rows = <<>> BY <2>1 DEF BatchInv, NoBatch
    <3> QED BY <1>2, <3>1
  <2>2. CASE phase \in {"comparing", "batched"}
    <3>1a. PICK asked \in Seq(Cases) : asked = batch.rows
      BY <2>2, HorizonAssumption DEF BatchInv, BatchShape
    <3>1b. PICK mode : mode = batch.mode OBVIOUS
    <3>1. asked = batch.rows /\ mode = batch.mode BY <3>1a, <3>1b
    <3>2. PICK joint \in Joint(mode, asked) : batch.results = BatchRows(mode, asked, joint)
      BY <2>2, <3>1 DEF BatchInv, BatchShape
    <3>3. i \in 1..Len(asked) BY <3>1
    <3>4. joint[i] \in WithControl \cup Without BY <3>3, JointIsOne DEF JointAgrees
    <3>5. batch.results[i] = Result(mode, asked[i], joint[i])
      BY <3>1, <3>2 DEF BatchRows, BatchRow
    <3> QED BY <3>4, <3>5, AnswersMeanOne
  <2> QED BY <2>1, <2>2
<1>3. ASSUME NEW h \in gate.held PROVE OneFeasible(h.result)
  <2>1. PICK i \in 1..Len(HeldOut) : Answered(h, i) BY DEF GateInv, InOrder
  <2>2. HeldOut[i] \in Cases BY GateAssumption, ElementOfSeq
  <2> QED BY <2>1, <2>2, ResultsMeanOne DEF Answered, Filtered
<1> QED BY <1>1, <1>2, <1>3

\* A robust control of the loop is one its independent validation confirms.
LEMMA RobustStepsConfirmed ==
  ASSUME HInv, NEW i \in DOMAIN steps, call.mode = Robust, steps[i].result.passed
  PROVE  RobustnessHolds([call.scene EXCEPT !.at = steps[i].at], steps[i].result.u)
<1>1. i \in 1..Len(steps) /\ steps[i] \in RHStep /\ steps # <<>>
  <2>1. steps \in Seq(RHStep) BY DEF HInv, Chained
  <2> QED BY <2>1, ElementOfSeq
<1>2. steps[i].result \in FilterResults(call.mode, Seen(i), call.baseline)
  BY <1>1 DEF HInv, Recorded
<1>3. Seen(i) \in Cases
  <2>1. call \in Calls BY <1>1 DEF HInv, Chained
  <2> QED BY <1>1, <2>1, CallIsCase, SameObstacle DEF Seen, RHStep
<1>4. steps[i].result.u \in Plane /\ RobustHolds(Seen(i), steps[i].result.u)
  BY <1>2, <1>3, VerifiedControl DEF Holds, Robust
<1>5. RobustnessHolds(Seen(i), steps[i].result.u) BY <1>3, <1>4, RobustIsConfirmed
<1> QED BY <1>5 DEF Seen

\* Every reachable state of the research programs: the loop's steps are chained,
\* the batch's rows are those of one problem, and the gate decides its criteria
\* in order (run_receding_horizon_filter, apply_cbf_filter_batch,
\* evaluate_stage4_gate).
THEOREM ResearchInvariant == ResearchSpec => [](HInv /\ BatchInv /\ GateInv(gate))
<1>1. ResearchInit => HInv /\ BatchInv /\ GateInv(gate)
  BY HInit, BatchInit, NothingDecided DEF ResearchInit, GateInit
<1>2. (HInv /\ BatchInv /\ GateInv(gate)) /\ [ResearchNext]_researchVars
        => (HInv /\ BatchInv /\ GateInv(gate))'
  <2> SUFFICES ASSUME HInv, BatchInv, GateInv(gate), [ResearchNext]_researchVars
               PROVE  HInv' /\ BatchInv' /\ GateInv(gate')
    OBVIOUS
  <2> QED BY ResearchIsHorizon, HNext, BatchNext, GateNextKeeps
<1> QED BY <1>1, <1>2, PTL DEF ResearchSpec

\* The loop, the taxonomy of failures, the gate and verification have one
\* meaning of feasible (_run_trajectory, classify_filter_result,
\* evaluate_held_out_nominal), a robust control that was verified is confirmed
\* by its independent validation, and a green gate speaks for the loop.
THEOREM GateAndLoopAgree == ResearchSpec => []GateSpeaksForLoop
<1>1. HInv /\ BatchInv /\ GateInv(gate) => GateSpeaksForLoop
  <2> SUFFICES ASSUME HInv, BatchInv, GateInv(gate) PROVE GateSpeaksForLoop OBVIOUS
  <2>1. \A r \in {steps[i].result : i \in DOMAIN steps}
                   \cup {batch.results[i] : i \in DOMAIN batch.rows}
                   \cup {h.result : h \in gate.held} :
          /\ Feasible(r) <=> Solved(r) \/ r.status = "no_filter"
          /\ Feasible(r) <=> Classify(r) \in {"feasible_optimal", "feasible_inaccurate"}
          /\ r.passed => Feasible(r)
          /\ Classify(r) = "unexplained" <=> r.status = "user_limit"
    BY KeptResultsMeanOne, Zenon DEF OneFeasible
  <2> QED BY <2>1, RobustStepsConfirmed, GreenSpeaks, Zenon DEF GateSpeaksForLoop
<1> QED BY <1>1, ResearchInvariant, PTL
-----------------------------------------------------------------------------
(***************************************************************************)
(* The observatory of gradients: the projection and its labels.            *)
(***************************************************************************)

\* Numbers that have an upper bound have a greatest one among them, and those
\* that have a lower bound a least one.
LEMMA HasGreatest ==
  ASSUME NEW S \in SUBSET Int, S # {}, NEW u \in Int, \A x \in S : x <= u
  PROVE  Max(S) \in S /\ \A y \in S : Max(S) >= y
<1> DEFINE N == {u - x : x \in S}
<1>1. N \subseteq Nat /\ N # {} OBVIOUS
<1>2. PICK i \in N : \A j \in N : i <= j BY <1>1, LeastNumber
<1>3. PICK x \in S : i = u - x OBVIOUS
<1>4. \A y \in S : x >= y
  <2> SUFFICES ASSUME NEW y \in S PROVE x >= y OBVIOUS
  <2>1. u - x <= u - y BY <1>2, <1>3
  <2> QED BY <2>1
<1>5. \E m \in S : \A y \in S : m >= y BY <1>4
<1> QED BY <1>5 DEF Max

\* A set of integers with a lower bound has a least member.
LEMMA HasLeast ==
  ASSUME NEW S \in SUBSET Int, S # {}, NEW u \in Int, \A x \in S : u <= x
  PROVE  Min(S) \in S /\ \A y \in S : Min(S) <= y
<1> DEFINE N == {x - u : x \in S}
<1>1. N \subseteq Nat /\ N # {}
  <2>1. \A x \in S : x - u \in Nat OBVIOUS
  <2> QED BY <2>1
<1>2. PICK i \in N : \A j \in N : i <= j BY <1>1, LeastNumber
<1>3. PICK x \in S : i = x - u OBVIOUS
<1>4. \A y \in S : x <= y
  <2> SUFFICES ASSUME NEW y \in S PROVE x <= y OBVIOUS
  <2>1. x - u <= y - u BY <1>2, <1>3
  <2> QED BY <2>1
<1>5. \E m \in S : \A y \in S : m <= y BY <1>4
<1> QED BY <1>5 DEF Min

\* The greater and the less of two numbers.
LEMMA OfTwo ==
  ASSUME NEW a \in Int, NEW b \in Int
  PROVE  /\ Max({a, b}) = IF a >= b THEN a ELSE b
         /\ Min({a, b}) = IF a <= b THEN a ELSE b
<1>1. \E c \in Int : c >= a /\ c >= b
  BY DEF Max
<1>2. \E c \in Int : c <= a /\ c <= b
  OBVIOUS
<1>3. Max({a, b}) \in {a, b} /\ \A y \in {a, b} : Max({a, b}) >= y
  BY <1>1, HasGreatest
<1>4. Min({a, b}) \in {a, b} /\ \A y \in {a, b} : Min({a, b}) <= y
  BY <1>2, HasLeast
<1> QED BY <1>3, <1>4

\* A spec in whole numbers, whose rows may be moved.
Sited(s) == /\ s.total \in Int /\ s.lower \in Int /\ s.upper \in Int
            /\ s.delta \in Int /\ s.previous \in Int /\ s.moved[2] \in Int

\* How far a row is moved.
Shift(s, r) == IF s.moved[1] = <<r.family, r.index>> THEN s.moved[2] ELSE 0

\* The rows declared at a place are bounded, and there is one on each side.
LEMMA DeclaredRows ==
  ASSUME NEW s, Sited(s)
  PROVE  /\ \A r \in Declared(s) :
              /\ r = Row(r.family, r.index, r.side, r.at)
              /\ r.at \in Int /\ r.side \in {"low", "high"}
         /\ \E u \in Int : \A r \in Declared(s) : r.at <= u
         /\ \E u \in Int : \A r \in Declared(s) : u <= r.at
         /\ \E r \in Declared(s) : r.side = "low"
         /\ \E r \in Declared(s) : r.side = "high"
<1> DEFINE A == {s.previous - 2 * s.delta, s.previous + 2 * s.delta, 2 * s.lower - s.total,
                 s.total - 2 * s.lower, 2 * s.upper - s.total, s.total - 2 * s.upper, s.total}
<1>1. A \subseteq Int BY DEF Sited
<1>2. \A r \in Declared(s) : r = Row(r.family, r.index, r.side, r.at)
  BY DEF Declared, Row
<1>3. \A r \in Declared(s) : r.at \in A /\ r.side \in {"low", "high"}
  BY DEF Declared, Row
<1>4. \E u \in Int : \A x \in A : x <= u
  <2>1. \A a, b \in Int : \E c \in Int : a <= c /\ b <= c OBVIOUS
  <2>2. PICK t \in Int : s.previous - 2 * s.delta <= t /\ s.previous + 2 * s.delta <= t
    BY <1>1, <2>1
  <2>3. PICK u \in Int : 2 * s.lower - s.total <= u /\ s.total - 2 * s.lower <= u BY <1>1, <2>1
  <2>4. PICK v \in Int : 2 * s.upper - s.total <= v /\ s.total - 2 * s.upper <= v BY <1>1, <2>1
  <2>5. PICK w \in Int : u <= w /\ v <= w BY <2>1
  <2>6. PICK x \in Int : t <= x /\ s.total <= x BY <1>1, <2>1
  <2>7. PICK y \in Int : w <= y /\ x <= y BY <2>1
  <2>8. \A z \in A : z <= t \/ z <= u \/ z <= v \/ z <= x BY <2>2, <2>3, <2>4, <2>6
  <2>9. \A z \in A : z <= y
    <3> HIDE DEF A
    <3> SUFFICES ASSUME NEW z \in Int, z <= t \/ z <= u \/ z <= v \/ z <= x PROVE z <= y
      BY <1>1, <2>8
    <3> QED BY <2>5, <2>6, <2>7
  <2> QED BY <2>9
<1>5. \E u \in Int : \A x \in A : u <= x
  <2>1. \A a, b \in Int : \E c \in Int : c <= a /\ c <= b OBVIOUS
  <2>2. PICK t \in Int : t <= s.previous - 2 * s.delta /\ t <= s.previous + 2 * s.delta
    BY <1>1, <2>1
  <2>3. PICK u \in Int : u <= 2 * s.lower - s.total /\ u <= s.total - 2 * s.lower BY <1>1, <2>1
  <2>4. PICK v \in Int : v <= 2 * s.upper - s.total /\ v <= s.total - 2 * s.upper BY <1>1, <2>1
  <2>5. PICK w \in Int : w <= u /\ w <= v BY <2>1
  <2>6. PICK x \in Int : x <= t /\ x <= s.total BY <1>1, <2>1
  <2>7. PICK y \in Int : y <= w /\ y <= x BY <2>1
  <2>8. \A z \in A : t <= z \/ u <= z \/ v <= z \/ x <= z BY <2>2, <2>3, <2>4, <2>6
  <2>9. \A z \in A : y <= z
    <3> HIDE DEF A
    <3> SUFFICES ASSUME NEW z \in Int, t <= z \/ u <= z \/ v <= z \/ x <= z PROVE y <= z
      BY <1>1, <2>8
    <3> QED BY <2>5, <2>6, <2>7
  <2> QED BY <2>9
<1>6. /\ Row("rate", 1, "low", s.previous - 2 * s.delta) \in Declared(s)
      /\ Row("rate", 1, "high", s.previous + 2 * s.delta) \in Declared(s)
  BY DEF Declared
<1> HIDE DEF A
<1>7. /\ \E r \in Declared(s) : r.side = "low"
      /\ \E r \in Declared(s) : r.side = "high"
  BY <1>6 DEF Row
<1> QED BY <1>1, <1>2, <1>3, <1>4, <1>5, <1>7

\* A row is a declared one, at the place to which it is moved.
LEMMA RowsMoved ==
  ASSUME NEW s, Sited(s)
  PROVE  /\ \A r \in Declared(s) :
              \E q \in Rows(s) : /\ q = Row(r.family, r.index, r.side, r.at + Shift(s, r))
         /\ \A q \in Rows(s) :
              \E r \in Declared(s) : q = Row(r.family, r.index, r.side, r.at + Shift(s, r))
         /\ \A q \in Rows(s) : q.at \in Int /\ q.side \in {"low", "high"}
<1> DEFINE F(r) == IF s.moved[1] = <<r.family, r.index>> THEN [r EXCEPT !.at = @ + s.moved[2]] ELSE r
<1>1. ASSUME NEW r \in Declared(s)
      PROVE  /\ F(r) = Row(r.family, r.index, r.side, r.at + Shift(s, r))
             /\ r.at + Shift(s, r) \in Int /\ r.side \in {"low", "high"}
  <2>1. r = Row(r.family, r.index, r.side, r.at) /\ r.at \in Int /\ r.side \in {"low", "high"}
    BY DeclaredRows
  <2>2. PICK f, n, d, a : r = Row(f, n, d, a) /\ a \in Int BY <2>1
  <2>3. r.family = f /\ r.index = n /\ r.side = d /\ r.at = a BY <2>2 DEF Row
  <2>4. CASE s.moved[1] = <<f, n>>
    BY <2>1, <2>2, <2>3, <2>4 DEF Row, Shift, Sited
  <2>5. CASE s.moved[1] # <<f, n>>
    BY <2>1, <2>2, <2>3, <2>5 DEF Row, Shift
  <2> QED BY <2>4, <2>5
<1>2. Rows(s) = {F(r) : r \in Declared(s)} BY DEF Rows
<1> HIDE DEF F
<1>3. \A q \in Rows(s) : \E r \in Declared(s) : q = F(r) BY <1>2
<1>4. \A r \in Declared(s) : F(r) \in Rows(s) BY <1>2
<1>5. \A f, n, d, a : Row(f, n, d, a).at = a /\ Row(f, n, d, a).side = d BY DEF Row
<1> QED BY <1>1, <1>3, <1>4, <1>5

\* The feasible numbers have ends, where there are rows that they do not pass.
LEMMA Ends ==
  ASSUME NEW s, Sited(s)
  PROVE  /\ Lowest(s) \in Int /\ Highest(s) \in Int
         /\ \A r \in Rows(s) : /\ r.at \in Int /\ r.side \in {"low", "high"}
                               /\ r.side = "low" => r.at <= Lowest(s)
                               /\ r.side = "high" => Highest(s) <= r.at
         /\ \E r \in Rows(s) : r.side = "low" /\ r.at = Lowest(s)
         /\ \E r \in Rows(s) : r.side = "high" /\ r.at = Highest(s)
<1> DEFINE Low == {r.at : r \in {q \in Rows(s) : q.side = "low"}}
           High == {r.at : r \in {q \in Rows(s) : q.side = "high"}}
<1>1. /\ \A q \in Rows(s) : q.at \in Int /\ q.side \in {"low", "high"}
      /\ \A q \in Rows(s) :
           \E r \in Declared(s) : q = Row(r.family, r.index, r.side, r.at + Shift(s, r))
  BY RowsMoved
<1>2. Low \subseteq Int /\ High \subseteq Int BY <1>1
<1>3. Low # {} /\ High # {}
  <2>1. \A r \in Declared(s) : \E q \in Rows(s) : q.side = r.side BY RowsMoved DEF Row
  <2> QED BY <2>1, DeclaredRows
<1>4. /\ \A r \in Declared(s) : r.at \in Int
      /\ \E u \in Int : \A r \in Declared(s) : r.at <= u
      /\ \E u \in Int : \A r \in Declared(s) : u <= r.at
  BY DeclaredRows
<1>5. PICK u, v \in Int : \A r \in Declared(s) : v <= r.at /\ r.at <= u BY <1>4
<1>6. PICK m \in Int : m = s.moved[2] BY DEF Sited
<1>7. \A q \in Rows(s) : \E a \in Int : v <= a /\ a <= u /\ (q.at = a \/ q.at = a + m)
  BY <1>1, <1>4, <1>5, <1>6 DEF Row, Shift
<1>8. PICK w, x \in Int : u <= w /\ u + m <= w /\ x <= v /\ x <= v + m
  <2>1. \A a, b \in Int : \E c \in Int : a <= c /\ b <= c OBVIOUS
  <2>2. \A a, b \in Int : \E c \in Int : c <= a /\ c <= b OBVIOUS
  <2> QED BY <2>1, <2>2
<1>9. \A q \in Rows(s) : x <= q.at /\ q.at <= w
  <2> SUFFICES ASSUME NEW q \in Rows(s) PROVE x <= q.at /\ q.at <= w
    OBVIOUS
  <2>1. PICK a \in Int : v <= a /\ a <= u /\ (q.at = a \/ q.at = a + m) BY <1>7
  <2> QED BY <1>8, <2>1
<1>10. (\A y \in Low : y <= w) /\ (\A y \in High : x <= y) BY <1>9
<1> HIDE DEF Low, High
<1>11. Max(Low) \in Low /\ \A y \in Low : Max(Low) >= y BY <1>2, <1>3, <1>10, HasGreatest
<1>12. Min(High) \in High /\ \A y \in High : Min(High) <= y BY <1>2, <1>3, <1>10, HasLeast
<1>13. Lowest(s) = Max(Low) /\ Highest(s) = Min(High) BY DEF Lowest, Highest, Low, High
<1> QED BY <1>1, <1>2, <1>11, <1>12, <1>13 DEF Low, High

\* The projection of a number.
Clamp(s, t) == IF t < Lowest(s) THEN Lowest(s) ELSE IF t > Highest(s) THEN Highest(s) ELSE t

\* An answer is the target, moved to the end of the rows it lies beyond, and
\* missed by the error of the solve, or nothing where no point is feasible or
\* the solver fails.
LEMMA AnswerClamps ==
  ASSUME NEW s, Sited(s), NEW t \in Int
  PROVE  Project(s, t) = IF Lowest(s) > Highest(s) \/ t \in s.fails THEN <<>>
                         ELSE <<Clamp(s, t) + Error(s, t)>>
<1>1. Lowest(s) \in Int /\ Highest(s) \in Int BY Ends
<1>2. PICK l, u \in Int : l = Lowest(s) /\ u = Highest(s) BY <1>1
<1>3. Min({t, u}) = (IF t <= u THEN t ELSE u) /\ Min({t, u}) \in Int BY OfTwo
<1>4. Max({l, Min({t, u})}) = IF l >= Min({t, u}) THEN l ELSE Min({t, u}) BY <1>3, OfTwo
<1>5. ~(l > u) => Max({l, Min({t, u})}) = IF t < l THEN l ELSE IF t > u THEN u ELSE t
  BY <1>3, <1>4
<1> QED BY <1>2, <1>5 DEF Project, Clamp

\* An accurate solve misses nothing.
LEMMA ProjectionClamps ==
  ASSUME NEW s, Sited(s), Exact(s), NEW t \in Int
  PROVE  Project(s, t) = IF Lowest(s) > Highest(s) \/ t \in s.fails THEN <<>> ELSE <<Clamp(s, t)>>
<1>1. Error(s, t) = 0 BY DEF Exact, Error
<1>2. PICK y \in Int : y = Clamp(s, t) BY Ends DEF Clamp
<1>3. y + Error(s, t) = y BY <1>1, <1>2
<1>4. <<Clamp(s, t) + Error(s, t)>> = <<Clamp(s, t)>> BY <1>2, <1>3
<1>5. PICK q : q = <<Clamp(s, t) + Error(s, t)>> OBVIOUS
<1>6. Project(s, t) = IF Lowest(s) > Highest(s) \/ t \in s.fails THEN <<>> ELSE q
  BY <1>5, AnswerClamps
<1> QED BY <1>4, <1>5, <1>6

\* A label is set wherever the solution is within the tolerance of an end.
LEMMA Touches ==
  ASSUME NEW s, Sited(s), Exact(s), NEW t \in Int, Tol \in Nat
  PROVE  /\ Project(s, t) = <<>> => ActiveSet(s, t) = {}
         /\ Project(s, t) # <<>> =>
              (ActiveSet(s, t) = {} <=> /\ Clamp(s, t) - Lowest(s) > Tol
                                        /\ Highest(s) - Clamp(s, t) > Tol)
<1>1. Project(s, t) = <<>> => ActiveSet(s, t) = {} BY DEF ActiveSet
<1>2. ASSUME Project(s, t) # <<>>
      PROVE  ActiveSet(s, t) = {} <=> /\ Clamp(s, t) - Lowest(s) > Tol
                                      /\ Highest(s) - Clamp(s, t) > Tol
  <2>1. PICK y : y = Clamp(s, t) OBVIOUS
  <2>2. Project(s, t) = <<y>> BY <1>2, <2>1, ProjectionClamps
  <2>3. y \in Int BY <2>1, Ends DEF Clamp
  <2>4. ActiveSet(s, t) = {} <=> \A r \in Rows(s) : ~(Distance(r, y) <= Tol)
    <3>1. Project(s, t) # <<>> /\ Project(s, t)[1] = y BY <1>2, <2>2
    <3>2. ActiveSet(s, t) = {r.family : r \in {q \in Rows(s) : Distance(q, y) <= Tol}}
      BY <3>1, Zenon DEF ActiveSet
    <3> QED BY <3>2
  <2>5. (\A r \in Rows(s) : ~(Distance(r, y) <= Tol))
          <=> y - Lowest(s) > Tol /\ Highest(s) - y > Tol
    <3>1. ASSUME \A r \in Rows(s) : ~(Distance(r, y) <= Tol)
          PROVE  y - Lowest(s) > Tol /\ Highest(s) - y > Tol
      BY <2>3, <3>1, Ends DEF Distance
    <3>2. ASSUME y - Lowest(s) > Tol, Highest(s) - y > Tol, NEW r \in Rows(s)
          PROVE  ~(Distance(r, y) <= Tol)
      <4>1. /\ Lowest(s) \in Int /\ Highest(s) \in Int /\ r.at \in Int
            /\ r.side \in {"low", "high"}
            /\ r.side = "low" => r.at <= Lowest(s)
            /\ r.side = "high" => Highest(s) <= r.at
        BY Ends
      <4> QED BY <2>3, <3>2, <4>1 DEF Distance
    <3> QED BY <3>1, <3>2
  <2> QED BY <2>1, <2>4, <2>5
<1> QED BY <1>1, <1>2

\* Where the labels of three solves agree, on a segment wide enough, the
\* projection is differentiable and its difference the derivative.
LEMMA StableIsSmooth ==
  ASSUME NEW s, Sited(s), Exact(s), s.at \in Int, Project(s, s.at) # <<>>, Wide(s),
         ActiveSet(s, s.at + H) = ActiveSet(s, s.at), ActiveSet(s, s.at - H) = ActiveSet(s, s.at)
  PROVE  /\ s.at # Lowest(s) /\ s.at # Highest(s)
         /\ ActiveSet(s, s.at) = {} <=> Slope(s, s.at) = 1
         /\ ~Differences(s, s.at, H).failed =>
              /\ ~Differences(s, s.at, H).changed
              /\ Near(Differences(s, s.at, H).central, 2 * H * Slope(s, s.at))
<1>1. PICK l, u, t, h \in Int, k \in Nat :
        l = Lowest(s) /\ u = Highest(s) /\ t = s.at /\ h = H /\ k = Tol
  BY Ends, StepsAreOrdered
<1>2. k < h /\ u - l > 2 * h + 2 * k
  BY <1>1, StepsAreOrdered DEF Wide
<1> DEFINE C(x) == Clamp(s, x)
           In(x) == C(x) - l > k /\ u - C(x) > k
<1>3. \A x \in Int : C(x) = IF x < l THEN l ELSE IF x > u THEN u ELSE x
  BY <1>1 DEF Clamp
<1>4. \A x \in Int : In(x) <=> C(x) - l > k /\ u - C(x) > k OBVIOUS
<1>5. ASSUME NEW x \in Int
      PROVE  /\ Project(s, x) = IF l > u \/ x \in s.fails THEN <<>> ELSE <<C(x)>>
             /\ Project(s, x) = <<>> => ActiveSet(s, x) = {}
             /\ Project(s, x) # <<>> => (ActiveSet(s, x) = {} <=> In(x))
  BY <1>1, ProjectionClamps, Touches
<1> HIDE DEF C, In
<1>6. /\ In(t) => /\ l < t /\ t < u
                  /\ In(t + h) /\ In(t - h) => C(t + h) - C(t - h) = 2 * h
      /\ ~In(t) /\ ~In(t + h) /\ ~In(t - h) =>
           /\ t < l \/ u < t
           /\ 0 <= C(t + h) - C(t - h) /\ C(t + h) - C(t - h) <= k
      /\ t < l => ~In(t)
      /\ t > u => ~In(t)
      /\ l <= t /\ t <= l + k => In(t + h) /\ ~In(t)
      /\ u - k <= t /\ t <= u => In(t - h) /\ ~In(t)
  BY <1>2, <1>3, <1>4
<1>7. t + h \in Int /\ t - h \in Int OBVIOUS
<1>8. ActiveSet(s, t) = {} <=> In(t) BY <1>1, <1>5
<1>9. /\ ActiveSet(s, t + h) = {} <=> In(t)
      /\ ActiveSet(s, t - h) = {} <=> In(t)
  BY <1>1, <1>8
<1>10. /\ In(t + h) => In(t)
       /\ In(t - h) => In(t)
  BY <1>5, <1>7, <1>9
<1>11. t # l /\ t # u
  BY <1>2, <1>6, <1>10
<1>12. In(t) <=> l < t /\ t < u
  BY <1>6, <1>10, <1>11
<1>13. Slope(s, t) = IF In(t) THEN 1 ELSE 0 BY <1>1, <1>12 DEF Slope
<1>14. ASSUME ~Differences(s, s.at, H).failed
       PROVE  /\ ~Differences(s, s.at, H).changed
              /\ Near(Differences(s, s.at, H).central, 2 * H * Slope(s, s.at))
  <2>1. Project(s, t) # <<>> /\ Project(s, t + h) # <<>> /\ Project(s, t - h) # <<>>
    BY <1>1, <1>14 DEF Differences
  <2>2. ~Differences(s, s.at, H).changed
    BY DEF Differences
  <2>3. Project(s, t + h) = <<C(t + h)>> /\ Project(s, t - h) = <<C(t - h)>>
    BY <1>5, <1>7, <2>1
  <2>4. Differences(s, s.at, H).central = C(t + h) - C(t - h)
    BY <1>1, <2>1, <2>3 DEF Differences
  <2>5. (In(t + h) <=> In(t)) /\ (In(t - h) <=> In(t))
    BY <1>5, <1>7, <1>9, <2>1
  <2>6. PICK z \in Int : z = C(t + h) - C(t - h)
    BY <1>3, <1>7
  <2>7. CASE In(t)
    <3>1. z = 2 * h /\ Slope(s, t) = 1 BY <1>6, <1>13, <2>5, <2>6, <2>7
    <3> QED BY <1>1, <2>2, <2>4, <2>6, <3>1 DEF Near
  <2>8. CASE ~In(t)
    <3>1. 0 <= z /\ z <= k /\ Slope(s, t) = 0 BY <1>6, <1>13, <2>5, <2>6, <2>8
    <3> QED BY <1>1, <2>2, <2>4, <2>6, <3>1 DEF Near
  <2> QED BY <2>7, <2>8
<1> QED BY <1>1, <1>8, <1>11, <1>13, <1>14

\* The arguments of an observation are in whole numbers and no row is moved.
LEMMA ArgumentsAreSited ==
  ASSUME NEW s \in Arguments
  PROVE  /\ Sited(s) /\ s.at \in Int /\ Rows(s) = Declared(s)
         /\ s.masked \in BOOLEAN /\ s.fails \subseteq Int
<1>1. /\ Sited(s) /\ s.at \in Int /\ s.moved[2] = 0
      /\ s.masked \in BOOLEAN /\ s.fails \subseteq Int
  BY DEF Arguments, Sited
<1>2. \A r \in Declared(s) : Row(r.family, r.index, r.side, r.at + Shift(s, r)) = r
  <2> SUFFICES ASSUME NEW r \in Declared(s)
               PROVE  Row(r.family, r.index, r.side, r.at + Shift(s, r)) = r
    OBVIOUS
  <2>1. r = Row(r.family, r.index, r.side, r.at) /\ r.at \in Int BY <1>1, DeclaredRows
  <2>2. Shift(s, r) = 0 BY <1>1 DEF Shift
  <2>3. r.at + Shift(s, r) = r.at BY <2>1, <2>2
  <2> QED BY <2>1, <2>3
<1>3. /\ \A r \in Declared(s) : r \in Rows(s)
      /\ \A q \in Rows(s) : q \in Declared(s)
  BY <1>1, <1>2, RowsMoved
<1> QED BY <1>1, <1>3

\* Where one action is masked there is one feasible number at most.
LEMMA MaskedIsNarrow ==
  ASSUME NEW s \in Arguments, s.masked
  PROVE  Highest(s) <= Lowest(s)
<1>1. /\ Row("turn_feasibility", 2, "low", s.total) \in Rows(s)
      /\ Row("turn_feasibility", 2, "high", s.total) \in Rows(s)
  BY ArgumentsAreSited DEF Declared
<1>2. \A d : Row("turn_feasibility", 2, d, s.total).at = s.total
             /\ Row("turn_feasibility", 2, d, s.total).side = d
  BY DEF Row
<1>3. s.total <= Lowest(s) /\ Highest(s) <= s.total
  BY <1>1, <1>2, ArgumentsAreSited, Ends
<1>4. Lowest(s) \in Int /\ Highest(s) \in Int /\ s.total \in Int
  BY ArgumentsAreSited, Ends DEF Sited
<1> QED BY <1>3, <1>4

\* The rows the KKT system holds active: the mask, and those that are labelled.
LEMMA ActiveRowsAreLabelled ==
  ASSUME NEW s \in Arguments, Project(s, s.at) # <<>>
  PROVE  /\ s.masked => ActiveRows(s, Project(s, s.at)[1]) # {}
         /\ ~s.masked => (ActiveRows(s, Project(s, s.at)[1]) = {} <=> ActiveSet(s, s.at) = {})
<1>1. ASSUME s.masked PROVE ActiveRows(s, Project(s, s.at)[1]) # {}
  <2>1. Row("turn_feasibility", 2, "low", s.total) \in Rows(s)
    BY <1>1, ArgumentsAreSited DEF Declared
  <2>2. Row("turn_feasibility", 2, "low", s.total).family = "turn_feasibility" BY DEF Row
  <2>3. Row("turn_feasibility", 2, "low", s.total) \in KktRows(s)
    BY <2>1, <2>2 DEF KktRows
  <2> QED BY <2>2, <2>3 DEF ActiveRows
<1>2. ASSUME ~s.masked
      PROVE  ActiveRows(s, Project(s, s.at)[1]) = {} <=> ActiveSet(s, s.at) = {}
  <2>1. KktRows(s) = Rows(s) BY <1>2 DEF KktRows
  <2>2. \A r \in Rows(s) : r.family # "turn_feasibility"
    BY <1>2, ArgumentsAreSited DEF Declared, Row
  <2>3. PICK x : x = Project(s, s.at)[1] OBVIOUS
  <2>4. ActiveRows(s, x) = {} <=> \A r \in Rows(s) : ~(Distance(r, x) <= Tol)
    BY <2>1, <2>2 DEF ActiveRows
  <2>5. ActiveSet(s, s.at) = {} <=> \A r \in Rows(s) : ~(Distance(r, x) <= Tol)
    BY <2>3 DEF ActiveSet
  <2> QED BY <2>3, <2>4, <2>5
<1> QED BY <1>1, <1>2

\* The KKT system is asked where there is a solution.
LEMMA KktHasSolution ==
  ASSUME NEW s, Kkt(s).reason = "ok"
  PROVE  /\ Project(s, s.at) # <<>>
         /\ Kkt(s).jacobian = IF ActiveRows(s, Project(s, s.at)[1]) = {} THEN 1 ELSE 0
<1>1. Reason(s) = "ok" BY DEF Kkt
<1>2. Project(s, s.at) # <<>> BY <1>1 DEF Reason
<1> QED BY <1>1, <1>2 DEF Kkt

\* The derivative of the KKT system, where labels agree and the segment is wide.
LEMMA KktIsDerivative ==
  ASSUME NEW s \in Arguments, Kkt(s).reason = "ok", Exact(s), Wide(s),
         ActiveSet(s, s.at + H) = ActiveSet(s, s.at), ActiveSet(s, s.at - H) = ActiveSet(s, s.at)
  PROVE  Kkt(s).jacobian = Slope(s, s.at)
<1>1. Project(s, s.at) # <<>> BY KktHasSolution
<1>2. ~s.masked
  <2>1. Highest(s) - Lowest(s) > 0 /\ Highest(s) \in Int /\ Lowest(s) \in Int
    BY ArgumentsAreSited, Ends, StepsAreOrdered DEF Wide
  <2> QED BY <2>1, MaskedIsNarrow
<1>3. ActiveSet(s, s.at) = {} <=> Slope(s, s.at) = 1
  BY <1>1, ArgumentsAreSited, StableIsSmooth
<1>4. Slope(s, s.at) \in {0, 1} BY DEF Slope
<1> QED BY <1>1, <1>2, <1>3, <1>4, ActiveRowsAreLabelled, KktHasSolution

\* A solve misses by a whole number.
LEMMA ErrorIsInt ==
  ASSUME NEW s \in Arguments, NEW t
  PROVE  Error(s, t) \in Int
<1>1. s.errors \subseteq Int \X Int BY DEF Arguments
<1>2. PICK E : E = {p[2] : p \in {q \in s.errors : q[1] = t}} OBVIOUS
<1>3. E \subseteq Int BY <1>1, <1>2
<1>4. PICK c : c = CHOOSE x \in E : TRUE OBVIOUS
<1>5. E # {} => c \in E BY <1>4
<1>6. Error(s, t) = IF E = {} THEN 0 ELSE c BY <1>2, <1>4, Zenon DEF Error
<1>7. E # {} => c \in Int BY <1>3, <1>5, Zenon
<1> QED BY <1>6, <1>7

\* Where the KKT system is solved, every row of it either holds the answer, up
\* to the tolerance, or is away from it by the weak band.
LEMMA KktIsClear ==
  ASSUME NEW s \in Arguments, Kkt(s).reason = "ok", ~s.masked, NEW x \in Int, Project(s, s.at) = <<x>>
  PROVE  /\ Kkt(s).jacobian = 1 => \A r \in Rows(s) : Distance(r, x) >= Weak
         /\ Kkt(s).jacobian # 1 => /\ Kkt(s).jacobian = 0
                                   /\ \E r \in Rows(s) : Distance(r, x) <= Tol
<1>1. /\ KktRows(s) = Rows(s) /\ \A r \in Rows(s) : r.family # "turn_feasibility"
  <2>1. KktRows(s) = Rows(s) BY DEF KktRows
  <2>2. \A r \in Rows(s) : r.family # "turn_feasibility"
    BY ArgumentsAreSited DEF Declared, Row
  <2> QED BY <2>1, <2>2
<1>2. Project(s, s.at)[1] = x OBVIOUS
<1>3. ~Degenerate(s, x)
  <2>1. Reason(s) = "ok" BY DEF Kkt
  <2> QED BY <1>2, <2>1 DEF Reason
<1>4. \A r \in Rows(s) : Distance(r, x) \in Int
  BY ArgumentsAreSited, Ends DEF Distance
<1>5. \A r \in Rows(s) : ~(Distance(r, x) > Tol /\ Distance(r, x) < Weak)
  BY <1>1, <1>3 DEF Degenerate
<1>6. ActiveRows(s, x) = {} <=> \A r \in Rows(s) : ~(Distance(r, x) <= Tol)
  BY <1>1 DEF ActiveRows
<1>7. Kkt(s).jacobian = IF ActiveRows(s, x) = {} THEN 1 ELSE 0 BY <1>2, KktHasSolution
<1>8. ASSUME Kkt(s).jacobian = 1, NEW r \in Rows(s) PROVE Distance(r, x) >= Weak
  <2>1. ~(Distance(r, x) <= Tol) BY <1>6, <1>7, <1>8
  <2> QED BY <1>4, <1>5, <2>1, StepsAreOrdered
<1> QED BY <1>6, <1>7, <1>8

\* Even at a kink, and even where the solve misses by less than the weak band,
\* it is the derivative at a place next to it.
LEMMA KktIsNearby ==
  ASSUME NEW s \in Arguments, Kkt(s).reason = "ok", OffBy(s) < Weak
  PROVE  LET reach == Tol + OffBy(s) + 1
         IN  \E v \in (s.at - reach)..(s.at + reach) : Kkt(s).jacobian = Slope(s, v)
<1>1. Project(s, s.at) # <<>> BY KktHasSolution
<1>2. Sited(s) /\ s.at \in Int /\ s.masked \in BOOLEAN BY ArgumentsAreSited
<1>3. PICK l, u, t, e \in Int, k \in Nat :
        l = Lowest(s) /\ u = Highest(s) /\ t = s.at /\ e = Error(s, s.at) /\ k = Tol
  BY <1>2, Ends, ErrorIsInt, StepsAreOrdered
<1>4. PICK w \in Nat : w = Weak /\ k < w BY <1>3, StepsAreOrdered
<1>5. PICK d \in Nat : d = OffBy(s) /\ e <= d /\ -e <= d /\ d < w
  <2>1. Max({e, -e}) = (IF e >= -e THEN e ELSE -e) BY <1>3, OfTwo
  <2> QED BY <1>3, <1>4, <2>1 DEF OffBy
<1>6. PICK y \in Int : y = Clamp(s, t) /\ y = IF t < l THEN l ELSE IF t > u THEN u ELSE t
  BY <1>3 DEF Clamp
<1>7. l <= u /\ Project(s, s.at) = <<y + e>>
  <2>1. Project(s, s.at) = IF l > u \/ t \in s.fails THEN <<>> ELSE <<Clamp(s, t) + Error(s, t)>>
    BY <1>2, <1>3, AnswerClamps
  <2>2. ~(l > u \/ t \in s.fails) /\ Project(s, s.at) = <<Clamp(s, t) + Error(s, t)>>
    BY <1>1, <2>1, Zenon
  <2>3. Clamp(s, t) + Error(s, t) = y + e BY <1>3, <1>6
  <2>4. Project(s, s.at) = <<y + e>> BY <2>2, <2>3, Zenon
  <2>5. ~(l > u) BY <2>2, Zenon
  <2> QED BY <1>3, <2>4, <2>5
<1>8. \A x \in Int : Slope(s, x) = IF l < x /\ x < u THEN 1 ELSE 0 BY <1>3 DEF Slope
<1>9. \A x \in Int : t - (k + d) <= x /\ x <= t + (k + d) =>
        x \in (s.at - (Tol + OffBy(s) + 1))..(s.at + (Tol + OffBy(s) + 1))
  BY <1>3, <1>5
<1>10. \E x \in Int : /\ t - (k + d) <= x /\ x <= t + (k + d)
                      /\ Kkt(s).jacobian = IF l < x /\ x < u THEN 1 ELSE 0
  <2>1. CASE s.masked
    <3>1. u <= l BY <1>3, <2>1, MaskedIsNarrow
    <3>2. ActiveRows(s, Project(s, s.at)[1]) # {} BY <1>1, <2>1, ActiveRowsAreLabelled
    <3>3. Kkt(s).jacobian = 0 BY <3>2, KktHasSolution
    <3>4. t - (k + d) <= t /\ t <= t + (k + d) /\ ~(l < t /\ t < u) BY <3>1
    <3> QED BY <3>3, <3>4
  <2>2. CASE ~s.masked
    <3>1. PICK z \in Int : z = y + e OBVIOUS
    <3>2. /\ Kkt(s).jacobian = 1 => \A r \in Rows(s) : Distance(r, z) >= Weak
          /\ Kkt(s).jacobian # 1 => /\ Kkt(s).jacobian = 0
                                    /\ \E r \in Rows(s) : Distance(r, z) <= Tol
      BY <1>7, <2>2, <3>1, KktIsClear
    <3>3. CASE Kkt(s).jacobian = 1
      <4>1. z - l >= w /\ u - z >= w BY <1>2, <1>3, <1>4, <3>2, <3>3, Ends DEF Distance
      <4>2. l < y /\ y < u BY <1>5, <3>1, <4>1
      <4>3. l < t /\ t < u BY <1>6, <4>2
      <4>4. t - (k + d) <= t /\ t <= t + (k + d) OBVIOUS
      <4> QED BY <3>3, <4>3, <4>4
    <3>4. CASE Kkt(s).jacobian # 1
      <4>1. PICK r \in Rows(s) : Distance(r, z) <= Tol BY <3>2, <3>4
      <4>2. PICK a \in Int : a = r.at BY <1>2, Ends
      <4>3. \/ r.side = "low" /\ a <= l /\ z - a <= k
            \/ r.side = "high" /\ u <= a /\ a - z <= k
        BY <1>2, <1>3, <4>1, <4>2, Ends DEF Distance
      <4>4. y - l <= k + d \/ u - y <= k + d BY <1>5, <3>1, <4>3
      <4>5. \/ t - (k + d) <= t /\ t <= t + (k + d) /\ ~(l < t /\ t < u)
            \/ t - (k + d) <= l /\ l <= t + (k + d)
            \/ t - (k + d) <= u /\ u <= t + (k + d)
        BY <1>6, <4>4
      <4>6. ~(l < l) /\ ~(u < u) OBVIOUS
      <4>7. \E x \in Int : t - (k + d) <= x /\ x <= t + (k + d) /\ ~(l < x /\ x < u)
        BY <4>5, <4>6
      <4> QED BY <3>2, <3>4, <4>7
    <3> QED BY <3>3, <3>4
  <2> QED BY <1>2, <2>1, <2>2
<1> QED BY <1>8, <1>9, <1>10

-----------------------------------------------------------------------------
\* A transition is called stable where the three labels are equal.
LEMMA StableIsEqual ==
  ASSUME NEW s, NEW t, NEW h, Transition(s, t, h) = "stable"
  PROVE  ActiveSet(s, t + h) = ActiveSet(s, t) /\ ActiveSet(s, t - h) = ActiveSet(s, t)
<1>1. PICK b, p, m : b = ActiveSet(s, t) /\ p = ActiveSet(s, t + h) /\ m = ActiveSet(s, t - h)
  OBVIOUS
<1>2. ClassOf(b, p, m) = "stable" BY <1>1 DEF Transition
<1>3. (p = b /\ m = b) \/ (p # b /\ m # b) \/ ~((p = b /\ m = b) \/ (p # b /\ m # b)) OBVIOUS
<1>4. p = b /\ m = b
  BY <1>2 DEF ClassOf
<1> QED BY <1>1, <1>4

\* A row that the agreement study counts as "ok" agrees.
LEMMA OkRowAgrees ==
  ASSUME NEW s \in Arguments, Exact(s), Wide(s), Evaluated(s).mode = "ok"
  PROVE  Near(Evaluated(s).apart[1], 0)
<1>1. PICK fd, kkt : fd = Differences(s, s.at, H) /\ kkt = Kkt(s) OBVIOUS
<1>2. /\ ~fd.failed /\ kkt.reason = "ok" /\ ~fd.changed
  <2>1. FailureOf(kkt.reason, fd.changed) # "ok"
    BY DEF FailureOf
  <2> QED BY <1>1, <2>1 DEF Evaluated
<1>3. Evaluated(s).apart = <<2 * H * kkt.jacobian - fd.central>>
  BY <1>1, <1>2 DEF Evaluated
<1>4. /\ Project(s, s.at) # <<>> /\ Project(s, s.at + H) # <<>> /\ Project(s, s.at - H) # <<>>
  BY <1>1, <1>2 DEF Differences
<1>5. /\ ActiveSet(s, s.at + H) = ActiveSet(s, s.at)
      /\ ActiveSet(s, s.at - H) = ActiveSet(s, s.at)
  BY <1>1, <1>2, <1>4 DEF Differences
<1>6. Near(fd.central, 2 * H * Slope(s, s.at))
  BY <1>1, <1>2, <1>4, <1>5, ArgumentsAreSited, StableIsSmooth
<1>7. kkt.jacobian = Slope(s, s.at)
  BY <1>1, <1>2, <1>5, KktIsDerivative
<1>8. PICK c : c = fd.central OBVIOUS
<1>9. c \in Int
  <2>1. /\ Project(s, s.at + H) = <<Clamp(s, s.at + H)>>
        /\ Project(s, s.at - H) = <<Clamp(s, s.at - H)>>
        /\ Clamp(s, s.at + H) \in Int /\ Clamp(s, s.at - H) \in Int
    <3>1. Sited(s) /\ s.at + H \in Int /\ s.at - H \in Int BY ArgumentsAreSited, StepsAreOrdered
    <3>2. Project(s, s.at + H) = <<Clamp(s, s.at + H)>> BY <1>4, <3>1, ProjectionClamps
    <3>3. Project(s, s.at - H) = <<Clamp(s, s.at - H)>> BY <1>4, <3>1, ProjectionClamps
    <3> QED BY <3>1, <3>2, <3>3, Ends DEF Clamp
  <2> QED BY <1>1, <1>4, <1>8, <2>1 DEF Differences
<1>10. PICK j \in Int : j = 2 * H * Slope(s, s.at) BY StepsAreOrdered DEF Slope
<1>11. Evaluated(s).apart[1] = j - c BY <1>3, <1>7, <1>8, <1>10
<1> QED BY <1>6, <1>8, <1>9, <1>10, <1>11, StepsAreOrdered DEF Near

-----------------------------------------------------------------------------
\* The bounds by which two of the targets are differentiated.
Bounds == {"rate", "box_lower", "box_upper"} \X {1, 2}

\* A moved bound takes its rows with it, by the same distance, and no others.
LEMMA MovedRows ==
  ASSUME NEW s \in Arguments, NEW b \in Bounds, NEW by \in {H, -H},
         NEW m, m = Moved(s, b, by)
  PROVE  /\ Sited(m) /\ m.fails = s.fails /\ m.errors = s.errors /\ m.moved[1] = b
         /\ m.moved[2] = IF b[2] = 1 THEN 2 * by ELSE -2 * by
         /\ m.moved[2] \in {2 * H, -2 * H}
         /\ \A r \in Rows(s) : Row(r.family, r.index, r.side, r.at + Shift(m, r)) \in Rows(m)
         /\ \A q \in Rows(m) : \E r \in Rows(s) :
              q = Row(r.family, r.index, r.side, r.at + Shift(m, r))
<1>1. H \in Int BY StepsAreOrdered
<1>2. /\ m.moved = <<b, IF b[2] = 1 THEN 2 * by ELSE -2 * by>>
      /\ m.fails = s.fails /\ m.errors = s.errors /\ m.total = s.total /\ m.lower = s.lower /\ m.upper = s.upper
      /\ m.delta = s.delta /\ m.previous = s.previous /\ m.masked = s.masked
  BY DEF Moved, Arguments
<1>3. m.moved[1] = b /\ m.moved[2] = IF b[2] = 1 THEN 2 * by ELSE -2 * by BY <1>2
<1>4. m.moved[2] \in {2 * H, -2 * H} /\ m.moved[2] \in Int
  <2>1. CASE by = H BY <1>1, <1>3, <2>1
  <2>2. CASE by = -H BY <1>1, <1>3, <2>2
  <2> QED BY <2>1, <2>2
<1>5. Sited(m) BY <1>2, <1>4, ArgumentsAreSited DEF Sited
<1>6. Declared(m) = Rows(s)
  <2>1. Declared(m) = Declared(s) BY <1>2 DEF Declared
  <2> QED BY <2>1, ArgumentsAreSited
<1> QED BY <1>2, <1>3, <1>4, <1>5, <1>6, RowsMoved

\* Farther inside than a bound is moved, the solution stays where it is.
LEMMA InsideStays ==
  ASSUME NEW s \in Arguments, Exact(s), NEW b \in Bounds, NEW by \in {H, -H},
         s.at \in (Lowest(s) + 2 * H)..(Highest(s) - 2 * H)
  PROVE  Project(Moved(s, b, by), s.at) \in {<<>>, <<s.at>>}
<1>1. PICK m : m = Moved(s, b, by) OBVIOUS
<1>2. /\ Sited(m) /\ m.moved[2] \in {2 * H, -2 * H}
      /\ \A q \in Rows(m) : \E r \in Rows(s) :
           q = Row(r.family, r.index, r.side, r.at + Shift(m, r))
  BY <1>1, MovedRows
<1>3. PICK l, u, t \in Int, h \in Nat : l = Lowest(s) /\ u = Highest(s) /\ t = s.at /\ h = H
  BY ArgumentsAreSited, Ends, StepsAreOrdered
<1>4. l + 2 * h <= t /\ t <= u - 2 * h BY <1>3
<1>5. \A q \in Rows(m) : q.side = "low" => q.at <= t
  <2> SUFFICES ASSUME NEW q \in Rows(m), q.side = "low" PROVE q.at <= t OBVIOUS
  <2>1. PICK r \in Rows(s) : q = Row(r.family, r.index, r.side, r.at + Shift(m, r)) BY <1>2
  <2>2. PICK d : d = Shift(m, r) OBVIOUS
  <2>3. d \in {0, 2 * h, -2 * h} BY <1>2, <1>3, <2>2 DEF Shift
  <2>4. q.at = r.at + d /\ r.side = "low" BY <2>1, <2>2 DEF Row
  <2>5. r.at \in Int /\ r.at <= l BY <1>3, <2>4, ArgumentsAreSited, Ends
  <2> QED BY <1>4, <2>3, <2>4, <2>5
<1>6. \A q \in Rows(m) : q.side = "high" => t <= q.at
  <2> SUFFICES ASSUME NEW q \in Rows(m), q.side = "high" PROVE t <= q.at OBVIOUS
  <2>1. PICK r \in Rows(s) : q = Row(r.family, r.index, r.side, r.at + Shift(m, r)) BY <1>2
  <2>2. PICK d : d = Shift(m, r) OBVIOUS
  <2>3. d \in {0, 2 * h, -2 * h} BY <1>2, <1>3, <2>2 DEF Shift
  <2>4. q.at = r.at + d /\ r.side = "high" BY <2>1, <2>2 DEF Row
  <2>5. r.at \in Int /\ u <= r.at BY <1>3, <2>4, ArgumentsAreSited, Ends
  <2> QED BY <1>4, <2>3, <2>4, <2>5
<1>7. Lowest(m) <= t /\ t <= Highest(m) BY <1>2, <1>5, <1>6, Ends
<1>8. Lowest(m) \in Int /\ Highest(m) \in Int BY <1>2, Ends
<1>9. Clamp(m, t) = t BY <1>7, <1>8 DEF Clamp
<1>10. Exact(m) BY <1>1, MovedRows DEF Exact
<1> QED BY <1>1, <1>2, <1>3, <1>9, <1>10, ProjectionClamps

\* A row that holds the solution alone takes it along when it is moved, and
\* keeps it where it is when another is.
LEMMA HeldRow ==
  ASSUME NEW s \in Arguments, Exact(s), NEW b \in Bounds, NEW by \in {H, -H},
         NEW r \in Rows(s), HoldsAlone(s, r), NEW m, m = Moved(s, b, by)
  PROVE  Project(m, s.at) \in {<<>>, <<r.at + Shift(m, r)>>}
<1>1. /\ Sited(m) /\ m.errors = s.errors /\ m.moved[2] \in {2 * H, -2 * H}
      /\ \A q \in Rows(s) : Row(q.family, q.index, q.side, q.at + Shift(m, q)) \in Rows(m)
      /\ \A p \in Rows(m) : \E q \in Rows(s) :
           p = Row(q.family, q.index, q.side, q.at + Shift(m, q))
  BY MovedRows
<1>1a. Exact(m) BY <1>1, Zenon DEF Exact
<1>2. PICK t, a, d \in Int, h \in Nat : t = s.at /\ a = r.at /\ d = m.moved[2] /\ h = H
  BY <1>1, ArgumentsAreSited, Ends, StepsAreOrdered
<1>3. d \in {2 * h, -2 * h} BY <1>1, <1>2
<1>4. PICK e \in {0, d} : e = Shift(m, r) BY <1>2 DEF Shift
<1>5. r.side \in {"low", "high"} /\ \A q \in Rows(s) : q.at \in Int /\ q.side \in {"low", "high"}
  BY ArgumentsAreSited, Ends
<1>6. Lowest(m) \in Int /\ Highest(m) \in Int BY <1>1, Ends
<1>7. \E p \in Rows(m) : p.at = a + e /\ p.side = r.side BY <1>1, <1>2, <1>4 DEF Row
<1>8. PICK z \in Int : z = a + e BY <1>3, <1>4
<1>9. \A p \in Rows(m) : \E q \in Rows(s), f \in {0, d} :
        p.side = q.side /\ p.at = q.at + f /\ (q = r => f = e)
  <2> SUFFICES ASSUME NEW p \in Rows(m)
               PROVE  \E q \in Rows(s), f \in {0, d} :
                        p.side = q.side /\ p.at = q.at + f /\ (q = r => f = e)
    OBVIOUS
  <2>1. PICK q \in Rows(s) : p = Row(q.family, q.index, q.side, q.at + Shift(m, q)) BY <1>1
  <2>2. p.side = q.side /\ p.at = q.at + Shift(m, q) BY <2>1 DEF Row
  <2>3. Shift(m, q) \in {0, d} BY <1>2 DEF Shift
  <2> QED BY <1>4, <2>2, <2>3
<1>10. CASE r.side = "low"
  <2>1. t - a <= -2 * h BY <1>2, <1>10 DEF HoldsAlone, Distance
  <2>2. \A q \in Rows(s) \ {r} : /\ q.side = "low" => a - q.at >= 2 * h
                                 /\ q.side = "high" => q.at - a >= 2 * h
    BY <1>2 DEF HoldsAlone, Distance
  <2>3. \A p \in Rows(m) : /\ p.side = "low" => p.at <= z
                           /\ p.side = "high" => z <= p.at
    <3> SUFFICES ASSUME NEW p \in Rows(m)
                 PROVE  /\ p.side = "low" => p.at <= z
                        /\ p.side = "high" => z <= p.at
      OBVIOUS
    <3>1. PICK q \in Rows(s), f \in {0, d} :
            p.side = q.side /\ p.at = q.at + f /\ (q = r => f = e)
      BY <1>9
    <3>2. CASE q = r BY <1>2, <1>8, <1>10, <3>1, <3>2
    <3>3. CASE q # r
      <4>1. PICK x \in Int : x = q.at BY <1>5
      <4>2. q.side = "low" => x + f <= a + e BY <1>3, <2>2, <3>3, <4>1
      <4>3. q.side = "high" => a + e <= x + f BY <1>3, <2>2, <3>3, <4>1
      <4> QED BY <1>8, <3>1, <4>1, <4>2, <4>3
    <3> QED BY <3>2, <3>3
  <2>4. Lowest(m) = z /\ z <= Highest(m)
    <3>1. Lowest(m) <= z /\ z <= Highest(m) BY <1>1, <2>3, Ends
    <3>2. z <= Lowest(m) BY <1>1, <1>7, <1>8, <1>10, Ends
    <3> QED BY <1>6, <3>1, <3>2
  <2>5. t <= z BY <1>3, <1>8, <2>1
  <2>6. Clamp(m, t) = z BY <1>6, <2>4, <2>5 DEF Clamp
  <2> QED BY <1>1, <1>2, <1>1a, <1>4, <1>8, <2>6, ProjectionClamps
<1>11. CASE r.side = "high"
  <2>1. a - t <= -2 * h BY <1>2, <1>11 DEF HoldsAlone, Distance
  <2>2. \A q \in Rows(s) \ {r} : /\ q.side = "low" => a - q.at >= 2 * h
                                 /\ q.side = "high" => q.at - a >= 2 * h
    BY <1>2 DEF HoldsAlone, Distance
  <2>3. \A p \in Rows(m) : /\ p.side = "low" => p.at <= z
                           /\ p.side = "high" => z <= p.at
    <3> SUFFICES ASSUME NEW p \in Rows(m)
                 PROVE  /\ p.side = "low" => p.at <= z
                        /\ p.side = "high" => z <= p.at
      OBVIOUS
    <3>1. PICK q \in Rows(s), f \in {0, d} :
            p.side = q.side /\ p.at = q.at + f /\ (q = r => f = e)
      BY <1>9
    <3>2. CASE q = r BY <1>2, <1>8, <1>11, <3>1, <3>2
    <3>3. CASE q # r
      <4>1. PICK x \in Int : x = q.at BY <1>5
      <4>2. q.side = "low" => x + f <= a + e BY <1>3, <2>2, <3>3, <4>1
      <4>3. q.side = "high" => a + e <= x + f BY <1>3, <2>2, <3>3, <4>1
      <4> QED BY <1>8, <3>1, <4>1, <4>2, <4>3
    <3> QED BY <3>2, <3>3
  <2>4. Highest(m) = z /\ Lowest(m) <= z
    <3>1. Lowest(m) <= z /\ z <= Highest(m) BY <1>1, <2>3, Ends
    <3>2. Highest(m) <= z BY <1>1, <1>7, <1>8, <1>11, Ends
    <3> QED BY <1>6, <3>1, <3>2
  <2>5. z <= t BY <1>3, <1>8, <2>1
  <2>6. Clamp(m, t) = z BY <1>6, <2>4, <2>5 DEF Clamp
  <2> QED BY <1>1, <1>2, <1>1a, <1>4, <1>8, <2>6, ProjectionClamps
<1> QED BY <1>5, <1>10, <1>11

\* The derivative with respect to a bound.
LEMMA BoundDerivative ==
  ASSUME NEW s \in Arguments, Exact(s), NEW t \in {"previous_action", "box_bounds"},
         NEW i \in DOMAIN Differentiated(s, t), NEW c, c = Differentiated(s, t)[i],
         NEW b \in DOMAIN c
  PROVE  /\ s.at \in (Lowest(s) + 2 * H)..(Highest(s) - 2 * H) => c[b] = <<0>>
         /\ \A r \in Rows(s) : HoldsAlone(s, r) =>
              c[b] = <<IF b # <<r.family, r.index>> THEN 0
                       ELSE IF r.index = 1 THEN 4 * H ELSE -4 * H>>
<1>1. /\ c = Columns(s, t) /\ \A d \in DOMAIN Columns(s, t) : Columns(s, t)[d] # <<>>
  BY DEF Differentiated
<1>2. Columns(s, t) = [d \in BoundsOf(t) |-> Gain(Project(Moved(s, d, H), s.at),
                                                  Project(Moved(s, d, -H), s.at))]
  BY DEF Columns
<1>3. b \in Bounds /\ b[2] \in {1, 2} BY <1>1, <1>2 DEF BoundsOf, Bounds
<1>4. PICK m, n : m = Moved(s, b, H) /\ n = Moved(s, b, -H) OBVIOUS
<1>5. c[b] = Gain(Project(m, s.at), Project(n, s.at)) /\ c[b] # <<>> BY <1>1, <1>2, <1>4
<1>6. Project(m, s.at) # <<>> /\ Project(n, s.at) # <<>> BY <1>5 DEF Gain
<1>7. c[b] = <<Project(m, s.at)[1] - Project(n, s.at)[1]>> BY <1>5, <1>6 DEF Gain
<1>8. H \in Int /\ s.at \in Int BY StepsAreOrdered, ArgumentsAreSited
<1>9. ASSUME s.at \in (Lowest(s) + 2 * H)..(Highest(s) - 2 * H) PROVE c[b] = <<0>>
  <2>1. Project(m, s.at) = <<s.at>> BY <1>3, <1>4, <1>6, <1>9, InsideStays
  <2>2. Project(n, s.at) = <<s.at>> BY <1>3, <1>4, <1>6, <1>9, InsideStays
  <2> QED BY <1>7, <1>8, <2>1, <2>2
<1>10. ASSUME NEW r \in Rows(s), HoldsAlone(s, r)
       PROVE  c[b] = <<IF b # <<r.family, r.index>> THEN 0
                       ELSE IF r.index = 1 THEN 4 * H ELSE -4 * H>>
  <2>1. Project(m, s.at) = <<r.at + Shift(m, r)>> BY <1>3, <1>4, <1>6, <1>10, HeldRow
  <2>2. Project(n, s.at) = <<r.at + Shift(n, r)>> BY <1>3, <1>4, <1>6, <1>10, HeldRow
  <2>3. /\ m.moved[1] = b /\ m.moved[2] = IF b[2] = 1 THEN 2 * H ELSE -2 * H
        /\ n.moved[1] = b /\ n.moved[2] = IF b[2] = 1 THEN 2 * (-H) ELSE -2 * (-H)
    BY <1>3, <1>4, MovedRows
  <2>4. PICK a \in Int, h \in Int : a = r.at /\ h = H BY <1>8, ArgumentsAreSited, Ends
  <2>5. CASE b # <<r.family, r.index>>
    <3>1. Shift(m, r) = 0 /\ Shift(n, r) = 0 BY <2>3, <2>5 DEF Shift
    <3>2. (a + 0) - (a + 0) = 0 OBVIOUS
    <3> QED BY <1>7, <2>1, <2>2, <2>4, <2>5, <3>1, <3>2
  <2>6. CASE b = <<r.family, r.index>>
    <3>1. r.index = b[2] BY <2>6
    <3>2. Shift(m, r) = m.moved[2] /\ Shift(n, r) = n.moved[2] BY <2>3, <2>6 DEF Shift
    <3>3. (a + 2 * h) - (a + 2 * (-h)) = 4 * h /\ (a + (-2 * h)) - (a + (-2 * (-h))) = -4 * h
      OBVIOUS
    <3>4. CASE r.index = 1
      <4>1. Shift(m, r) = 2 * h /\ Shift(n, r) = 2 * (-h) BY <2>3, <2>4, <3>1, <3>2, <3>4
      <4> QED BY <1>7, <2>1, <2>2, <2>4, <2>6, <3>3, <3>4, <4>1
    <3>5. CASE r.index # 1
      <4>1. Shift(m, r) = -2 * h /\ Shift(n, r) = -2 * (-h) BY <2>3, <2>4, <3>1, <3>2, <3>5
      <4> QED BY <1>7, <2>1, <2>2, <2>4, <2>6, <3>3, <3>5, <4>1
    <3> QED BY <3>4, <3>5
  <2> QED BY <2>5, <2>6
<1> QED BY <1>9, <1>10

-----------------------------------------------------------------------------
\* The stages of an observation.
Observing == {"probe", "differences", "targets", "backends", "kkt", "steps", "smooth", "legacy",
              "observed"}

\* What runs: nothing, the study of agreement over a corpus, or an observation,
\* which goes on only where the forward solve was verified.
Occupied ==
  /\ doing \in {"none", "agree", "agreed"} \cup Observing
  /\ doing = "none" => rows = <<>> /\ obs = NoReport
  /\ doing \in {"agree", "agreed"} =>
       /\ obs = NoReport /\ scene \in Corpora
       /\ rows \in Seq({Evaluated(s) : s \in Arguments}) /\ Len(rows) <= Len(scene)
       /\ \A i \in 1..Len(rows) : rows[i] = Evaluated(scene[i])
  /\ doing \in Observing => scene \in Proposals
  /\ doing \in Observing \ {"observed"} => obs.verified

\* What the report says is what its stages computed of the scene.
Filled ==
  /\ DOMAIN obs = DOMAIN NoReport
  /\ obs.verified => doing \in Observing /\ Verified(scene)
  /\ ~obs.verified => obs = [NoReport EXCEPT !.host = obs.host]
  /\ obs.class = "stable" => Transition(scene, scene.at, H) = "stable"
  /\ \A i \in DOMAIN obs.differences : obs.differences[i] = Differences(scene, scene.at, H)
  /\ \A i \in DOMAIN obs.kkt : obs.kkt[i] = Kkt(scene)
  /\ \A t \in DOMAIN obs.targets : obs.targets[t] = Differentiated(scene, t)

GradInv == Occupied /\ Filled

\* An empty report says nothing of any derivative.
LEMMA EmptyReport == /\ DOMAIN NoReport.differences = {} /\ DOMAIN NoReport.kkt = {}
                     /\ DOMAIN NoReport.targets = {} /\ NoReport.class = "none"
                     /\ NoReport.verified = FALSE
<1>1. DOMAIN (<<>>) = {} OBVIOUS
<1> QED BY <1>1 DEF NoReport

\* An update of a field to what it is changes nothing.
LEMMA SameField ==
  ASSUME NEW D, NEW f, f = [x \in D |-> f[x]], NEW h
  PROVE  [f EXCEPT !["host"] = h, !["verified"] = f["verified"]] = [f EXCEPT !["host"] = h]
  OBVIOUS

\* A report that is not verified is an empty one.
LEMMA UnverifiedIsEmpty ==
  ASSUME NEW host
  PROVE  [NoReport EXCEPT !.host = host, !.verified = FALSE] = [NoReport EXCEPT !.host = host]
<1>1. PICK f : f = NoReport OBVIOUS
<1>2. f.verified = FALSE BY <1>1 DEF NoReport
<1>3. f = [x \in DOMAIN f |-> f[x]] BY <1>1 DEF NoReport
<1>4. [f EXCEPT !.host = host, !.verified = f.verified] = [f EXCEPT !.host = host]
  BY <1>3, SameField
<1> QED BY <1>1, <1>2, <1>4, Zenon

\* At first there is no report.
LEMMA GradBegins == ASSUME GradInit PROVE GradInv
<1>1. /\ doing = "none" /\ rows = <<>> /\ obs = NoReport BY DEF GradInit
<1>2. Occupied BY <1>1 DEF Occupied, Observing
<1>3. Filled
  <2>1. NoReport = [NoReport EXCEPT !.host = NoReport.host] BY DEF NoReport
  <2> QED BY <1>1, <2>1, EmptyReport DEF Filled
<1> QED BY <1>2, <1>3 DEF GradInv

\* An observation begins with an empty report, and ends with it where there is
\* no verified solve.
LEMMA ObserveKeeps == ASSUME GradInv, Observe PROVE GradInv'
<1>1. PICK s \in Proposals, host \in Hosts :
        /\ scene' = s
        /\ obs' = [NoReport EXCEPT !.host = host, !.verified = Verified(s)]
        /\ doing' = IF Verified(s) THEN "probe" ELSE "observed"
  BY Zenon DEF Observe
<1>2. Verified(s) \in BOOLEAN BY DEF Verified
<1>3. /\ DOMAIN obs' = DOMAIN NoReport
      /\ obs'.verified = Verified(s)
      /\ obs'.class = NoReport.class /\ obs'.differences = NoReport.differences
      /\ obs'.kkt = NoReport.kkt /\ obs'.targets = NoReport.targets
  BY <1>1 DEF NoReport
<1>4. ~Verified(s) => obs' = [NoReport EXCEPT !.host = obs'.host]
  <2> SUFFICES ASSUME ~Verified(s) PROVE obs' = [NoReport EXCEPT !.host = obs'.host] OBVIOUS
  <2>1. Verified(s) = FALSE BY <1>2
  <2>2. obs' = [NoReport EXCEPT !.host = host, !.verified = FALSE] BY <1>1, <2>1, Zenon
  <2>3. [NoReport EXCEPT !.host = host, !.verified = FALSE] = [NoReport EXCEPT !.host = host]
    BY UnverifiedIsEmpty
  <2>4. [NoReport EXCEPT !.host = host].host = host BY DEF NoReport
  <2>5. obs' = [NoReport EXCEPT !.host = host] BY <2>2, <2>3, Zenon
  <2>6. obs'.host = host BY <2>4, <2>5, Zenon
  <2> QED BY <2>5, <2>6, Zenon
<1>5. doing' \in Observing /\ doing' \in (Observing \ {"observed"}) => Verified(s)
  <2>1. "observed" \in Observing /\ "probe" \in Observing BY DEF Observing
  <2> QED BY <1>1, <2>1
<1>5a. doing' \in Observing BY <1>1 DEF Observing
<1>6. doing' \notin {"none", "agree", "agreed"} BY <1>5a DEF Observing
<1>7. Occupied' BY <1>1, <1>3, <1>5, <1>5a, <1>6 DEF Occupied
<1>8. Filled' BY <1>1, <1>3, <1>4, <1>5a, EmptyReport DEF Filled
<1> QED BY <1>7, <1>8 DEF GradInv

\* A stage fills its own fields.
LEMMA StageKeeps ==
  ASSUME GradInv, NEW name \in Observing \ {"observed"}, NEW told, Stage(name, told),
         DOMAIN told = DOMAIN NoReport, told.verified = obs.verified,
         told.class = "stable" => Transition(scene, scene.at, H) = "stable",
         \A i \in DOMAIN told.differences : told.differences[i] = Differences(scene, scene.at, H),
         \A i \in DOMAIN told.kkt : told.kkt[i] = Kkt(scene),
         \A t \in DOMAIN told.targets : told.targets[t] = Differentiated(scene, t)
  PROVE  GradInv'
<1>1. /\ doing = name /\ obs' = told /\ scene' = scene /\ rows' = rows
      /\ doing' \in After(name)
  BY DEF Stage
<1>2. After(name) \subseteq Observing
  BY DEF After, Observing
<1>3. obs.verified /\ Verified(scene) /\ scene \in Proposals
  BY <1>1 DEF GradInv, Occupied, Filled
<1>4. doing' \in Observing BY <1>1, <1>2
<1>5. doing' \notin {"none", "agree", "agreed"} BY <1>4 DEF Observing
<1>6. Occupied' BY <1>1, <1>3, <1>4, <1>5 DEF Occupied
<1>7. Filled'
  <2>1. obs'.verified = obs.verified BY <1>1
  <2>2. obs'.verified BY <1>3, <2>1
  <2>3. Verified(scene)' BY <1>1, <1>3
  <2>4. /\ DOMAIN obs' = DOMAIN NoReport
        /\ obs'.class = "stable" => Transition(scene', scene'.at, H) = "stable"
        /\ \A i \in DOMAIN obs'.differences :
             obs'.differences[i] = Differences(scene', scene'.at, H)
        /\ \A i \in DOMAIN obs'.kkt : obs'.kkt[i] = Kkt(scene')
        /\ \A t \in DOMAIN obs'.targets : obs'.targets[t] = Differentiated(scene', t)
    BY <1>1
  <2> QED BY <1>4, <2>2, <2>3, <2>4 DEF Filled
<1> QED BY <1>6, <1>7 DEF GradInv

\* Every stage of an observation fills its part of the report with what is so.
LEMMA StagesKeep ==
  ASSUME GradInv, \/ Probe \/ Differentiate \/ Targets \/ Backends \/ ResearchKkt
                  \/ StepSizes \/ Smoothed \/ Legacy
  PROVE  GradInv'
<1>1. /\ DOMAIN obs = DOMAIN NoReport
      /\ obs.class = "stable" => Transition(scene, scene.at, H) = "stable"
      /\ \A i \in DOMAIN obs.differences : obs.differences[i] = Differences(scene, scene.at, H)
      /\ \A i \in DOMAIN obs.kkt : obs.kkt[i] = Kkt(scene)
      /\ \A t \in DOMAIN obs.targets : obs.targets[t] = Differentiated(scene, t)
  BY DEF GradInv, Filled
<1>2. DOMAIN NoReport = {"host", "verified", "class", "differences", "targets", "native", "smoothed",
                         "frameworks", "kkt", "regimes", "study", "legacy"}
  BY DEF NoReport
<1>3. \A x : DOMAIN (<<x>>) = {1} /\ (<<x>>)[1] = x OBVIOUS
<1>4. CASE Probe
  <2>1. PICK r : r = [obs EXCEPT !.class = Transition(scene, scene.at, H)] OBVIOUS
  <2>2. /\ DOMAIN r = DOMAIN NoReport /\ r.verified = obs.verified
        /\ r.class = Transition(scene, scene.at, H) /\ r.differences = obs.differences
        /\ r.kkt = obs.kkt /\ r.targets = obs.targets
    BY <1>1, <1>2, <2>1
  <2>3. Stage("probe", r) BY <1>4, <2>1 DEF Probe
  <2> QED BY <1>1, <2>2, <2>3, StageKeeps DEF Observing
<1>5. CASE Differentiate
  <2>1. PICK r : r = [obs EXCEPT !.differences = <<Differences(scene, scene.at, H)>>] OBVIOUS
  <2>2. /\ DOMAIN r = DOMAIN NoReport /\ r.verified = obs.verified
        /\ r.class = obs.class /\ r.differences = <<Differences(scene, scene.at, H)>>
        /\ r.kkt = obs.kkt /\ r.targets = obs.targets
    BY <1>1, <1>2, <2>1
  <2>3. Stage("differences", r) BY <1>5, <2>1 DEF Differentiate
  <2>4. \A i \in DOMAIN r.differences : r.differences[i] = Differences(scene, scene.at, H)
    BY <1>3, <2>2
  <2> QED BY <1>1, <2>2, <2>3, <2>4, StageKeeps DEF Observing
<1>6. CASE Targets
  <2>1. PICK f : f = [t \in scene.targets |-> Differentiated(scene, t)] OBVIOUS
  <2>2. PICK r : r = [obs EXCEPT !.targets = f] OBVIOUS
  <2>3. /\ DOMAIN r = DOMAIN NoReport /\ r.verified = obs.verified
        /\ r.class = obs.class /\ r.differences = obs.differences
        /\ r.kkt = obs.kkt /\ r.targets = f
    BY <1>1, <1>2, <2>2
  <2>4. Stage("targets", r) BY <1>6, <2>1, <2>2, Zenon DEF Targets
  <2>5. \A t \in DOMAIN r.targets : r.targets[t] = Differentiated(scene, t) BY <2>1, <2>3
  <2> QED BY <1>1, <2>3, <2>4, <2>5, StageKeeps DEF Observing
<1>7. CASE Backends
  <2>1. PICK x, y, z : Stage("backends", [obs EXCEPT !.native = x, !.smoothed = y, !.frameworks = z])
    BY <1>7, Zenon DEF Backends
  <2>2. PICK r : r = [obs EXCEPT !.native = x, !.smoothed = y, !.frameworks = z] OBVIOUS
  <2>3. /\ DOMAIN r = DOMAIN NoReport /\ r.verified = obs.verified
        /\ r.class = obs.class /\ r.differences = obs.differences
        /\ r.kkt = obs.kkt /\ r.targets = obs.targets
    BY <1>1, <1>2, <2>2
  <2> QED BY <1>1, <2>1, <2>2, <2>3, StageKeeps DEF Observing
<1>8. CASE ResearchKkt
  <2>1. PICK r : r = [obs EXCEPT !.kkt = <<Kkt(scene)>>] OBVIOUS
  <2>2. /\ DOMAIN r = DOMAIN NoReport /\ r.verified = obs.verified
        /\ r.class = obs.class /\ r.differences = obs.differences
        /\ r.kkt = <<Kkt(scene)>> /\ r.targets = obs.targets
    BY <1>1, <1>2, <2>1
  <2>3. Stage("kkt", r) BY <1>8, <2>1 DEF ResearchKkt
  <2>4. \A i \in DOMAIN r.kkt : r.kkt[i] = Kkt(scene) BY <1>3, <2>2
  <2> QED BY <1>1, <2>2, <2>3, <2>4, StageKeeps DEF Observing
<1>9. CASE StepSizes
  <2>1. PICK x : Stage("steps", [obs EXCEPT !.regimes = x]) BY <1>9, Zenon DEF StepSizes
  <2>2. PICK r : r = [obs EXCEPT !.regimes = x] OBVIOUS
  <2>3. /\ DOMAIN r = DOMAIN NoReport /\ r.verified = obs.verified
        /\ r.class = obs.class /\ r.differences = obs.differences
        /\ r.kkt = obs.kkt /\ r.targets = obs.targets
    BY <1>1, <1>2, <2>2
  <2> QED BY <1>1, <2>1, <2>2, <2>3, StageKeeps DEF Observing
<1>10. CASE Smoothed
  <2>1. PICK x : Stage("smooth", [obs EXCEPT !.study = x]) BY <1>10, Zenon DEF Smoothed
  <2>2. PICK r : r = [obs EXCEPT !.study = x] OBVIOUS
  <2>3. /\ DOMAIN r = DOMAIN NoReport /\ r.verified = obs.verified
        /\ r.class = obs.class /\ r.differences = obs.differences
        /\ r.kkt = obs.kkt /\ r.targets = obs.targets
    BY <1>1, <1>2, <2>2
  <2> QED BY <1>1, <2>1, <2>2, <2>3, StageKeeps DEF Observing
<1>11. CASE Legacy
  <2>1. PICK x : Stage("legacy", [obs EXCEPT !.legacy = x]) BY <1>11, Zenon DEF Legacy
  <2>2. PICK r : r = [obs EXCEPT !.legacy = x] OBVIOUS
  <2>3. /\ DOMAIN r = DOMAIN NoReport /\ r.verified = obs.verified
        /\ r.class = obs.class /\ r.differences = obs.differences
        /\ r.kkt = obs.kkt /\ r.targets = obs.targets
    BY <1>1, <1>2, <2>2
  <2> QED BY <1>1, <2>1, <2>2, <2>3, StageKeeps DEF Observing
<1> QED BY <1>4, <1>5, <1>6, <1>7, <1>8, <1>9, <1>10, <1>11

\* A row of the study of agreement is that of its scenario.
LEMMA AgreeKeeps == ASSUME GradInv, Agree PROVE GradInv'
<1>1. PICK c \in Corpora :
        /\ doing = "agree" => scene = c
        /\ Len(rows) < Len(c)
        /\ scene' = c /\ rows' = Append(rows, Evaluated(c[Len(rows) + 1]))
        /\ doing' = IF Len(rows) + 1 = Len(c) THEN "agreed" ELSE "agree"
  BY DEF Agree
<1>2. obs = NoReport /\ obs' = NoReport /\ doing \in {"none", "agree"} BY DEF Agree
<1>3. doing' \in {"agree", "agreed"} BY <1>1
<1>4. c \in Seq(Arguments) BY ArgumentsAssumption
<1>5. /\ rows \in Seq({Evaluated(s) : s \in Arguments})
      /\ \A i \in 1..Len(rows) : rows[i] = Evaluated(c[i])
  <2>1. CASE doing = "none"
    <3>1. rows = <<>> BY <2>1 DEF GradInv, Occupied
    <3> QED BY <3>1
  <2>2. CASE doing = "agree" BY <1>1, <2>2 DEF GradInv, Occupied
  <2> QED BY <1>2, <2>1, <2>2
<1>6. PICK n \in Nat : n = Len(rows) BY <1>5
<1>7. PICK k \in Nat : k = Len(c) BY <1>4
<1>8. n + 1 \in 1..k BY <1>1, <1>6, <1>7
<1>9. c[n + 1] \in Arguments BY <1>4, <1>7, <1>8
<1>10. PICK e \in {Evaluated(s) : s \in Arguments} : e = Evaluated(c[n + 1]) BY <1>9
<1>11. rows' = Append(rows, e) BY <1>1, <1>6, <1>10
<1>12. /\ rows' \in Seq({Evaluated(s) : s \in Arguments}) /\ Len(rows') = n + 1
       /\ \A i \in 1..(n + 1) : rows'[i] = IF i <= n THEN rows[i] ELSE e
  <2> HIDE DEF Evaluated
  <2> QED BY <1>5, <1>6, <1>11
<1>13. \A i \in 1..Len(rows') : rows'[i] = Evaluated(scene'[i])
  <2> SUFFICES ASSUME NEW i \in 1..(n + 1) PROVE rows'[i] = Evaluated(c[i]) BY <1>1, <1>12
  <2>1. CASE i <= n BY <1>5, <1>6, <1>12, <2>1
  <2>2. CASE ~(i <= n)
    <3>1. i = n + 1 BY <2>2
    <3> QED BY <1>10, <1>12, <2>2, <3>1
  <2> QED BY <2>1, <2>2
<1>14. doing' \notin Observing /\ doing' # "none" BY <1>3 DEF Observing
<1>15. Len(rows') <= Len(scene') BY <1>1, <1>7, <1>8, <1>12
<1>16. Occupied' BY <1>1, <1>2, <1>3, <1>12, <1>13, <1>14, <1>15 DEF Occupied
<1>17. Filled'
  <2>1. NoReport = [NoReport EXCEPT !.host = NoReport.host] BY DEF NoReport
  <2> QED BY <1>2, <2>1, EmptyReport DEF Filled
<1> QED BY <1>16, <1>17 DEF GradInv

\* Every step of the observatory keeps its invariant.
LEMMA GradKeeps == ASSUME GradInv, [GradStep]_gradVars PROVE GradInv'
<1>1. CASE UNCHANGED gradVars
  BY <1>1 DEF gradVars, GradInv, Occupied, Filled
<1> QED BY <1>1, ObserveKeeps, StagesKeep, AgreeKeeps DEF GradStep

\* What the stages computed are derivatives.
LEMMA FilledIsDerivative == ASSUME GradInv PROVE UnmarkedIsDerivative
<1>1. ASSUME obs.verified
      PROVE  /\ scene \in Arguments /\ Sited(scene) /\ scene.at \in Int
             /\ Project(scene, scene.at) # <<>>
  <2>1. scene \in Proposals /\ Verified(scene) BY <1>1 DEF GradInv, Occupied, Filled
  <2>2. scene \in Arguments BY <2>1, ArgumentsAssumption
  <2> QED BY <2>1, <2>2, ArgumentsAreSited DEF Verified
<1>2. ASSUME obs.verified, Exact(scene), Wide(scene), obs.class = "stable"
      PROVE  /\ scene.at \notin {Lowest(scene), Highest(scene)}
             /\ \A i \in DOMAIN obs.differences : ~obs.differences[i].failed =>
                  /\ ~obs.differences[i].changed
                  /\ Near(obs.differences[i].central, 2 * H * Slope(scene, scene.at))
             /\ \A i \in DOMAIN obs.kkt :
                  obs.kkt[i].reason = "ok" => obs.kkt[i].jacobian = Slope(scene, scene.at)
  <2>1. /\ ActiveSet(scene, scene.at + H) = ActiveSet(scene, scene.at)
        /\ ActiveSet(scene, scene.at - H) = ActiveSet(scene, scene.at)
    BY <1>2, StableIsEqual DEF GradInv, Filled
  <2>2. /\ scene.at # Lowest(scene) /\ scene.at # Highest(scene)
        /\ ~Differences(scene, scene.at, H).failed =>
             /\ ~Differences(scene, scene.at, H).changed
             /\ Near(Differences(scene, scene.at, H).central, 2 * H * Slope(scene, scene.at))
    BY <1>1, <1>2, <2>1, StableIsSmooth
  <2>3. Kkt(scene).reason = "ok" => Kkt(scene).jacobian = Slope(scene, scene.at)
    BY <1>1, <1>2, <2>1, KktIsDerivative
  <2> QED BY <2>2, <2>3, Zenon DEF GradInv, Filled
<1>3. ASSUME obs.verified, OffBy(scene) < Weak, NEW i \in DOMAIN obs.kkt, obs.kkt[i].reason = "ok"
      PROVE  LET reach == Tol + OffBy(scene) + 1
             IN  \E u \in (scene.at - reach)..(scene.at + reach) :
                   obs.kkt[i].jacobian = Slope(scene, u)
  BY <1>1, <1>3, KktIsNearby, Zenon DEF GradInv, Filled
<1>4. ASSUME doing \in {"agree", "agreed"}, NEW i \in DOMAIN rows,
             Exact(scene[i]), Wide(scene[i]), rows[i].mode = "ok"
      PROVE  Near(rows[i].apart[1], 0)
  <2>1. /\ scene \in Seq(Arguments) /\ rows \in Seq({Evaluated(s) : s \in Arguments})
        /\ Len(rows) <= Len(scene)
        /\ \A j \in 1..Len(rows) : rows[j] = Evaluated(scene[j])
    BY <1>4, ArgumentsAssumption DEF GradInv, Occupied
  <2>2. PICK n, k \in Nat : n = Len(rows) /\ k = Len(scene) BY <2>1
  <2>3. i \in 1..n /\ n <= k
    <3> HIDE DEF Evaluated
    <3> QED BY <2>1, <2>2
  <2>4. scene[i] \in Arguments BY <2>1, <2>2, <2>3
  <2>5. rows[i] = Evaluated(scene[i]) BY <2>1, <2>2, <2>3
  <2> QED BY <1>4, <2>4, <2>5, OkRowAgrees
<1>5. ASSUME NEW t \in DOMAIN obs.targets \cap {"previous_action", "box_bounds"},
             NEW i \in DOMAIN obs.targets[t], Exact(scene)
      PROVE  LET c == obs.targets[t][i]
             IN  /\ scene.at \in (Lowest(scene) + 2 * H)..(Highest(scene) - 2 * H) =>
                      \A b \in DOMAIN c : c[b] = <<0>>
                 /\ \A r \in Rows(scene) : HoldsAlone(scene, r) =>
                      \A b \in DOMAIN c :
                        c[b] = <<IF b # <<r.family, r.index>> THEN 0
                                 ELSE IF r.index = 1 THEN 4 * H ELSE -4 * H>>
  <2>1. obs.verified
    <3> SUFFICES ASSUME ~obs.verified PROVE FALSE OBVIOUS
    <3>1. obs = [NoReport EXCEPT !.host = obs.host] BY DEF GradInv, Filled
    <3>2. obs.targets = NoReport.targets BY <3>1 DEF NoReport
    <3> QED BY <3>2, EmptyReport
  <2>2. obs.targets[t] = Differentiated(scene, t) BY DEF GradInv, Filled
  <2>3. PICK c : c = obs.targets[t][i] OBVIOUS
  <2>4. \A b \in DOMAIN c :
          /\ scene.at \in (Lowest(scene) + 2 * H)..(Highest(scene) - 2 * H) => c[b] = <<0>>
          /\ \A r \in Rows(scene) : HoldsAlone(scene, r) =>
               c[b] = <<IF b # <<r.family, r.index>> THEN 0
                        ELSE IF r.index = 1 THEN 4 * H ELSE -4 * H>>
    BY <1>1, <1>5, <2>1, <2>2, <2>3, BoundDerivative
  <2> QED BY <2>3, <2>4
<1>6. ~obs.verified => obs = [NoReport EXCEPT !.host = obs.host] BY DEF GradInv, Filled
<1> QED BY <1>2, <1>3, <1>4, <1>5, <1>6, Zenon DEF UnmarkedIsDerivative

\* Every reachable state of an observation or of a study of agreement: the report
\* says what the stages computed of the scene (observe_proposed_action_fd,
\* run_agreement_study).
THEOREM ObservationInvariant == ResearchSpec => []GradInv
<1>1. ResearchInit => GradInv BY GradBegins DEF ResearchInit
<1>2. GradInv /\ [ResearchNext]_researchVars => GradInv'
  <2>1. [ResearchNext]_researchVars => [GradStep]_gradVars
    BY DEF ResearchNext, researchVars, gradVars
  <2> QED BY <2>1, GradKeeps
<1> QED BY <1>1, <1>2, PTL DEF ResearchSpec

\* A derivative that is not marked is one: where the labels of three solves are
\* stable and the segment is wide, the preferred difference and the KKT
\* derivative are that of the projection, "ok" rows agree, and the derivative
\* with respect to a bound is zero or full (classify_active_set_transition,
\* exact_research_kkt_jacobian, differentiate_target_central_fd,
\* _evaluate_scenario).
THEOREM UnmarkedAreDerivatives == ResearchSpec => []UnmarkedIsDerivative
<1>1. GradInv => UnmarkedIsDerivative BY FilledIsDerivative
<1> QED BY <1>1, ObservationInvariant, PTL
-----------------------------------------------------------------------------
(***************************************************************************)
(* Sums over a function, which a study takes over its seeds.               *)
(***************************************************************************)

\* The element that a fold takes next.
Taken(s) == CHOOSE x \in s : TRUE

\* A set without the element that is taken.
LEMMA Rest ==
  ASSUME NEW D, IsFiniteSet(D), NEW s \in SUBSET D
  PROVE  /\ Cardinality(s) \in Nat /\ Cardinality(s) <= Cardinality(D)
         /\ s # {} => /\ Taken(s) \in s /\ s \ {Taken(s)} \in SUBSET D
                      /\ Cardinality(s \ {Taken(s)}) = Cardinality(s) - 1
         /\ Cardinality(s) = 0 => s = {}
<1>1. IsFiniteSet(s) /\ Cardinality(s) <= Cardinality(D) BY FS_Subset
<1>2. Cardinality(s) \in Nat BY <1>1, FS_CardinalityType
<1>3. s # {} => Taken(s) \in s BY DEF Taken
<1>4. s # {} => Cardinality(s \ {Taken(s)}) = Cardinality(s) - 1
  BY <1>1, <1>3, FS_RemoveElement
<1>5. Cardinality(s) = 0 => s = {} BY <1>1, FS_EmptySet
<1> QED BY <1>1, <1>2, <1>3, <1>4, <1>5

\* The functions that give the sums over the sets of at most n elements.
PartialSums(n, x, D) ==
  {f \in [SUBSET D -> Int] : \A s \in SUBSET D : Cardinality(s) <= n =>
     f[s] = IF s = {} THEN 0 ELSE x[Taken(s)] + f[s \ {Taken(s)}]}

\* There is one for any size: the least size without one would be that of a sum
\* over one element less and one number.
LEMMA PartialSumsExist ==
  ASSUME NEW D, IsFiniteSet(D), NEW x \in [D -> Int], NEW n \in Nat
  PROVE  PartialSums(n, x, D) # {}
<1> DEFINE Unsummed == {k \in Nat : PartialSums(k, x, D) = {}}
<1> SUFFICES ASSUME Unsummed # {} PROVE FALSE OBVIOUS
<1>1. PICK k \in Unsummed : \A j \in Unsummed : k <= j BY LeastNumber
<1>2. k # 0
  <2>1. PICK f : f = [s \in SUBSET D |-> 0] OBVIOUS
  <2>2. \A s \in SUBSET D : Cardinality(s) <= 0 => s = {}
    <3> SUFFICES ASSUME NEW s \in SUBSET D, Cardinality(s) <= 0 PROVE s = {} OBVIOUS
    <3>0. Cardinality(s) \in Nat BY Rest
    <3>1. Cardinality(s) = 0 BY <3>0
    <3> QED BY <3>1, Rest
  <2>3. f \in PartialSums(0, x, D) BY <2>1, <2>2 DEF PartialSums
  <2> QED BY <2>3, <1>1
<1>3. k - 1 \in Nat /\ k - 1 \notin Unsummed BY <1>1, <1>2
<1>4. PICK g \in [SUBSET D -> Int] : \A s \in SUBSET D : Cardinality(s) <= k - 1 =>
        g[s] = IF s = {} THEN 0 ELSE x[Taken(s)] + g[s \ {Taken(s)}]
  BY <1>3 DEF PartialSums
<1>5. PICK h : h = [s \in SUBSET D |-> IF s = {} THEN 0 ELSE x[Taken(s)] + g[s \ {Taken(s)}]]
  OBVIOUS
<1>6. h \in [SUBSET D -> Int]
  <2> SUFFICES ASSUME NEW s \in SUBSET D, s # {} PROVE x[Taken(s)] + g[s \ {Taken(s)}] \in Int
    BY <1>5
  <2>1. Taken(s) \in D /\ s \ {Taken(s)} \in SUBSET D BY Rest
  <2> QED BY <2>1, <1>4
<1>7. \A s \in SUBSET D : Cardinality(s) <= k - 1 => h[s] = g[s] BY <1>4, <1>5
<1>8. ASSUME NEW s \in SUBSET D, s # {}, Cardinality(s) <= k
      PROVE  h[s] = x[Taken(s)] + h[s \ {Taken(s)}]
  <2>1. PICK t \in SUBSET D : t = s \ {Taken(s)} BY Rest
  <2>2. Cardinality(t) <= k - 1 BY <1>1, <1>8, <2>1, Rest
  <2>3. h[s] = x[Taken(s)] + g[t] BY <1>5, <1>8, <2>1
  <2> QED BY <1>7, <2>1, <2>2, <2>3
<1>9. h[{}] = 0 BY <1>5
<1>10. h \in PartialSums(k, x, D) BY <1>6, <1>8, <1>9 DEF PartialSums
<1> QED BY <1>1, <1>10

\* The sums over all sets of indices, each reached from that of a smaller one.
Reaches(f, x, D) ==
  /\ f \in [SUBSET D -> Int] /\ SumFunction(x) = f[D]
  /\ \A s \in SUBSET D : f[s] = IF s = {} THEN 0 ELSE x[Taken(s)] + f[s \ {Taken(s)}]

\* The sum of a function over a finite set is reached by taking off one member
\* at a time.
LEMMA SumIsReached ==
  ASSUME NEW D, IsFiniteSet(D), NEW x \in [D -> Int]
  PROVE  \E f : Reaches(f, x, D)
<1> DEFINE Added(f) == [s \in SUBSET D |-> IF s = {} THEN 0 ELSE x[Taken(s)] + f[s \ {Taken(s)}]]
           sums == CHOOSE f : f = Added(f)
<1>1. SumFunction(x) = sums[D]
  <2>1. DOMAIN x = D OBVIOUS
  <2> QED BY <2>1 DEF SumFunction, SumFunctionOnSet, FoldFunctionOnSet, MapThenFoldSet, Taken
<1>2. Cardinality(D) \in Nat /\ \A s \in SUBSET D : Cardinality(s) <= Cardinality(D)
  BY Rest, FS_CardinalityType
<1>3. PICK g \in [SUBSET D -> Int] : \A s \in SUBSET D :
        g[s] = IF s = {} THEN 0 ELSE x[Taken(s)] + g[s \ {Taken(s)}]
  <2>1. PartialSums(Cardinality(D), x, D) # {} BY <1>2, PartialSumsExist
  <2>2. PICK g \in PartialSums(Cardinality(D), x, D) : TRUE BY <2>1
  <2> QED BY <1>2, <2>2 DEF PartialSums
<1>4. g = Added(g)
  <2>1. \A s \in SUBSET D : g[s] = Added(g)[s] BY <1>3
  <2>2. Added(g) = [s \in SUBSET D |-> Added(g)[s]] /\ g = [s \in SUBSET D |-> g[s]] BY <1>3
  <2> QED BY <2>1, <2>2
<1>5. sums = Added(sums) BY <1>4
<1>6. \A s \in SUBSET D : sums[s] = IF s = {} THEN 0 ELSE x[Taken(s)] + sums[s \ {Taken(s)}]
  BY <1>5
<1>7. DOMAIN sums = SUBSET D /\ sums = [s \in SUBSET D |-> sums[s]]
  <2>1. \A r : r = Added(r) => r = [s \in SUBSET D |-> r[s]] /\ DOMAIN r = SUBSET D OBVIOUS
  <2> HIDE DEF sums, Added
  <2> QED BY <1>5, <2>1
<1> HIDE DEF sums, Added
<1> DEFINE Wrong == {n \in Nat : \E s \in SUBSET D : Cardinality(s) = n /\ sums[s] \notin Int}
<1>8. Wrong = {}
  <2> SUFFICES ASSUME Wrong # {} PROVE FALSE OBVIOUS
  <2>1. PICK n \in Wrong : \A m \in Wrong : n <= m BY LeastNumber
  <2>2. PICK s \in SUBSET D : Cardinality(s) = n /\ sums[s] \notin Int BY <2>1
  <2>3. sums[s] = IF s = {} THEN 0 ELSE x[Taken(s)] + sums[s \ {Taken(s)}] BY <1>6
  <2>3a. s # {} /\ sums[s] = x[Taken(s)] + sums[s \ {Taken(s)}] BY <2>2, <2>3
  <2>4. PICK t \in SUBSET D : t = s \ {Taken(s)} BY <2>3a, Rest
  <2>5. Taken(s) \in D /\ Cardinality(t) = n - 1 /\ n - 1 \in Nat
    <3>1. Cardinality(t) \in Nat BY Rest
    <3> QED BY <2>2, <2>3a, <2>4, <3>1, Rest
  <2>6. sums[t] \in Int
    <3>1. n - 1 \notin Wrong BY <2>1, <2>5
    <3> QED BY <2>5, <3>1
  <2> QED BY <2>2, <2>3a, <2>4, <2>5, <2>6
<1>9. \A s \in SUBSET D : sums[s] \in Int BY <1>8, Rest
<1>10. sums \in [SUBSET D -> Int] BY <1>7, <1>9
<1>11. Reaches(sums, x, D) BY <1>1, <1>6, <1>10 DEF Reaches
<1> QED BY <1>11

\* Two numbers that add up to m, everywhere, sum up to as many m.
LEMMA SumsAddUp ==
  ASSUME NEW D, IsFiniteSet(D), NEW x \in [D -> Int], NEW y \in [D -> Int], NEW m \in Int,
         \A k \in D : x[k] + y[k] = m
  PROVE  SumFunction(x) + SumFunction(y) = m * Cardinality(D)
<1>1a. PICK f : Reaches(f, x, D) BY SumIsReached
<1>2a. PICK g : Reaches(g, y, D) BY SumIsReached
<1>1. /\ f \in [SUBSET D -> Int] /\ SumFunction(x) = f[D]
      /\ \A s \in SUBSET D : f[s] = IF s = {} THEN 0 ELSE x[Taken(s)] + f[s \ {Taken(s)}]
  BY <1>1a DEF Reaches
<1>2. /\ g \in [SUBSET D -> Int] /\ SumFunction(y) = g[D]
      /\ \A s \in SUBSET D : g[s] = IF s = {} THEN 0 ELSE y[Taken(s)] + g[s \ {Taken(s)}]
  BY <1>2a DEF Reaches
<1> DEFINE Wrong == {n \in Nat : \E s \in SUBSET D : Cardinality(s) = n /\ f[s] + g[s] # m * n}
<1>3. Wrong = {}
  <2> SUFFICES ASSUME Wrong # {} PROVE FALSE OBVIOUS
  <2>1. PICK n \in Wrong : \A k \in Wrong : n <= k BY LeastNumber
  <2>2. PICK s \in SUBSET D : Cardinality(s) = n /\ f[s] + g[s] # m * n BY <2>1
  <2>3. CASE s = {}
    <3>1. f[s] = 0 /\ g[s] = 0 BY <1>1, <1>2, <2>3
    <3>2. n = 0 BY <2>2, <2>3, FS_EmptySet
    <3>3. m * 0 = 0 OBVIOUS
    <3> QED BY <2>2, <3>1, <3>2, <3>3
  <2>4. CASE s # {}
    <3>0. Taken(s) \in s BY <2>4 DEF Taken
    <3>1a. PICK i \in D : i = Taken(s) BY <3>0
    <3>1b. PICK t \in SUBSET D : t = s \ {i} OBVIOUS
    <3>1. i = Taken(s) /\ t = s \ {i} BY <3>1a, <3>1b
    <3>2. Cardinality(t) = n - 1 /\ n - 1 \in Nat
      <4>1. Cardinality(t) \in Nat BY Rest
      <4>2. Cardinality(t) = Cardinality(s) - 1 BY <2>4, <3>1, Rest
      <4> QED BY <2>2, <4>1, <4>2
    <3>3. n - 1 \notin Wrong BY <2>1, <3>2
    <3>4. f[t] + g[t] = m * (n - 1) BY <3>2, <3>3
    <3>5. f[s] = x[i] + f[t] /\ g[s] = y[i] + g[t] BY <1>1, <1>2, <2>4, <3>1
    <3>6. PICK a, b, c, d \in Int : a = f[t] /\ b = g[t] /\ c = x[i] /\ d = y[i]
      BY <1>1, <1>2
    <3>7. c + d = m /\ a + b = m * (n - 1) BY <3>1, <3>4, <3>6
    <3>8. m * (n - 1) = m * n - m OBVIOUS
    <3>9. (c + a) + (d + b) = m * n BY <3>7, <3>8
    <3> QED BY <2>2, <3>5, <3>6, <3>9
  <2> QED BY <2>3, <2>4
<1>4. Cardinality(D) \in Nat BY FS_CardinalityType
<1>5. f[D] + g[D] = m * Cardinality(D) BY <1>3, <1>4
<1> QED BY <1>1, <1>2, <1>5

\* A sum of numbers that are at least others is at least their sum.
LEMMA SumsOrdered ==
  ASSUME NEW D, IsFiniteSet(D), NEW x \in [D -> Int], NEW y \in [D -> Int],
         \A k \in D : x[k] <= y[k]
  PROVE  SumFunction(x) <= SumFunction(y)
<1>1a. PICK f : Reaches(f, x, D) BY SumIsReached
<1>2a. PICK g : Reaches(g, y, D) BY SumIsReached
<1>1. /\ f \in [SUBSET D -> Int] /\ SumFunction(x) = f[D]
      /\ \A s \in SUBSET D : f[s] = IF s = {} THEN 0 ELSE x[Taken(s)] + f[s \ {Taken(s)}]
  BY <1>1a DEF Reaches
<1>2. /\ g \in [SUBSET D -> Int] /\ SumFunction(y) = g[D]
      /\ \A s \in SUBSET D : g[s] = IF s = {} THEN 0 ELSE y[Taken(s)] + g[s \ {Taken(s)}]
  BY <1>2a DEF Reaches
<1> DEFINE Wrong == {n \in Nat : \E s \in SUBSET D : Cardinality(s) = n /\ ~(f[s] <= g[s])}
<1>3. Wrong = {}
  <2> SUFFICES ASSUME Wrong # {} PROVE FALSE OBVIOUS
  <2>1. PICK n \in Wrong : \A k \in Wrong : n <= k BY LeastNumber
  <2>2. PICK s \in SUBSET D : Cardinality(s) = n /\ ~(f[s] <= g[s]) BY <2>1
  <2>3. CASE s = {}
    <3>1. f[s] = 0 /\ g[s] = 0 BY <1>1, <1>2, <2>3
    <3> QED BY <2>2, <3>1
  <2>4. CASE s # {}
    <3>0. Taken(s) \in s BY <2>4 DEF Taken
    <3>1a. PICK i \in D : i = Taken(s) BY <3>0
    <3>1b. PICK t \in SUBSET D : t = s \ {i} OBVIOUS
    <3>1. i = Taken(s) /\ t = s \ {i} BY <3>1a, <3>1b
    <3>2. Cardinality(t) = n - 1 /\ n - 1 \in Nat
      <4>1. Cardinality(t) \in Nat BY Rest
      <4>2. Cardinality(t) = Cardinality(s) - 1 BY <2>4, <3>1, Rest
      <4> QED BY <2>2, <4>1, <4>2
    <3>3. n - 1 \notin Wrong BY <2>1, <3>2
    <3>4. f[t] <= g[t] BY <3>2, <3>3
    <3>5. f[s] = x[i] + f[t] /\ g[s] = y[i] + g[t] BY <1>1, <1>2, <2>4, <3>1
    <3>6. PICK a, b, c, d \in Int : a = f[t] /\ b = g[t] /\ c = x[i] /\ d = y[i]
      BY <1>1, <1>2
    <3> QED BY <2>2, <3>4, <3>5, <3>6
  <2> QED BY <2>3, <2>4
<1>4. Cardinality(D) \in Nat BY FS_CardinalityType
<1> QED BY <1>1, <1>2, <1>3, <1>4
-----------------------------------------------------------------------------
(***************************************************************************)
(* The shadow studies: solves, scores and the selection by a budget.       *)
(***************************************************************************)

\* The families of constraints that a solve touches.
Touched == {"box_lower", "box_upper", "rate", "turn_feasibility", "simplex"}

\* The words of the solvers, and the statuses they are mapped to.
Words == {"optimal", "optimal_inaccurate", "infeasible", "user_limit", "error", "unavailable"}
Statuses == {"optimal", "infeasible", "iteration_limit", "numerical_failure", "unavailable"}

Solves == [raw : Words, at : (Int \X Int) \cup {NoPoint}, status : Statuses, iterations : Int,
           objective : Int, residuals : [eq : Int, ineq : Int, active : SUBSET Touched]]

\* What an earlier solve of the family touched, if there was one.
TouchedBefore == {<<>>} \cup {<<a>> : a \in SUBSET Touched}

FeatureSet == [finite : BOOLEAN, residual : Int, equality : Int, iterations : Int, slack : Int,
               change : Int, failed : BOOLEAN, rejected : BOOLEAN, upgrade : BOOLEAN]

\* An absolute value is a natural number.
LEMMA SizeIsNat == \A d \in Int : Size(d) \in Nat
  BY DEF Size

\* The residuals of a control are numbers, and its active rows are rows.
LEMMA ResidualsTyped ==
  ASSUME NEW s \in Scenarios, NEW x \in Int \X Int
  PROVE  Residuals(s, x) \in [eq : Int, ineq : Int, active : SUBSET Touched]
<1>1. PICK a, b \in Int : x[1] = a /\ x[2] = b OBVIOUS
<1>2. /\ s.total \in Int /\ s.lower \in Int /\ s.upper \in Int /\ s.delta \in Int
      /\ s.previous[1] \in Int /\ s.previous[2] \in Int
  BY DEF Scenarios
<1>3. \A d \in Int : Excess(d) \in Int BY DEF Excess
<1>4. Violation(s, x, 1) \in Int
  <2>1. /\ Excess(s.lower - a) \in Int /\ Excess(a - s.upper) \in Int
        /\ Size(a - s.previous[1]) \in Int /\ Size(a) \in Int
    BY <1>2, <1>3, SizeIsNat
  <2>2. Excess(Size(a - s.previous[1]) - s.delta) \in Int BY <1>2, <1>3, <2>1
  <2> QED BY <1>1, <2>1, <2>2 DEF Violation
<1>5. Violation(s, x, 2) \in Int
  <2>1. /\ Excess(s.lower - b) \in Int /\ Excess(b - s.upper) \in Int
        /\ Size(b - s.previous[2]) \in Int /\ Size(b) \in Int
    BY <1>2, <1>3, SizeIsNat
  <2>2. Excess(Size(b - s.previous[2]) - s.delta) \in Int BY <1>2, <1>3, <2>1
  <2> QED BY <1>1, <2>1, <2>2 DEF Violation
<1>6. Size(x[1] + x[2] - s.total) \in Int BY <1>1, <1>2, SizeIsNat
<1>7. Residuals(s, x).active \subseteq Touched BY DEF Residuals, Touched
<1> HIDE DEF Touched
<1> QED BY <1>4, <1>5, <1>6, <1>7 DEF Residuals

\* What a backend answers becomes a solve.
LEMMA ProjectionTyped ==
  ASSUME NEW s \in Scenarios, NEW b, NEW role \in {"primary", "shadow"},
         NEW p \in Projections(s, b, role)
  PROVE  p \in Solves
<1>1. PICK a : /\ p = Projection(s, a) /\ a.raw \in DOMAIN StatusOf
               /\ a.at \in (Int \X Int) \cup {NoPoint} /\ a.iterations \in Int
  <2>1. CASE b \in Available
    <3>1. PICK a \in s.answers[b][role] : p = Projection(s, a) BY <2>1 DEF Projections
    <3>2. a \in SolverAnswers BY <2>1, <3>1 DEF Scenarios
    <3> QED BY <3>1, <3>2 DEF SolverAnswers, StatusOf
  <2>2. CASE b \notin Available
    <3>1. p = Projection(s, [raw |-> "unavailable", at |-> NoPoint, iterations |-> 0])
      BY <2>2 DEF Projections
    <3> QED BY <3>1 DEF StatusOf
  <2> QED BY <2>1, <2>2
<1>2. a.raw \in Words /\ StatusOf[a.raw] \in Statuses
  BY <1>1 DEF StatusOf, Words, Statuses
<1>3. CASE a.at = NoPoint
  <2>1. p = [raw |-> a.raw, at |-> a.at, status |-> StatusOf[a.raw], iterations |-> a.iterations,
             objective |-> -1, residuals |-> [eq |-> 0, ineq |-> 0, active |-> {}]]
    BY <1>1, <1>3 DEF Projection
  <2> QED BY <1>1, <1>2, <2>1 DEF Solves
<1>4. CASE a.at # NoPoint
  <2>1. a.at \in Int \X Int BY <1>1, <1>4
  <2>2. Apart2(a.at, s.proposed) \in Int
    <3>1. PICK x, y, u, v \in Int :
            a.at[1] = x /\ a.at[2] = y /\ s.proposed[1] = u /\ s.proposed[2] = v
      BY <2>1 DEF Scenarios
    <3>2. \A d \in Int : d * d \in Int OBVIOUS
    <3>3. (x - u) * (x - u) \in Int /\ (y - v) * (y - v) \in Int BY <3>2
    <3> QED BY <3>1, <3>3 DEF Apart2
  <2>3. PICK r \in [eq : Int, ineq : Int, active : SUBSET Touched] : r = Residuals(s, a.at)
    BY <2>1, ResidualsTyped
  <2>4. p = [raw |-> a.raw, at |-> a.at, status |-> StatusOf[a.raw], iterations |-> a.iterations,
             objective |-> Apart2(a.at, s.proposed), residuals |-> r]
    BY <1>1, <1>4, <2>3 DEF Projection
  <2> QED BY <1>1, <1>2, <2>2, <2>4 DEF Solves
<1> QED BY <1>3, <1>4

\* Finitely many answers are finitely many solves.
LEMMA ProjectionsFinite ==
  ASSUME NEW s \in Studies, NEW i \in DOMAIN s.corpus, NEW b, NEW role \in {"primary", "shadow"}
  PROVE  IsFiniteSet(Projections(s.corpus[i], b, role))
<1>1. CASE b \in Available
  <2>1. IsFiniteSet(s.corpus[i].answers[b][role]) BY <1>1, StudyAssumption
  <2> DEFINE A == s.corpus[i].answers[b][role]
             P == {Projection(s.corpus[i], a) : a \in A}
             f == [a \in A |-> Projection(s.corpus[i], a)]
  <2>1a. f \in [A -> P] /\ \A p \in P : \E a \in A : f[a] = p OBVIOUS
  <2>1b. f \in Surjection(A, P)
    <3> HIDE DEF A, P, f
    <3> QED BY <2>1a DEF Surjection
  <2>2. IsFiniteSet(P)
    <3> HIDE DEF A, P, f
    <3> QED BY <2>1, <2>1b, FS_Surjection DEF A
  <2> QED BY <1>1, <2>2 DEF Projections
<1>2. CASE b \notin Available
  <2>1. \A x : IsFiniteSet({x}) BY FS_Singleton
  <2> QED BY <1>2, <2>1 DEF Projections
<1> QED BY <1>1, <1>2

\* The least slack of a control is a number.
LEMMA LeastSlackTyped ==
  ASSUME NEW s \in Scenarios, NEW x \in Int \X Int
  PROVE  LeastSlack(s, x) \in Int
<1>1. PICK a, b \in Int : x[1] = a /\ x[2] = b OBVIOUS
<1>2. PICK l, u, d, p, q \in Int :
        l = s.lower /\ u = s.upper /\ d = s.delta /\ p = s.previous[1] /\ q = s.previous[2]
  BY DEF Scenarios
<1>3. \A y, z \in Int : y * z \in Int OBVIOUS
<1>4. Size(a - p) \in Int /\ Size(b - q) \in Int BY SizeIsNat
<1>5. PICK x1, x2, x3, x4, x5, x6 \in Int :
        /\ x1 = (a - l) * d /\ x2 = (u - a) * d /\ x3 = (d - Size(a - p)) * (u - l)
        /\ x4 = (b - l) * d /\ x5 = (u - b) * d /\ x6 = (d - Size(b - q)) * (u - l)
  <2>1. (a - l) * d \in Int /\ (u - a) * d \in Int /\ (d - Size(a - p)) * (u - l) \in Int
    BY <1>3, <1>4
  <2>2. (b - l) * d \in Int /\ (u - b) * d \in Int /\ (d - Size(b - q)) * (u - l) \in Int
    BY <1>3, <1>4
  <2> QED BY <2>1, <2>2
<1>6. LeastSlack(s, x) = Min({x1, x2, x3, x4, x5, x6})
  <2> DEFINE U == UNION {{(x[i] - l) * d, (u - x[i]) * d,
                          (d - Size(x[i] - s.previous[i])) * (u - l)} : i \in {1, 2}}
  <2>1. LeastSlack(s, x) = Min(U) BY <1>2 DEF LeastSlack, Coordinates
  <2>2. U = {(x[1] - l) * d, (u - x[1]) * d, (d - Size(x[1] - s.previous[1])) * (u - l)}
            \cup {(x[2] - l) * d, (u - x[2]) * d, (d - Size(x[2] - s.previous[2])) * (u - l)}
    OBVIOUS
  <2> HIDE DEF U
  <2>3. U = {x1, x2, x3} \cup {x4, x5, x6} BY <1>1, <1>2, <1>5, <2>2
  <2> QED BY <2>1, <2>3
<1>7. PICK low \in Int : /\ low <= x1 /\ low <= x2 /\ low <= x3
                         /\ low <= x4 /\ low <= x5 /\ low <= x6
  <2>1. \A y, z \in Int : \E w \in Int : w <= y /\ w <= z OBVIOUS
  <2>2. PICK y1 \in Int : y1 <= x1 /\ y1 <= x2 BY <2>1
  <2>3. PICK y2 \in Int : y2 <= x3 /\ y2 <= x4 BY <2>1
  <2>4. PICK y3 \in Int : y3 <= x5 /\ y3 <= x6 BY <2>1
  <2>5. PICK y4 \in Int : y4 <= y1 /\ y4 <= y2 BY <2>1
  <2>6. PICK y5 \in Int : y5 <= y3 /\ y5 <= y4 BY <2>1
  <2> QED BY <2>2, <2>3, <2>4, <2>5, <2>6
<1>8. PICK S \in SUBSET Int : S = {x1, x2, x3, x4, x5, x6} OBVIOUS
<1>9. S # {} /\ \A y \in S : low <= y BY <1>7, <1>8
<1>10. Min(S) \in S BY <1>9, HasLeast
<1> QED BY <1>6, <1>8, <1>10

\* The features of a case are features.
LEMMA FeaturesTyped ==
  ASSUME NEW s \in Scenarios, NEW p \in Solves, NEW before \in TouchedBefore
  PROVE  Features(s, p, before) \in FeatureSet
<1>1. /\ p.residuals.eq \in Int /\ p.residuals.ineq \in Int /\ p.iterations \in Int
      /\ p.residuals.active \in SUBSET Touched /\ p.at \in (Int \X Int) \cup {NoPoint}
      /\ s.rejected \in BOOLEAN
  BY DEF Solves, Scenarios
<1>2. Badness(p) \in Int BY <1>1 DEF Badness
<1>3. (IF p.at = NoPoint THEN 0 ELSE LeastSlack(s, p.at)) \in Int BY <1>1, LeastSlackTyped
<1>4. (IF p.at = NoPoint \/ before = <<>> THEN 0
       ELSE Cardinality(SymDiff(p.residuals.active, before[1]))) \in Int
  <2>1. CASE before = <<>> BY <2>1
  <2>2. CASE before # <<>>
    <3>1. PICK a \in SUBSET Touched : before = <<a>> BY <2>2 DEF TouchedBefore
    <3>2. before[1] = a BY <3>1
    <3>3. SymDiff(p.residuals.active, before[1]) \subseteq Touched
      BY <1>1, <3>2 DEF SymDiff
    <3>4. IsFiniteSet(Touched)
      <4>1. IsFiniteSet({}) BY FS_EmptySet
      <4>2. \A S, x : IsFiniteSet(S) => IsFiniteSet(S \cup {x}) BY FS_AddElement
      <4>3. Touched = (((({} \cup {"box_lower"}) \cup {"box_upper"}) \cup {"rate"})
                        \cup {"turn_feasibility"}) \cup {"simplex"}
        BY DEF Touched
      <4>4. PICK A, B, C, D : /\ A = {} \cup {"box_lower"} /\ B = A \cup {"box_upper"}
                              /\ C = B \cup {"rate"} /\ D = C \cup {"turn_feasibility"}
        OBVIOUS
      <4>5. IsFiniteSet(A) BY <4>1, <4>2, <4>4
      <4>6. IsFiniteSet(B) BY <4>2, <4>4, <4>5
      <4>7. IsFiniteSet(C) BY <4>2, <4>4, <4>6
      <4>8. IsFiniteSet(D) BY <4>2, <4>4, <4>7
      <4>9. Touched = D \cup {"simplex"} BY <4>3, <4>4
      <4> QED BY <4>2, <4>8, <4>9
    <3>5. IsFiniteSet(SymDiff(p.residuals.active, before[1])) BY <3>3, <3>4, FS_Subset
    <3> QED BY <3>5, FS_CardinalityType
  <2> QED BY <2>1, <2>2
<1>5. PICK slack, change \in Int :
        /\ slack = (IF p.at = NoPoint THEN 0 ELSE LeastSlack(s, p.at))
        /\ change = (IF p.at = NoPoint \/ before = <<>> THEN 0
                     ELSE Cardinality(SymDiff(p.residuals.active, before[1])))
  BY <1>3, <1>4
<1>6. Features(s, p, before) =
        [finite |-> p.at # NoPoint, residual |-> Badness(p), equality |-> p.residuals.eq,
         iterations |-> p.iterations, slack |-> slack, change |-> change,
         failed |-> p.status \in {"numerical_failure", "unavailable"},
         rejected |-> s.rejected, upgrade |-> s.family = "backend_version_changes"]
  BY <1>5, Zenon DEF Features
<1> QED BY <1>1, <1>2, <1>6 DEF FeatureSet

\* Every policy scores by a number.
LEMMA ScoreTyped ==
  ASSUME NEW policy \in Policies, NEW f \in FeatureSet, NEW rank \in Int
  PROVE  Score(policy, f, rank) \in Int
<1>1. \A b : Yes(b) \in Int BY DEF Yes
<1>2. f.residual \in Int /\ f.equality \in Int /\ f.iterations \in Int /\ f.slack \in Int /\ f.change \in Int
  BY DEF FeatureSet
<1>3. PICK n \in Nat : n = Size(f.slack) BY <1>2, SizeIsNat
<1>4. 1000 \div (1 + n) \in Int
  <2>1. PICK m \in Nat \ {0} : m = 1 + n OBVIOUS
  <2> QED BY <2>1
<1> QED BY <1>1, <1>2, <1>3, <1>4 DEF Score, Policies

-----------------------------------------------------------------------------
\* A larger budget is more scenarios, and a full one is all of them.
LEMMA Rounding ==
  ASSUME NEW n \in Nat, NEW q \in 0..4
  PROVE  /\ RoundQuarters(n, q) \in Int
         /\ n * q - 2 <= 4 * RoundQuarters(n, q) /\ 4 * RoundQuarters(n, q) <= n * q + 2
<1>1. PICK m \in Nat : m = n * q OBVIOUS
<1>2. PICK w \in Int, r \in 0..3 : w = m \div 4 /\ r = m % 4 /\ m = 4 * w + r OBVIOUS
<1>3. RoundQuarters(n, q) = w + Yes(r > 2 \/ (r = 2 /\ w % 2 = 1)) BY <1>1, <1>2 DEF RoundQuarters
<1>4. CASE r > 2 \/ (r = 2 /\ w % 2 = 1)
  <2>1. RoundQuarters(n, q) = w + 1 BY <1>3, <1>4 DEF Yes
  <2> QED BY <1>1, <1>2, <1>4, <2>1
<1>5. CASE ~(r > 2 \/ (r = 2 /\ w % 2 = 1))
  <2>1. RoundQuarters(n, q) = w BY <1>3, <1>5 DEF Yes
  <2>2. r <= 2 BY <1>2, <1>5
  <2> QED BY <1>1, <1>2, <2>1, <2>2
<1> QED BY <1>4, <1>5

\* Rounding with halves to the even neighbour keeps the order of shares.
LEMMA RoundingGrows ==
  ASSUME NEW n \in Nat, NEW a \in 0..4, NEW b \in 0..4, a <= b
  PROVE  RoundQuarters(n, a) <= RoundQuarters(n, b)
<1>1. PICK x, y \in Int : x = RoundQuarters(n, a) /\ y = RoundQuarters(n, b) BY Rounding
<1>2. /\ 4 * x <= n * a + 2 /\ n * b - 2 <= 4 * y BY <1>1, Rounding
<1>3. CASE a = b BY <1>1, <1>3
<1>4. CASE a < b /\ n >= 4
  <2>1. n * b >= n * a + n
    <3>1. PICK d \in Nat : b = a + 1 + d
      <4>1. b - a - 1 \in Nat /\ b = a + 1 + (b - a - 1) BY <1>4
      <4> QED BY <4>1
    <3>2. n * (a + 1 + d) = n * a + n + n * d OBVIOUS
    <3>3. n * d >= 0 OBVIOUS
    <3>4. PICK e \in Nat : e = n * d OBVIOUS
    <3>5. n * b = n * a + n + e BY <3>1, <3>2, <3>4
    <3>6. PICK g \in Nat : g = n * a OBVIOUS
    <3> QED BY <3>5, <3>6
  <2>2. PICK g, h \in Nat : g = n * a /\ h = n * b OBVIOUS
  <2> QED BY <1>1, <1>2, <1>4, <2>1, <2>2
<1>5. CASE a < b /\ n < 4
  <2>1. n \in {0, 1, 2, 3} BY <1>5
  <2>2. a \in {0, 1, 2, 3, 4} /\ b \in {0, 1, 2, 3, 4} OBVIOUS
  <2>3. \A k \in {0, 1, 2, 3} : /\ RoundQuarters(k, 0) = 0 /\ RoundQuarters(k, 4) = k
    BY DEF RoundQuarters, Yes
  <2>4. /\ RoundQuarters(0, 1) = 0 /\ RoundQuarters(0, 2) = 0 /\ RoundQuarters(0, 3) = 0
        /\ RoundQuarters(1, 1) = 0 /\ RoundQuarters(1, 2) = 0 /\ RoundQuarters(1, 3) = 1
        /\ RoundQuarters(2, 1) = 0 /\ RoundQuarters(2, 2) = 1 /\ RoundQuarters(2, 3) = 2
        /\ RoundQuarters(3, 1) = 1 /\ RoundQuarters(3, 2) = 2 /\ RoundQuarters(3, 3) = 2
    BY DEF RoundQuarters, Yes
  <2> QED BY <1>1, <1>5, <2>1, <2>2, <2>3, <2>4
<1> QED BY <1>3, <1>4, <1>5

\* A greater share of the cases is no smaller budget; all of it is all cases.
LEMMA BudgetGrows ==
  ASSUME NEW n \in Nat, NEW a \in 0..4, NEW b \in 0..4
  PROVE  /\ Budget(n, a) \in Int
         /\ a <= b => Budget(n, a) <= Budget(n, b)
         /\ Budget(n, 4) >= n
<1>1. ASSUME NEW q \in 0..4
      PROVE  /\ RoundQuarters(n, q) \in Int
             /\ Budget(n, q) = IF q = 0 THEN 0
                               ELSE IF 1 >= RoundQuarters(n, q) THEN 1 ELSE RoundQuarters(n, q)
  <2>1. PICK x \in Int : x = RoundQuarters(n, q) BY Rounding
  <2>2. Max({1, x}) = IF 1 >= x THEN 1 ELSE x BY OfTwo
  <2> QED BY <2>1, <2>2, Zenon DEF Budget
<1>2. a <= b => RoundQuarters(n, a) <= RoundQuarters(n, b) BY RoundingGrows
<1>3. RoundQuarters(n, 4) >= n
  <2>1. PICK x \in Int : x = RoundQuarters(n, 4) BY <1>1
  <2>2. n * 4 - 2 <= 4 * x BY <2>1, Rounding
  <2> QED BY <2>1, <2>2
<1>4. PICK x, y, z \in Int : /\ x = RoundQuarters(n, a) /\ y = RoundQuarters(n, b)
                             /\ z = RoundQuarters(n, 4)
  BY <1>1
<1>5. /\ Budget(n, a) = IF a = 0 THEN 0 ELSE IF 1 >= x THEN 1 ELSE x
      /\ Budget(n, b) = IF b = 0 THEN 0 ELSE IF 1 >= y THEN 1 ELSE y
      /\ Budget(n, 4) = IF 1 >= z THEN 1 ELSE z
  BY <1>1, <1>4
<1> QED BY <1>2, <1>3, <1>4, <1>5

\* What a budget selects, a larger one does; and a full one selects all.
LEMMA SelectionGrows ==
  ASSUME NEW fs, Len(fs) \in Nat, DOMAIN fs = 1..Len(fs), NEW policy, NEW seed,
         NEW a \in 0..4, NEW b \in 0..4, a <= b
  PROVE  Selected(policy, seed, a, fs) \subseteq Selected(policy, seed, b, fs)
<1>1. Budget(Len(fs), a) \in Int /\ Budget(Len(fs), b) \in Int
      /\ Budget(Len(fs), a) <= Budget(Len(fs), b)
  BY BudgetGrows
<1>2. IsFiniteSet(DOMAIN fs) BY FS_Interval
<1>3. ASSUME NEW i \in Selected(policy, seed, a, fs) PROVE i \in Selected(policy, seed, b, fs)
  <2>1. PICK S : S = {j \in DOMAIN fs : Before(policy, seed, fs, j, i)} OBVIOUS
  <2>2. i \in DOMAIN fs /\ Cardinality(S) < Budget(Len(fs), a) BY <1>3, <2>1 DEF Selected
  <2>3. IsFiniteSet(S) BY <1>2, <2>1, FS_Subset
  <2>4. Cardinality(S) \in Nat BY <2>3, FS_CardinalityType
  <2>5. Cardinality(S) < Budget(Len(fs), b) BY <1>1, <2>2, <2>4
  <2> QED BY <2>1, <2>2, <2>5 DEF Selected
<1> QED BY <1>3

\* The full budget selects every case, whatever the policy.
LEMMA FullSelectsAll ==
  ASSUME NEW fs \in Seq(FeatureSet), NEW policy \in Policies, NEW seed,
         \A i \in DOMAIN fs : Rank(seed, i, policy) \in Int
  PROVE  Selected(policy, seed, 4, fs) = 1..Len(fs)
<1>1. PICK n \in Nat : n = Len(fs) OBVIOUS
<1>2. DOMAIN fs = 1..n BY <1>1
<1>3. IsFiniteSet(1..n) /\ Cardinality(1..n) = n
  <2>1. IsFiniteSet(1..n) BY FS_Interval
  <2>2. Cardinality(1..n) = IF 1 > n THEN 0 ELSE n - 1 + 1 BY FS_Interval
  <2> QED BY <2>1, <2>2
<1>4. ASSUME NEW i \in 1..n PROVE i \in Selected(policy, seed, 4, fs)
  <2>1. PICK S : S = {j \in DOMAIN fs : Before(policy, seed, fs, j, i)} OBVIOUS
  <2>2. i \notin S
    <3>1. PICK r \in Int : r = Rank(seed, i, policy) BY <1>2
    <3>2. PICK x \in Int : x = Score(policy, fs[i], r)
      <4>1. fs[i] \in FeatureSet BY <1>1
      <4> QED BY <4>1, ScoreTyped
    <3>3. Before(policy, seed, fs, i, i) <=> (x > x \/ (x = x /\ (r > r \/ (r = r /\ i < i))))
      BY <3>1, <3>2 DEF Before
    <3>4. ~Before(policy, seed, fs, i, i) BY <3>3
    <3> QED BY <2>1, <3>4
  <2>3. S \subseteq (1..n) \ {i} BY <1>2, <2>1, <2>2
  <2>4. IsFiniteSet((1..n) \ {i}) /\ Cardinality((1..n) \ {i}) = n - 1
    BY <1>3, FS_RemoveElement
  <2>5. IsFiniteSet(S) /\ Cardinality(S) <= n - 1
    <3>1. PICK T : T = (1..n) \ {i} OBVIOUS
    <3>2. IsFiniteSet(T) /\ Cardinality(T) = n - 1 /\ S \in SUBSET T BY <2>3, <2>4, <3>1
    <3>3. IsFiniteSet(S) /\ Cardinality(S) <= Cardinality(T) BY <3>2, FS_Subset
    <3> QED BY <3>2, <3>3
  <2>6. Cardinality(S) \in Nat BY <2>5, FS_CardinalityType
  <2>7. Budget(n, 4) \in Int /\ Budget(n, 4) >= n
    <3>1. 4 \in 0..4 OBVIOUS
    <3> QED BY <3>1, BudgetGrows
  <2>8. Cardinality(S) < Budget(n, 4) BY <2>5, <2>6, <2>7
  <2> QED BY <1>1, <1>2, <2>1, <2>8 DEF Selected
<1>5. Selected(policy, seed, 4, fs) \subseteq 1..n BY <1>2 DEF Selected
<1> QED BY <1>1, <1>4, <1>5
-----------------------------------------------------------------------------
(***************************************************************************)
(* Studies whose solves are reproducible.                                  *)
(***************************************************************************)

Det(s) ==
  \A i \in DOMAIN s.corpus :
    /\ Cardinality(Projections(s.corpus[i], s.primary, "primary")) = 1
    /\ Cardinality(Projections(s.corpus[i], s.shadow, "shadow")) = 1

\* The only solve of a scenario by each of the backends.
FirstSolve(s, i) == CHOOSE p \in Projections(s.corpus[i], s.primary, "primary") : TRUE
ShadowSolve(s, i) == CHOOSE q \in Projections(s.corpus[i], s.shadow, "shadow") : TRUE

\* What a full shadow detects.
FullSet(s) == {i \in DOMAIN s.corpus : Consequential(FirstSolve(s, i), ShadowSolve(s, i))}

\* What the last of the family among the first k touched.
Earlier(s, f, k) == {j \in 1..k : s.corpus[j].family = f}
LastTouched(s, f, k) == IF Earlier(s, f, k) = {} THEN <<>>
                        ELSE <<FirstSolve(s, Max(Earlier(s, f, k))).residuals.active>>

FeaturesOf(s) == [i \in 1..Len(s.corpus) |->
  Features(s.corpus[i], FirstSolve(s, i), LastTouched(s, s.corpus[i].family, i - 1))]

\* The corpus of a study and its seeds.
LEMMA StudyTyped ==
  ASSUME NEW s \in Studies
  PROVE  /\ Len(s.corpus) \in Nat \ {0} /\ DOMAIN s.corpus = 1..Len(s.corpus)
         /\ \A i \in 1..Len(s.corpus) : s.corpus[i] \in Scenarios
         /\ Len(s.seeds) \in Nat \ {0} /\ DOMAIN s.seeds = 1..Len(s.seeds)
         /\ Head(s.seeds) = s.seeds[1] /\ \A k \in 1..Len(s.seeds) : s.seeds[k] \in Int
         /\ \A k \in 1..Len(s.seeds), i \in 1..Len(s.corpus), policy \in Policies :
              Rank(s.seeds[k], i, policy) \in Int
<1>1. /\ s.corpus \in Seq(Scenarios) /\ s.corpus # <<>> /\ s.seeds \in Seq(Int) /\ s.seeds # <<>>
      /\ \A i \in DOMAIN s.corpus : \A k \in DOMAIN s.seeds, policy \in Policies :
           Rank(s.seeds[k], i, policy) \in Int
  BY StudyAssumption
<1>2. PICK c \in Seq(Scenarios) : c = s.corpus BY <1>1
<1>3. PICK d \in Seq(Int) : d = s.seeds BY <1>1
<1>4. /\ Len(c) \in Nat \ {0} /\ DOMAIN c = 1..Len(c)
      /\ \A i \in 1..Len(c) : c[i] \in Scenarios
  <2>1. c # <<>> BY <1>1, <1>2
  <2> QED BY <2>1, EmptySeq
<1>5. /\ Len(d) \in Nat \ {0} /\ DOMAIN d = 1..Len(d)
      /\ Head(d) = d[1] /\ \A k \in 1..Len(d) : d[k] \in Int
  <2>1. d # <<>> BY <1>1, <1>3
  <2> QED BY <2>1, EmptySeq
<1> QED BY <1>1, <1>2, <1>3, <1>4, <1>5

\* Where the backends are reproducible a scenario has one primary and one
\* shadow solve.
LEMMA OnlySolves ==
  ASSUME NEW s \in Studies, Det(s), NEW i \in 1..Len(s.corpus)
  PROVE  /\ \A p \in Projections(s.corpus[i], s.primary, "primary") : p = FirstSolve(s, i)
         /\ \A q \in Projections(s.corpus[i], s.shadow, "shadow") : q = ShadowSolve(s, i)
         /\ FirstSolve(s, i) \in Solves
<1>1. i \in DOMAIN s.corpus /\ s.corpus[i] \in Scenarios BY StudyTyped
<1>2. PICK P, Q : /\ P = Projections(s.corpus[i], s.primary, "primary")
                  /\ Q = Projections(s.corpus[i], s.shadow, "shadow")
  OBVIOUS
<1>3. IsFiniteSet(P) /\ IsFiniteSet(Q) BY <1>1, <1>2, ProjectionsFinite
<1>4. Cardinality(P) = 1 /\ Cardinality(Q) = 1 BY <1>1, <1>2 DEF Det
<1>5. PICK p : P = {p} BY <1>3, <1>4, FS_Singleton
<1>6. PICK q : Q = {q} BY <1>3, <1>4, FS_Singleton
<1>7. FirstSolve(s, i) = p /\ ShadowSolve(s, i) = q BY <1>2, <1>5, <1>6 DEF FirstSolve, ShadowSolve
<1>8. p \in Solves BY <1>1, <1>2, <1>5, ProjectionTyped
<1> QED BY <1>2, <1>5, <1>6, <1>7, <1>8

\* One scenario more is the last of its family, and of no other.
LEMMA LastTouchedMoves ==
  ASSUME NEW s, NEW f, NEW k \in Nat
  PROVE  /\ LastTouched(s, f, 0) = <<>>
         /\ LastTouched(s, f, k + 1) =
              IF s.corpus[k + 1].family = f THEN <<FirstSolve(s, k + 1).residuals.active>>
              ELSE LastTouched(s, f, k)
<1>1. LastTouched(s, f, 0) = <<>>
  <2>1. Earlier(s, f, 0) = {} BY DEF Earlier
  <2> QED BY <2>1 DEF LastTouched
<1>2. CASE s.corpus[k + 1].family = f
  <2>1. PICK S : S = Earlier(s, f, k + 1) OBVIOUS
  <2>2. S \in SUBSET Int /\ k + 1 \in S /\ \A x \in S : x <= k + 1
    BY <1>2, <2>1 DEF Earlier
  <2>3. k + 1 \in Int OBVIOUS
  <2>4. Max(S) \in S /\ \A y \in S : Max(S) >= y BY <2>2, <2>3, HasGreatest
  <2>5. Max(S) = k + 1
    <3>1. PICK m \in Int : m = Max(S) BY <2>2, <2>4
    <3>2. m <= k + 1 /\ m >= k + 1 BY <2>2, <2>4, <3>1
    <3> QED BY <3>1, <3>2
  <2>6. S # {} BY <2>2
  <2> QED BY <1>2, <1>1, <2>1, <2>5, <2>6 DEF LastTouched
<1>3. CASE s.corpus[k + 1].family # f
  <2>1. Earlier(s, f, k + 1) = Earlier(s, f, k)
    <3>1. \A j \in 1..(k + 1) : j = k + 1 \/ j \in 1..k OBVIOUS
    <3>2. \A j \in 1..k : j \in 1..(k + 1) OBVIOUS
    <3> QED BY <1>3, <3>1, <3>2 DEF Earlier
  <2> QED BY <1>1, <1>3, <2>1 DEF LastTouched
<1> QED BY <1>1, <1>2, <1>3

\* The features of a reproducible study are one per scenario.
LEMMA FeaturesOfTyped ==
  ASSUME NEW s \in Studies, Det(s)
  PROVE  /\ FeaturesOf(s) \in Seq(FeatureSet) /\ Len(FeaturesOf(s)) = Len(s.corpus)
         /\ DOMAIN FeaturesOf(s) = 1..Len(s.corpus)
<1>1. PICK n \in Nat : n = Len(s.corpus) BY StudyTyped
<1>2. ASSUME NEW i \in 1..n PROVE FeaturesOf(s)[i] \in FeatureSet
  <2>1. FeaturesOf(s)[i] = Features(s.corpus[i], FirstSolve(s, i),
                                    LastTouched(s, s.corpus[i].family, i - 1))
    BY <1>1, <1>2 DEF FeaturesOf
  <2>2. LastTouched(s, s.corpus[i].family, i - 1) \in TouchedBefore
    <3>1. PICK S : S = Earlier(s, s.corpus[i].family, i - 1) OBVIOUS
    <3>2. S \in SUBSET Int /\ S \subseteq 1..n /\ \A x \in S : x <= n
      BY <1>1, <3>1 DEF Earlier
    <3>3. CASE S = {} BY <3>1, <3>3 DEF LastTouched, TouchedBefore
    <3>4. CASE S # {}
      <4>1. Max(S) \in 1..n
        <5>1. n \in Int OBVIOUS
        <5>2. Max(S) \in S BY <3>2, <3>4, <5>1, HasGreatest
        <5> QED BY <3>2, <5>2
      <4>2. FirstSolve(s, Max(S)) \in Solves BY <1>1, <4>1, OnlySolves
      <4>3. FirstSolve(s, Max(S)).residuals.active \in SUBSET Touched BY <4>2 DEF Solves
      <4> QED BY <3>1, <3>4, <4>3 DEF LastTouched, TouchedBefore
    <3> QED BY <3>3, <3>4
  <2>3. FirstSolve(s, i) \in Solves /\ s.corpus[i] \in Scenarios BY <1>1, OnlySolves, StudyTyped
  <2> QED BY <2>1, <2>2, <2>3, FeaturesTyped
<1>3. /\ DOMAIN FeaturesOf(s) = 1..n
      /\ FeaturesOf(s) = [i \in 1..n |-> FeaturesOf(s)[i]]
  BY <1>1 DEF FeaturesOf
<1>4. PICK g : g = FeaturesOf(s) OBVIOUS
<1>5. g = [i \in 1..n |-> g[i]] /\ \A i \in 1..n : g[i] \in FeatureSet BY <1>2, <1>3, <1>4
<1>6. g \in [1..n -> FeatureSet] BY <1>5
<1>7. g \in Seq(FeatureSet) BY <1>6, SeqDef
<1>8. Len(g) = n
  <2>1. Len(g) \in Nat /\ DOMAIN g = 1..Len(g) BY <1>7
  <2> QED BY <1>6, <2>1
<1> QED BY <1>1, <1>3, <1>4, <1>7, <1>8
-----------------------------------------------------------------------------
(***************************************************************************)
(* The invariant of the studies.                                           *)
(***************************************************************************)

LabelNames == {"timeout_asymmetry", "active_set_mismatch", "residual_dominance",
               "action_diff_large", "compound", "status_only", "objective_gap",
               "action_diff_small", "failure_asymmetry"}

CaseSet == [shadowed : BOOLEAN, raw : Words \cup {"skipped_by_sampling"},
            consequential : BOOLEAN, differ : BOOLEAN, labels : SUBSET LabelNames]

Harnesses(s) ==
  [policy : Policies, quarters : 0..4, seed : Int, primaries : Seq(Solves),
   features : Seq(FeatureSet), selected : SUBSET (1..Len(s.corpus)), cases : Seq(CaseSet),
   actives : [Families(s.corpus) -> TouchedBefore]]

RunSet(s) == [selected : SUBSET (1..Len(s.corpus)), detected : SUBSET (1..Len(s.corpus))]

Results(s) ==
  [policy : Policies, quarters : 0..4, estimable : BOOLEAN, selected : SUBSET Nat,
   shadowed : Int, hits : Int, skips : Int, missed : SUBSET Nat,
   families : SUBSET Families(s.corpus)]

\* What the harness of the k-th seed selects.
Chosen(s, policy, quarters, k) == Selected(policy, s.seeds[k], quarters, FeaturesOf(s))

\* The harness h of the k-th seed, as far as it is in stage st.
HarnessFits(s, st, h, k) ==
  /\ h \in Harnesses(s) /\ h.seed = s.seeds[k]
  /\ Len(h.features) = Len(h.primaries)
  /\ IF st = "primary" THEN Len(h.primaries) < Len(s.corpus) ELSE Len(h.primaries) = Len(s.corpus)
  /\ st \in {"primary", "select"} => h.cases = <<>>
  /\ st = "shadow" => Len(h.cases) < Len(s.corpus)
  /\ st = "over" => Len(h.cases) = Len(s.corpus)
  /\ st \in {"shadow", "over"} =>
       h.selected = Selected(h.policy, h.seed, h.quarters, h.features)
  /\ \A i \in 1..Len(h.cases) : h.cases[i].differ => h.cases[i].consequential

\* What a harness holds where the solves are reproducible.
HarnessSolves(s, h) ==
  /\ \A i \in 1..Len(h.primaries) :
       h.primaries[i] = FirstSolve(s, i) /\ h.features[i] = FeaturesOf(s)[i]
  /\ \A f \in Families(s.corpus) : h.actives[f] = LastTouched(s, f, Len(h.primaries))
  /\ \A i \in 1..Len(h.cases) : h.cases[i].consequential <=> i \in h.selected \cap FullSet(s)

\* What the k-th seed of a cell selected and detected.
RunFits(s, h, r, k) ==
  Det(s) => /\ r.selected = Chosen(s, h.policy, h.quarters, k)
            /\ r.detected = r.selected \cap FullSet(s)

\* A cell over the baseline.
ResultFits(s, base, c) ==
  /\ c.hits + c.skips = Cardinality(base) * Len(s.seeds)
  /\ Det(s) =>
       /\ c.selected = UNION {Chosen(s, c.policy, c.quarters, k) : k \in 1..Len(s.seeds)}
       /\ c.missed = FullSet(s) \ c.selected
       /\ c.hits = SumFunction([k \in 1..Len(s.seeds) |->
            Cardinality(FullSet(s) \cap Chosen(s, c.policy, c.quarters, k))])
       /\ c.skips = SumFunction([k \in 1..Len(s.seeds) |->
            Cardinality(FullSet(s) \ Chosen(s, c.policy, c.quarters, k))])

Working == stage \in {"primary", "select", "shadow", "over"}

StudyInv ==
  /\ stage \in {"none", "primary", "select", "shadow", "over", "judge", "done"}
  /\ stage = "none" => full = {} /\ seen = <<>> /\ cells = <<>> /\ report = <<>>
  /\ stage # "none" =>
       /\ study \in Studies /\ full \subseteq 1..Len(study.corpus)
       /\ cells \in Seq(Results(study)) /\ seen \in Seq(RunSet(study))
       /\ \A n \in 1..Len(cells) : ResultFits(study, full, cells[n])
  /\ Working =>
       /\ Len(seen) < Len(study.seeds)
       /\ HarnessFits(study, stage, harness, Len(seen) + 1)
       /\ Det(study) => HarnessSolves(study, harness)
       /\ \A k \in 1..Len(seen) : RunFits(study, harness, seen[k], k)
       /\ IF report = <<>> THEN seen = <<>> /\ harness.policy = "random" /\ harness.quarters = 4
          ELSE study.program = "study"
  /\ stage = "judge" => report # <<>> /\ study.program = "study"
  /\ cells # <<>> => report # <<>> /\ study.program = "study"
  /\ report # <<>> =>
       /\ {"negative", "affected"} \subseteq DOMAIN report
       /\ report.negative \cap report.affected = {}
       /\ study.program = "study" /\ Det(study) => full = FullSet(study)

\* A record of the parts of a harness is a harness.
LEMMA HarnessTyped ==
  ASSUME NEW s, NEW policy \in Policies, NEW q \in 0..4, NEW seed \in Int,
         NEW ps \in Seq(Solves), NEW fs \in Seq(FeatureSet),
         NEW e \in SUBSET (1..Len(s.corpus)), NEW cs \in Seq(CaseSet),
         NEW act \in [Families(s.corpus) -> TouchedBefore]
  PROVE  [policy |-> policy, quarters |-> q, seed |-> seed, primaries |-> ps, features |-> fs,
          selected |-> e, cases |-> cs, actives |-> act] \in Harnesses(s)
BY Zenon DEF Harnesses

\* A harness begins with nothing solved (the locals of run_shadow_harness).
LEMMA HarnessBegins ==
  ASSUME NEW s \in Studies, NEW policy \in Policies, NEW q \in 0..4, NEW k \in 1..Len(s.seeds)
  PROVE  /\ HarnessFits(s, "primary", HarnessOf(s, policy, q, s.seeds[k]), k)
         /\ HarnessSolves(s, HarnessOf(s, policy, q, s.seeds[k]))
         /\ HarnessOf(s, policy, q, s.seeds[k]).policy = policy
         /\ HarnessOf(s, policy, q, s.seeds[k]).quarters = q
<1>1. PICK h : h = HarnessOf(s, policy, q, s.seeds[k]) OBVIOUS
<1>2. /\ h.policy = policy /\ h.quarters = q /\ h.seed = s.seeds[k]
      /\ h.primaries = <<>> /\ h.features = <<>> /\ h.selected = {} /\ h.cases = <<>>
      /\ h.actives = [f \in Families(s.corpus) |-> <<>>]
  BY <1>1 DEF HarnessOf
<1>3. h \in Harnesses(s)
  <2>1. <<>> \in TouchedBefore BY DEF TouchedBefore
  <2>2. h.actives \in [Families(s.corpus) -> TouchedBefore] BY <1>2, <2>1
  <2>3. s.seeds[k] \in Int BY StudyTyped
  <2>4. h = [policy |-> policy, quarters |-> q, seed |-> s.seeds[k], primaries |-> <<>>,
             features |-> <<>>, selected |-> {}, cases |-> <<>>, actives |-> h.actives]
    BY <1>1, <1>2 DEF HarnessOf
  <2>5. <<>> \in Seq(Solves) /\ <<>> \in Seq(FeatureSet) /\ <<>> \in Seq(CaseSet) BY EmptySeq
  <2>6. PICK e, act : e = <<>> /\ act = h.actives OBVIOUS
  <2>7. h = [policy |-> policy, quarters |-> q, seed |-> s.seeds[k], primaries |-> e,
             features |-> e, selected |-> {}, cases |-> e, actives |-> act]
    BY <2>4, <2>6
  <2>8. e \in Seq(Solves) /\ e \in Seq(FeatureSet) /\ e \in Seq(CaseSet) BY <2>5, <2>6
  <2>9. act \in [Families(s.corpus) -> TouchedBefore] BY <2>2, <2>6
  <2> QED BY <2>3, <2>7, <2>8, <2>9 DEF Harnesses
<1>4. Len(h.primaries) = 0 /\ Len(h.features) = 0 /\ Len(h.cases) = 0 BY <1>2, EmptySeq
<1>5. HarnessFits(s, "primary", h, k)
  BY <1>2, <1>3, <1>4, StudyTyped DEF HarnessFits
<1>6. HarnessSolves(s, h)
  <2>1. \A f \in Families(s.corpus) : h.actives[f] = LastTouched(s, f, 0)
    BY <1>2, LastTouchedMoves
  <2> QED BY <1>4, <2>1 DEF HarnessSolves
<1> QED BY <1>1, <1>2, <1>5, <1>6

\* The harness h with the solve p of the next scenario.
WithSolve(s, h, p) ==
  [h EXCEPT !.primaries = Append(@, p),
     !.features = Append(@, Features(s.corpus[Len(h.primaries) + 1], p,
                    h.actives[s.corpus[Len(h.primaries) + 1].family])),
     !.actives = [@ EXCEPT ![s.corpus[Len(h.primaries) + 1].family] = <<p.residuals.active>>]]

\* The features of a solve, and what its family touched last, are those of the
\* study where the solves are reproducible (the first pass).
LEMMA PrimaryFits ==
  ASSUME NEW s \in Studies, NEW h, NEW k, HarnessFits(s, "primary", h, k),
         NEW p \in Projections(s.corpus[Len(h.primaries) + 1], s.primary, "primary"),
         NEW g, g = WithSolve(s, h, p)
  PROVE  /\ HarnessFits(s, IF Len(h.primaries) + 1 = Len(s.corpus) THEN "select" ELSE "primary", g, k)
         /\ g.policy = h.policy /\ g.quarters = h.quarters
         /\ Det(s) /\ HarnessSolves(s, h) => HarnessSolves(s, g)
<1>1. PICK n \in Nat : n = Len(s.corpus) BY StudyTyped
<1>2. /\ h \in Harnesses(s) /\ h.seed = s.seeds[k] /\ Len(h.features) = Len(h.primaries)
      /\ Len(h.primaries) < n /\ h.cases = <<>>
  BY <1>1 DEF HarnessFits
<1>3. PICK ps \in Seq(Solves), fs \in Seq(FeatureSet), act \in [Families(s.corpus) -> TouchedBefore] :
        ps = h.primaries /\ fs = h.features /\ act = h.actives
  BY <1>2 DEF Harnesses
<1>4. PICK m \in Nat : m = Len(ps) OBVIOUS
<1>5. PICK c : c = s.corpus[m + 1] OBVIOUS
<1>6. PICK f : f = Features(c, p, act[c.family]) OBVIOUS
<1>7. Len(fs) = m /\ m < n /\ m + 1 \in 1..n BY <1>2, <1>3, <1>4
<1>8. c \in Scenarios /\ c.family \in Families(s.corpus)
  <2>1. m + 1 \in DOMAIN s.corpus BY <1>1, <1>7, StudyTyped
  <2> QED BY <1>1, <1>5, <1>7, <2>1, StudyTyped DEF Families
<1>9. p \in Projections(c, s.primary, "primary") BY <1>3, <1>4, <1>5
<1>10. p \in Solves BY <1>8, <1>9, ProjectionTyped
<1>11. f \in FeatureSet
  <2>1. act[c.family] \in TouchedBefore BY <1>8
  <2> QED BY <1>6, <1>8, <1>10, <2>1, FeaturesTyped
<1>12. g = [h EXCEPT !.primaries = Append(ps, p), !.features = Append(fs, f),
                     !.actives = [act EXCEPT ![c.family] = <<p.residuals.active>>]]
  BY <1>3, <1>4, <1>5, <1>6 DEF WithSolve
<1>13. /\ g.policy = h.policy /\ g.quarters = h.quarters /\ g.seed = h.seed
       /\ g.selected = h.selected /\ g.cases = h.cases
       /\ g.primaries = Append(ps, p) /\ g.features = Append(fs, f)
       /\ g.actives = [act EXCEPT ![c.family] = <<p.residuals.active>>]
  BY <1>2, <1>12 DEF Harnesses
<1>14. /\ g.primaries \in Seq(Solves) /\ Len(g.primaries) = m + 1
       /\ \A i \in 1..m : g.primaries[i] = ps[i]
       /\ g.primaries[m + 1] = p
       /\ g.features \in Seq(FeatureSet) /\ Len(g.features) = m + 1
       /\ \A i \in 1..m : g.features[i] = fs[i]
       /\ g.features[m + 1] = f
  <2>1. PICK a, b : a = Append(ps, p) /\ b = Append(fs, f) OBVIOUS
  <2>2. /\ a \in Seq(Solves) /\ Len(a) = m + 1 /\ a[m + 1] = p
        /\ \A i \in 1..m : a[i] = ps[i]
    BY <1>4, <1>10, <2>1, AppendProperties
  <2>3. /\ b \in Seq(FeatureSet) /\ Len(b) = m + 1 /\ b[m + 1] = f
        /\ \A i \in 1..m : b[i] = fs[i]
    BY <1>7, <1>11, <2>1, AppendProperties
  <2>4. g.primaries = a /\ g.features = b BY <1>13, <2>1
  <2> QED BY <2>2, <2>3, <2>4
<1>15. g.actives \in [Families(s.corpus) -> TouchedBefore]
  <2>1. p.residuals.active \in SUBSET Touched BY <1>10 DEF Solves
  <2>2. <<p.residuals.active>> \in TouchedBefore BY <2>1 DEF TouchedBefore
  <2> QED BY <1>13, <2>2
<1>16. g \in Harnesses(s)
  <2>1. g = [policy |-> h.policy, quarters |-> h.quarters, seed |-> h.seed,
             primaries |-> g.primaries, features |-> g.features, selected |-> h.selected,
             cases |-> h.cases, actives |-> g.actives]
    BY <1>2, <1>12, <1>13 DEF Harnesses
  <2> QED BY <1>2, <1>14, <1>15, <2>1 DEF Harnesses
<1>17. HarnessFits(s, IF m + 1 = n THEN "select" ELSE "primary", g, k)
  <2>1. g.cases = <<>> /\ Len(g.cases) = 0 BY <1>2, <1>13, EmptySeq
  <2>2. g.seed = s.seeds[k] BY <1>2, <1>13
  <2>3. CASE m + 1 = n BY <1>1, <1>14, <1>16, <2>1, <2>2, <2>3 DEF HarnessFits
  <2>4. CASE m + 1 # n
    <3>1. m + 1 < n BY <1>7, <2>4
    <3>2. Len(g.primaries) < Len(s.corpus) /\ Len(g.features) = Len(g.primaries)
      BY <1>1, <1>14, <3>1
    <3>3. \A i \in 1..Len(g.cases) : FALSE BY <2>1
    <3> QED BY <1>16, <2>1, <2>2, <2>4, <3>2, <3>3 DEF HarnessFits
  <2> QED BY <2>3, <2>4
<1>18. ASSUME Det(s), HarnessSolves(s, h) PROVE HarnessSolves(s, g)
  <2>1. /\ \A i \in 1..m : ps[i] = FirstSolve(s, i) /\ fs[i] = FeaturesOf(s)[i]
        /\ \A d \in Families(s.corpus) : act[d] = LastTouched(s, d, m)
    BY <1>3, <1>4, <1>18 DEF HarnessSolves
  <2>2. p = FirstSolve(s, m + 1)
    BY <1>1, <1>5, <1>7, <1>9, <1>18, OnlySolves
  <2>3. f = FeaturesOf(s)[m + 1]
    <3>1. FeaturesOf(s)[m + 1] = Features(s.corpus[m + 1], FirstSolve(s, m + 1),
                                          LastTouched(s, s.corpus[m + 1].family, m + 1 - 1))
      BY <1>1, <1>7 DEF FeaturesOf
    <3>2. m + 1 - 1 = m OBVIOUS
    <3>3. act[c.family] = LastTouched(s, c.family, m) BY <1>8, <2>1
    <3> QED BY <1>5, <1>6, <2>2, <3>1, <3>2, <3>3
  <2>4. ASSUME NEW i \in 1..(m + 1)
        PROVE  g.primaries[i] = FirstSolve(s, i) /\ g.features[i] = FeaturesOf(s)[i]
    <3>1. CASE i = m + 1 BY <1>14, <2>2, <2>3, <3>1
    <3>2. CASE i # m + 1
      <4>1. i \in 1..m BY <2>4, <3>2
      <4>2. g.primaries[i] = ps[i] /\ g.features[i] = fs[i] BY <1>14, <4>1
      <4> QED BY <2>1, <4>1, <4>2
    <3> QED BY <3>1, <3>2
  <2>5. ASSUME NEW d \in Families(s.corpus) PROVE g.actives[d] = LastTouched(s, d, m + 1)
    <3>1. PICK t : t = <<p.residuals.active>> OBVIOUS
    <3>2. g.actives[d] = IF d = c.family THEN t ELSE act[d]
      <4>1. PICK F : F = Families(s.corpus) OBVIOUS
      <4>2. act \in [F -> TouchedBefore] /\ d \in F BY <2>5, <4>1
      <4>3. PICK a : a = [act EXCEPT ![c.family] = t] OBVIOUS
      <4>4. a[d] = IF d = c.family THEN t ELSE act[d] BY <4>2, <4>3
      <4>5. g.actives = a BY <1>13, <3>1, <4>3
      <4> QED BY <4>4, <4>5
    <3>3. LastTouched(s, d, m + 1) = IF c.family = d THEN t ELSE LastTouched(s, d, m)
      BY <1>5, <2>2, <3>1, LastTouchedMoves
    <3> QED BY <2>1, <3>2, <3>3
  <2>6. Len(g.cases) = 0 BY <1>2, <1>13, EmptySeq
  <2>7. \A i \in 1..Len(g.cases) : FALSE BY <2>6
  <2>8. Len(g.primaries) = m + 1 BY <1>14
  <2> QED BY <2>4, <2>5, <2>7, <2>8 DEF HarnessSolves
<1> QED BY <1>1, <1>3, <1>4, <1>13, <1>17, <1>18

\* What is selected is in the corpus, and nothing is solved again yet
\* (select_for_shadow_detailed).
LEMMA SelectFits ==
  ASSUME NEW s \in Studies, NEW h, NEW k, HarnessFits(s, "select", h, k),
         NEW g, g = [h EXCEPT !.selected = Selected(h.policy, h.seed, h.quarters, h.features)]
  PROVE  /\ HarnessFits(s, "shadow", g, k)
         /\ g.policy = h.policy /\ g.quarters = h.quarters
         /\ HarnessSolves(s, h) => HarnessSolves(s, g)
<1>1. PICK n \in Nat \ {0} : n = Len(s.corpus) BY StudyTyped
<1>2. /\ h \in Harnesses(s) /\ h.seed = s.seeds[k] /\ Len(h.features) = Len(h.primaries)
      /\ Len(h.primaries) = n /\ h.cases = <<>>
  BY <1>1 DEF HarnessFits
<1>3. PICK e : e = Selected(h.policy, h.seed, h.quarters, h.features) OBVIOUS
<1>4. /\ g.policy = h.policy /\ g.quarters = h.quarters /\ g.seed = h.seed
      /\ g.selected = e /\ g.cases = h.cases /\ g.primaries = h.primaries
      /\ g.features = h.features /\ g.actives = h.actives
  BY <1>2, <1>3 DEF Harnesses
<1>5. e \in SUBSET (1..n)
  <2>1. h.features \in Seq(FeatureSet) BY <1>2 DEF Harnesses
  <2>2. DOMAIN h.features = 1..n BY <1>2, <2>1
  <2> QED BY <1>3, <2>2 DEF Selected
<1>6. g \in Harnesses(s)
  <2>1. g = [policy |-> h.policy, quarters |-> h.quarters, seed |-> h.seed,
             primaries |-> h.primaries, features |-> h.features, selected |-> e,
             cases |-> h.cases, actives |-> h.actives]
    BY <1>2, <1>3 DEF Harnesses
  <2>2. PICK ps, fs, cs, act :
          ps = h.primaries /\ fs = h.features /\ cs = h.cases /\ act = h.actives
    OBVIOUS
  <2>3. /\ h.policy \in Policies /\ h.quarters \in 0..4 /\ h.seed \in Int
        /\ ps \in Seq(Solves) /\ fs \in Seq(FeatureSet) /\ cs \in Seq(CaseSet)
        /\ act \in [Families(s.corpus) -> TouchedBefore]
    BY <1>2, <2>2 DEF Harnesses
  <2>4. e \in SUBSET (1..Len(s.corpus)) BY <1>1, <1>5
  <2>5. g = [policy |-> h.policy, quarters |-> h.quarters, seed |-> h.seed, primaries |-> ps,
             features |-> fs, selected |-> e, cases |-> cs, actives |-> act]
    BY <2>1, <2>2
  <2>6. [policy |-> h.policy, quarters |-> h.quarters, seed |-> h.seed, primaries |-> ps,
         features |-> fs, selected |-> e, cases |-> cs, actives |-> act] \in Harnesses(s)
    BY <2>3, <2>4, HarnessTyped, Zenon
  <2> QED BY <2>5, <2>6, Zenon
<1>7. Len(g.cases) = 0 BY <1>2, <1>4, EmptySeq
<1>8. /\ Len(g.cases) < Len(s.corpus) /\ \A i \in 1..Len(g.cases) : FALSE
      /\ Len(g.features) = Len(g.primaries) /\ Len(g.primaries) = Len(s.corpus)
      /\ g.seed = s.seeds[k]
  BY <1>1, <1>2, <1>4, <1>7
<1>9. g.selected = Selected(g.policy, g.seed, g.quarters, g.features) BY <1>3, <1>4
<1>10. HarnessFits(s, "shadow", g, k) BY <1>6, <1>8, <1>9 DEF HarnessFits
<1>11. HarnessSolves(s, h) => HarnessSolves(s, g) BY <1>4, <1>8 DEF HarnessSolves
<1> QED BY <1>4, <1>10, <1>11

\* A case: where the statuses differ it is consequential, and where the solves
\* are reproducible it is so where it was selected and a full shadow finds it
\* (compare_projections, is_consequential).
LEMMA CasesTyped ==
  ASSUME study \in Studies, NEW k, HarnessFits(study, "shadow", harness, k),
         NEW i \in 1..Len(study.corpus), NEW c \in CasesOf(i)
  PROVE  /\ c \in CaseSet /\ (c.differ => c.consequential)
         /\ Det(study) /\ HarnessSolves(study, harness) =>
              (c.consequential <=> i \in harness.selected \cap FullSet(study))
<1>1. PICK p : p = harness.primaries[i] OBVIOUS
<1>2. CASE i \in harness.selected
  <2>1. PICK q \in Projections(study.corpus[i], study.shadow, "shadow") :
          c = [shadowed |-> TRUE, raw |-> q.raw, consequential |-> Consequential(p, q),
               differ |-> StatusesDiffer(p, q), labels |-> Labels(p, q)]
    BY <1>1, <1>2 DEF CasesOf
  <2>2. q.raw \in Words
    <3>1. study.corpus[i] \in Scenarios BY StudyTyped
    <3>2. q \in Solves BY <2>1, <3>1, ProjectionTyped
    <3> QED BY <3>2 DEF Solves
  <2>3. PICK a, b, l : a = Consequential(p, q) /\ b = StatusesDiffer(p, q) /\ l = Labels(p, q)
    OBVIOUS
  <2>4. a \in BOOLEAN /\ (b => a) BY <2>3 DEF Consequential
  <2>5. b \in BOOLEAN BY <2>3 DEF StatusesDiffer
  <2>6. l \in SUBSET LabelNames BY <2>3 DEF Labels, Material, LabelNames
  <2>7. c = [shadowed |-> TRUE, raw |-> q.raw, consequential |-> a, differ |-> b, labels |-> l]
    BY <2>1, <2>3, Zenon
  <2>8. c \in CaseSet BY <2>2, <2>4, <2>5, <2>6, <2>7 DEF CaseSet
  <2>9. c.consequential = a /\ c.differ = b BY <2>7
  <2>10. ASSUME Det(study), HarnessSolves(study, harness)
         PROVE  a <=> i \in FullSet(study)
    <3>1. p = FirstSolve(study, i)
      <4>1. Len(harness.primaries) = Len(study.corpus) BY DEF HarnessFits
      <4> QED BY <1>1, <2>10, <4>1 DEF HarnessSolves
    <3>2. q = ShadowSolve(study, i) BY <2>1, <2>10, OnlySolves
    <3>3. i \in DOMAIN study.corpus BY StudyTyped
    <3> QED BY <2>3, <3>1, <3>2, <3>3, Zenon DEF FullSet
  <2> QED BY <1>2, <2>4, <2>8, <2>9, <2>10
<1>3. CASE i \notin harness.selected
  <2>1. c = Skipped BY <1>3 DEF CasesOf
  <2>2. c \in CaseSet BY <2>1 DEF CaseSet, Skipped
  <2>3. c.consequential = FALSE /\ c.differ = FALSE BY <2>1 DEF Skipped
  <2> QED BY <1>3, <2>2, <2>3
<1> QED BY <1>2, <1>3

\* The second pass.
LEMMA ShadowFits ==
  ASSUME study \in Studies, NEW k, HarnessFits(study, "shadow", harness, k),
         NEW c \in CasesOf(Len(harness.cases) + 1),
         NEW g, g = [harness EXCEPT !.cases = Append(@, c)]
  PROVE  /\ HarnessFits(study, IF Len(harness.cases) + 1 = Len(study.corpus)
                               THEN "over" ELSE "shadow", g, k)
         /\ g.policy = harness.policy /\ g.quarters = harness.quarters
         /\ Det(study) /\ HarnessSolves(study, harness) => HarnessSolves(study, g)
<1>1. PICK n \in Nat \ {0} : n = Len(study.corpus) BY StudyTyped
<1>2. /\ harness \in Harnesses(study) /\ harness.seed = study.seeds[k]
      /\ Len(harness.features) = Len(harness.primaries) /\ Len(harness.primaries) = n
      /\ Len(harness.cases) < n
      /\ harness.selected = Selected(harness.policy, harness.seed, harness.quarters, harness.features)
      /\ \A i \in 1..Len(harness.cases) : harness.cases[i].differ => harness.cases[i].consequential
  BY <1>1 DEF HarnessFits
<1>3. PICK cs \in Seq(CaseSet) : cs = harness.cases BY <1>2 DEF Harnesses
<1>4. PICK m \in Nat : m = Len(cs) OBVIOUS
<1>5. m < n /\ m + 1 \in 1..n BY <1>2, <1>3, <1>4
<1>6. /\ c \in CaseSet /\ (c.differ => c.consequential)
      /\ Det(study) /\ HarnessSolves(study, harness) =>
           (c.consequential <=> m + 1 \in harness.selected \cap FullSet(study))
  BY <1>1, <1>3, <1>4, <1>5, CasesTyped
<1>7. PICK a : a = Append(cs, c) OBVIOUS
<1>8. a \in Seq(CaseSet) /\ Len(a) = m + 1 /\ a[m + 1] = c /\ \A i \in 1..m : a[i] = cs[i]
  BY <1>4, <1>6, <1>7, AppendProperties
<1>9. /\ g.policy = harness.policy /\ g.quarters = harness.quarters /\ g.seed = harness.seed
      /\ g.selected = harness.selected /\ g.cases = a /\ g.primaries = harness.primaries
      /\ g.features = harness.features /\ g.actives = harness.actives
  BY <1>2, <1>3, <1>7 DEF Harnesses
<1>10. g \in Harnesses(study)
  <2>1. g = [policy |-> harness.policy, quarters |-> harness.quarters, seed |-> harness.seed,
             primaries |-> harness.primaries, features |-> harness.features,
             selected |-> harness.selected, cases |-> a, actives |-> harness.actives]
    BY <1>2, <1>3, <1>7 DEF Harnesses
  <2>2. PICK ps, fs, e, act : /\ ps = harness.primaries /\ fs = harness.features
                              /\ e = harness.selected /\ act = harness.actives
    OBVIOUS
  <2>3. /\ harness.policy \in Policies /\ harness.quarters \in 0..4 /\ harness.seed \in Int
        /\ ps \in Seq(Solves) /\ fs \in Seq(FeatureSet)
        /\ e \in SUBSET (1..Len(study.corpus))
        /\ act \in [Families(study.corpus) -> TouchedBefore]
    BY <1>2, <2>2 DEF Harnesses
  <2>4. g = [policy |-> harness.policy, quarters |-> harness.quarters, seed |-> harness.seed,
             primaries |-> ps, features |-> fs, selected |-> e, cases |-> a, actives |-> act]
    BY <2>1, <2>2
  <2>5. [policy |-> harness.policy, quarters |-> harness.quarters, seed |-> harness.seed,
         primaries |-> ps, features |-> fs, selected |-> e, cases |-> a, actives |-> act]
           \in Harnesses(study)
    BY <1>8, <2>3, HarnessTyped, Zenon
  <2> QED BY <2>4, <2>5, Zenon
<1>11. ASSUME NEW i \in 1..(m + 1) PROVE i = m + 1 \/ i \in 1..m
  BY <1>11
<1>12. \A i \in 1..(m + 1) : a[i].differ => a[i].consequential
  <2>1. \A i \in 1..m : a[i].differ => a[i].consequential BY <1>2, <1>3, <1>4, <1>8
  <2>2. a[m + 1].differ => a[m + 1].consequential BY <1>6, <1>8
  <2> QED BY <1>11, <2>1, <2>2
<1>13. HarnessFits(study, IF m + 1 = n THEN "over" ELSE "shadow", g, k)
  <2>1. /\ Len(g.features) = Len(g.primaries) /\ Len(g.primaries) = Len(study.corpus)
        /\ Len(g.cases) = m + 1 /\ g.seed = study.seeds[k]
        /\ g.selected = Selected(g.policy, g.seed, g.quarters, g.features)
        /\ \A i \in 1..Len(g.cases) : g.cases[i].differ => g.cases[i].consequential
    BY <1>1, <1>2, <1>8, <1>9, <1>12
  <2>2. CASE m + 1 = n BY <1>1, <1>10, <2>1, <2>2 DEF HarnessFits
  <2>3. CASE m + 1 # n
    <3>1. Len(g.cases) < Len(study.corpus) BY <1>1, <1>5, <2>1, <2>3
    <3> QED BY <1>10, <2>1, <2>3, <3>1 DEF HarnessFits
  <2> QED BY <2>2, <2>3
<1>14. ASSUME Det(study), HarnessSolves(study, harness) PROVE HarnessSolves(study, g)
  <2>1. \A i \in 1..m : a[i].consequential <=> i \in harness.selected \cap FullSet(study)
    BY <1>3, <1>4, <1>8, <1>14 DEF HarnessSolves
  <2>2. a[m + 1].consequential <=> m + 1 \in harness.selected \cap FullSet(study)
    BY <1>6, <1>8, <1>14
  <2>3. \A i \in 1..(m + 1) : a[i].consequential <=> i \in harness.selected \cap FullSet(study)
    BY <1>11, <2>1, <2>2
  <2>4. Len(g.cases) = m + 1 BY <1>8, <1>9
  <2> QED BY <1>9, <1>14, <2>3, <2>4 DEF HarnessSolves
<1> QED BY <1>1, <1>3, <1>4, <1>9, <1>13, <1>14

\* The last solves of a harness: the families, and what it selected and
\* detected (summarize_by_family, _consequential_ids).
LEMMA OverFinds ==
  ASSUME study \in Studies, NEW k \in 1..Len(study.seeds), HarnessFits(study, "over", harness, k)
  PROVE  /\ NegativeFamilies \cap AffectedFamilies = {}
         /\ ConsequentialIds \subseteq 1..Len(study.corpus)
         /\ harness.selected \subseteq 1..Len(study.corpus)
         /\ Det(study) /\ HarnessSolves(study, harness) =>
              /\ ConsequentialIds = harness.selected \cap FullSet(study)
              /\ harness.selected = Chosen(study, harness.policy, harness.quarters, k)
              /\ harness.quarters = 4 => ConsequentialIds = FullSet(study)
<1>1. PICK n \in Nat \ {0} : n = Len(study.corpus) BY StudyTyped
<1>2. /\ harness \in Harnesses(study) /\ harness.seed = study.seeds[k]
      /\ Len(harness.features) = n /\ Len(harness.primaries) = n /\ Len(harness.cases) = n
      /\ harness.selected = Selected(harness.policy, harness.seed, harness.quarters, harness.features)
      /\ \A i \in 1..n : harness.cases[i].differ => harness.cases[i].consequential
  BY <1>1 DEF HarnessFits
<1>3. /\ harness.selected \subseteq 1..n /\ harness.policy \in Policies /\ harness.quarters \in 0..4
  BY <1>1, <1>2 DEF Harnesses
<1>4. DOMAIN harness.cases = 1..n /\ DOMAIN harness.features = 1..n
  <2>1. harness.cases \in Seq(CaseSet) /\ harness.features \in Seq(FeatureSet)
    BY <1>2 DEF Harnesses
  <2> QED BY <1>2, <2>1
<1>5. NegativeFamilies \cap AffectedFamilies = {}
  <2> SUFFICES ASSUME NEW f \in NegativeFamilies, f \in AffectedFamilies PROVE FALSE OBVIOUS
  <2>1. PICK i \in ShadowedOf(f) : harness.cases[i].consequential \/ harness.cases[i].differ
    BY DEF AffectedFamilies
  <2>2. ~harness.cases[i].consequential BY DEF NegativeFamilies
  <2>3. i \in 1..n BY <1>3 DEF ShadowedOf
  <2> QED BY <1>2, <2>1, <2>2, <2>3
<1>6. ConsequentialIds \subseteq 1..n BY <1>4 DEF ConsequentialIds
<1>7. ASSUME Det(study), HarnessSolves(study, harness)
      PROVE  /\ ConsequentialIds = harness.selected \cap FullSet(study)
             /\ harness.selected = Chosen(study, harness.policy, harness.quarters, k)
             /\ harness.quarters = 4 => ConsequentialIds = FullSet(study)
  <2>1. \A i \in 1..n : harness.cases[i].consequential <=> i \in harness.selected \cap FullSet(study)
    BY <1>2, <1>7 DEF HarnessSolves
  <2>2. ConsequentialIds = harness.selected \cap FullSet(study)
    BY <1>3, <1>4, <2>1 DEF ConsequentialIds
  <2>3. PICK fs \in Seq(FeatureSet) : fs = harness.features BY <1>2 DEF Harnesses
  <2>4. PICK gs \in Seq(FeatureSet) : gs = FeaturesOf(study) /\ Len(gs) = n
    BY <1>1, <1>7, FeaturesOfTyped
  <2>5. \A i \in 1..n : fs[i] = gs[i] BY <1>2, <1>7, <2>3, <2>4 DEF HarnessSolves
  <2>6. Len(fs) = n BY <1>2, <2>3
  <2>7. fs = gs BY <2>4, <2>5, <2>6
  <2>8. harness.selected = Chosen(study, harness.policy, harness.quarters, k)
    BY <1>2, <2>3, <2>4, <2>7 DEF Chosen
  <2>9. ASSUME harness.quarters = 4 PROVE ConsequentialIds = FullSet(study)
    <3>1. \A i \in DOMAIN fs : Rank(harness.seed, i, harness.policy) \in Int
      BY <1>1, <1>2, <1>3, <1>4, <2>3, StudyTyped
    <3>2. Selected(harness.policy, harness.seed, 4, fs) = 1..n
      BY <1>3, <2>6, <3>1, FullSelectsAll
    <3>3. harness.selected = 1..n BY <1>2, <2>3, <2>9, <3>2
    <3>4. FullSet(study) \subseteq 1..n BY <1>1, StudyTyped DEF FullSet
    <3> QED BY <2>2, <3>3, <3>4
  <2> QED BY <2>2, <2>8, <2>9
<1> QED BY <1>1, <1>3, <1>5, <1>6, <1>7

\* A sum of numbers is a number.
LEMMA SumIsInt ==
  ASSUME NEW D, IsFiniteSet(D), NEW x \in [D -> Int]
  PROVE  SumFunction(x) \in Int
<1>1. PICK f : Reaches(f, x, D) BY SumIsReached
<1>2. f \in [SUBSET D -> Int] /\ SumFunction(x) = f[D] BY <1>1 DEF Reaches
<1> QED BY <1>2

\* A cell: of every seed the hits and the skips are all of the baseline, and
\* where the solves are reproducible what it missed was not selected
\* (PolicyBudgetResult).
LEMMA CellFits ==
  ASSUME study \in Studies, full \subseteq 1..Len(study.corpus),
         Det(study) => full = FullSet(study),
         NEW policy \in Policies, NEW q \in 0..4,
         NEW runs \in Seq(RunSet(study)), Len(runs) = Len(study.seeds),
         Det(study) => \A k \in 1..Len(study.seeds) :
           /\ runs[k].selected = Chosen(study, policy, q, k)
           /\ runs[k].detected = runs[k].selected \cap FullSet(study),
         NEW c, c = Cell(full, runs, policy, q)
  PROVE  c \in Results(study) /\ ResultFits(study, full, c)
<1>1. PICK n, m \in Nat \ {0} : n = Len(study.corpus) /\ m = Len(study.seeds) BY StudyTyped
<1>2. /\ DOMAIN runs = 1..m
      /\ \A k \in 1..m : runs[k].selected \subseteq 1..n /\ runs[k].detected \subseteq 1..n
  <2>1. DOMAIN runs = 1..m BY <1>1
  <2>2. \A k \in 1..m : runs[k] \in RunSet(study) BY <1>1, <2>1
  <2> QED BY <1>1, <2>1, <2>2 DEF RunSet
<1>3. PICK D : D = 1..m OBVIOUS
<1>4. IsFiniteSet(D) /\ Cardinality(D) = m BY <1>3, FS_Interval
<1>5. IsFiniteSet(full)
  <2>1. n \in Int /\ 1 \in Int OBVIOUS
  <2>2. IsFiniteSet(1..n) BY <2>1, FS_Interval
  <2>3. full \subseteq 1..n BY <1>1
  <2> QED BY <2>2, <2>3, FS_Subset
<1>6. PICK hits, skips, costs :
        /\ hits = [k \in D |-> Cardinality(full \cap runs[k].detected)]
        /\ skips = [k \in D |-> Cardinality(full \ runs[k].detected)]
        /\ costs = [k \in D |-> Cardinality(runs[k].selected)]
  OBVIOUS
<1>7. hits \in [D -> Int] /\ skips \in [D -> Int] /\ costs \in [D -> Int]
  <2>1. ASSUME NEW k \in D
        PROVE  /\ Cardinality(full \cap runs[k].detected) \in Int
               /\ Cardinality(full \ runs[k].detected) \in Int
               /\ Cardinality(runs[k].selected) \in Int
    <3>1. /\ IsFiniteSet(full \cap runs[k].detected) /\ IsFiniteSet(full \ runs[k].detected)
      BY <1>5, FS_Subset
    <3>2. IsFiniteSet(runs[k].selected)
      <4>1. n \in Int /\ 1 \in Int OBVIOUS
      <4>2. IsFiniteSet(1..n) BY <4>1, FS_Interval
      <4>3. runs[k].selected \subseteq 1..n BY <1>2, <1>3
      <4> QED BY <4>2, <4>3, FS_Subset
    <3> QED BY <3>1, <3>2, FS_CardinalityType
  <2> QED BY <1>6, <2>1
<1>8. SumFunction(hits) \in Int /\ SumFunction(skips) \in Int /\ SumFunction(costs) \in Int
  BY <1>4, <1>7, SumIsInt
<1>9. SumFunction(hits) + SumFunction(skips) = Cardinality(full) * m
  <2>1. PICK a \in Int : a = Cardinality(full) BY <1>5, FS_CardinalityType
  <2>2. ASSUME NEW k \in D PROVE hits[k] + skips[k] = a
    <3>1. PICK t : t = runs[k].detected OBVIOUS
    <3>2. Cardinality(full \ t) = Cardinality(full) - Cardinality(full \cap t)
      BY <1>5, FS_Difference
    <3>3. hits[k] = Cardinality(full \cap t) /\ skips[k] = Cardinality(full \ t)
      BY <1>6, <2>2, <3>1
    <3>4. hits[k] \in Int BY <1>7
    <3> QED BY <2>1, <3>2, <3>3, <3>4
  <2>3. SumFunction(hits) + SumFunction(skips) = a * Cardinality(D)
    <3>1. \A k \in D : hits[k] + skips[k] = a BY <2>2
    <3>2. \A x \in [D -> Int], y \in [D -> Int], t \in Int :
            (\A k \in D : x[k] + y[k] = t) => SumFunction(x) + SumFunction(y) = t * Cardinality(D)
      BY <1>4, SumsAddUp
    <3>3. PICK F : F = [D -> Int] OBVIOUS
    <3>4. hits \in F /\ skips \in F /\ a \in Int BY <1>7, <3>3
    <3>5. \A x \in F, y \in F, t \in Int :
            (\A k \in D : x[k] + y[k] = t) => SumFunction(x) + SumFunction(y) = t * Cardinality(D)
      BY <3>2, <3>3
    <3>6. \A y \in F, t \in Int :
            (\A k \in D : hits[k] + y[k] = t) => SumFunction(hits) + SumFunction(y) = t * Cardinality(D)
      BY <3>4, <3>5, Zenon
    <3>7. \A t \in Int :
            (\A k \in D : hits[k] + skips[k] = t) =>
               SumFunction(hits) + SumFunction(skips) = t * Cardinality(D)
      BY <3>4, <3>6, Zenon
    <3>8. (\A k \in D : hits[k] + skips[k] = a) =>
             SumFunction(hits) + SumFunction(skips) = a * Cardinality(D)
      BY <3>4, <3>7, Zenon
    <3> QED BY <3>1, <3>8, Zenon
  <2> QED BY <1>4, <2>1, <2>3
<1>10. PICK picked, found : /\ picked = UNION {runs[k].selected : k \in D}
                            /\ found = UNION {runs[k].detected : k \in D}
  OBVIOUS
<1>11. PICK fam : fam = {f \in Families(study.corpus) :
                           \E i \in full : study.corpus[i].family = f /\ i \in found}
  OBVIOUS
<1>12. c = [policy |-> policy, quarters |-> q, estimable |-> full # {}, selected |-> picked,
            shadowed |-> SumFunction(costs), hits |-> SumFunction(hits),
            skips |-> SumFunction(skips), missed |-> full \ found, families |-> fam]
  BY <1>2, <1>3, <1>6, <1>10, <1>11, Zenon DEF Cell, Missed, Detected
<1>13. /\ c.policy = policy /\ c.quarters = q /\ c.selected = picked
       /\ c.hits = SumFunction(hits) /\ c.skips = SumFunction(skips) /\ c.missed = full \ found
  BY <1>12
<1>14. c \in Results(study)
  <2>1. picked \subseteq 1..n BY <1>2, <1>3, <1>10
  <2>2. full \ found \subseteq 1..n BY <1>1
  <2>3. \A i \in 1..n : i \in Nat OBVIOUS
  <2>4. fam \subseteq Families(study.corpus) BY <1>11
  <2>5. PICK e, h, k, w, left : /\ e = (full # {}) /\ h = SumFunction(hits)
                               /\ k = SumFunction(skips) /\ w = SumFunction(costs)
                               /\ left = full \ found
    OBVIOUS
  <2>6. /\ e \in BOOLEAN /\ h \in Int /\ k \in Int /\ w \in Int
        /\ left \in SUBSET Nat /\ picked \in SUBSET Nat /\ fam \in SUBSET Families(study.corpus)
    BY <1>8, <2>1, <2>2, <2>3, <2>4, <2>5
  <2>7. c = [policy |-> policy, quarters |-> q, estimable |-> e, selected |-> picked,
             shadowed |-> w, hits |-> h, skips |-> k, missed |-> left, families |-> fam]
    BY <1>12, <2>5, Zenon
  <2>8. [policy |-> policy, quarters |-> q, estimable |-> e, selected |-> picked,
         shadowed |-> w, hits |-> h, skips |-> k, missed |-> left, families |-> fam]
           \in Results(study)
    BY <2>6, Zenon DEF Results
  <2> QED BY <2>7, <2>8, Zenon
<1>15. ASSUME Det(study)
       PROVE  /\ c.selected = UNION {Chosen(study, c.policy, c.quarters, k) : k \in D}
              /\ c.missed = FullSet(study) \ c.selected
              /\ hits = [k \in D |-> Cardinality(FullSet(study) \cap Chosen(study, c.policy, c.quarters, k))]
              /\ skips = [k \in D |-> Cardinality(FullSet(study) \ Chosen(study, c.policy, c.quarters, k))]
  <2>1. \A k \in D : /\ runs[k].selected = Chosen(study, c.policy, c.quarters, k)
                     /\ runs[k].detected = runs[k].selected \cap FullSet(study)
    BY <1>1, <1>3, <1>13, <1>15
  <2>2. full = FullSet(study) BY <1>15
  <2>3. picked = UNION {Chosen(study, c.policy, c.quarters, k) : k \in D} BY <1>10, <2>1
  <2>4. full \ found = FullSet(study) \ picked BY <1>10, <2>1, <2>2
  <2>5. \A k \in D : /\ full \cap runs[k].detected = FullSet(study) \cap Chosen(study, c.policy, c.quarters, k)
                     /\ full \ runs[k].detected = FullSet(study) \ Chosen(study, c.policy, c.quarters, k)
    BY <2>1, <2>2
  <2> QED BY <1>6, <1>13, <2>3, <2>4, <2>5, Zenon
<1>16. ResultFits(study, full, c)
  <2>1. c.hits + c.skips = Cardinality(full) * Len(study.seeds) BY <1>1, <1>9, <1>13, Zenon
  <2>2. D = 1..Len(study.seeds) BY <1>1, <1>3
  <2>3. ASSUME Det(study)
        PROVE  /\ c.selected = UNION {Chosen(study, c.policy, c.quarters, k) : k \in D}
               /\ c.missed = FullSet(study) \ c.selected
               /\ c.hits = SumFunction([k \in D |->
                    Cardinality(FullSet(study) \cap Chosen(study, c.policy, c.quarters, k))])
               /\ c.skips = SumFunction([k \in D |->
                    Cardinality(FullSet(study) \ Chosen(study, c.policy, c.quarters, k))])
    <3>1. PICK p, r : p = c.policy /\ r = c.quarters OBVIOUS
    <3>2. PICK h, k : h = hits /\ k = skips OBVIOUS
    <3>3. c.hits = SumFunction(h) /\ c.skips = SumFunction(k) BY <1>13, <3>2, Zenon
    <3>4. /\ c.selected = UNION {Chosen(study, p, r, j) : j \in D}
          /\ c.missed = FullSet(study) \ c.selected
      BY <1>15, <2>3, <3>1
    <3>5. /\ h = [j \in D |-> Cardinality(FullSet(study) \cap Chosen(study, p, r, j))]
          /\ k = [j \in D |-> Cardinality(FullSet(study) \ Chosen(study, p, r, j))]
      BY <1>15, <2>3, <3>1, <3>2, Zenon
    <3>6. /\ c.selected = UNION {Chosen(study, c.policy, c.quarters, j) : j \in D}
          /\ c.missed = FullSet(study) \ c.selected
      BY <3>1, <3>4
    <3>7. c.hits = SumFunction([j \in D |->
            Cardinality(FullSet(study) \cap Chosen(study, c.policy, c.quarters, j))])
      BY <3>1, <3>3, <3>5, Zenon
    <3>8. c.skips = SumFunction([j \in D |->
            Cardinality(FullSet(study) \ Chosen(study, c.policy, c.quarters, j))])
      BY <3>1, <3>3, <3>5, Zenon
    <3> QED BY <3>6, <3>7, <3>8, Zenon
  <2> QED BY <2>1, <2>2, <2>3, Zenon DEF ResultFits
<1> QED BY <1>14, <1>16

\* The n-th cell has a policy and a budget (the two loops of run_sampling_study).
LEMMA PlanTyped ==
  ASSUME NEW s \in Studies, s.program = "study"
  PROVE  /\ Planned(s) \in Nat /\ 1 <= Planned(s)
         /\ \A n \in 1..Planned(s) : PolicyOf(s, n) \in Policies /\ QuartersOf(s, n) \in 0..4
<1>1. PICK ps \in Seq(Policies), bs \in Seq(0..4) :
        ps = s.policies /\ bs = s.budgets /\ ps # <<>> /\ bs # <<>>
  BY StudyAssumption
<1>2. PICK p, b \in Nat \ {0} : p = Len(ps) /\ b = Len(bs) BY <1>1, EmptySeq
<1>3. Planned(s) = p * b BY <1>1, <1>2 DEF Planned
<1>4. p * b \in Nat /\ 1 <= p * b
  <2>1. PICK q \in Nat : p = q + 1
    <3>1. p - 1 \in Nat /\ p = (p - 1) + 1 OBVIOUS
    <3> QED BY <3>1
  <2>2. p * b = q * b + b BY <2>1
  <2>3. q * b \in Nat OBVIOUS
  <2> QED BY <2>2, <2>3
<1>5. ASSUME NEW n \in 1..(p * b) PROVE PolicyOf(s, n) \in Policies /\ QuartersOf(s, n) \in 0..4
  <2>0. PICK x \in Nat : x = n - 1 BY <1>4
  <2>1. PICK d, r \in Int : d = (n - 1) \div b /\ r = (n - 1) % b
    <3>1. x \div b \in Int /\ x % b \in Int OBVIOUS
    <3> QED BY <2>0, <3>1
  <2>2. n - 1 = b * d + r /\ 0 <= r /\ r < b BY <1>4, <2>1
  <2>3. 0 <= d
    <3> SUFFICES ASSUME d <= -1 PROVE FALSE OBVIOUS
    <3>1. b * d <= b * (-1) OBVIOUS
    <3>2. b * (-1) = -b OBVIOUS
    <3> QED BY <2>2, <3>1, <3>2
  <2>4. d < p
    <3> SUFFICES ASSUME p <= d PROVE FALSE BY <2>1
    <3>1. b * p <= b * d OBVIOUS
    <3>2. b * p = p * b OBVIOUS
    <3> QED BY <1>4, <2>2, <3>1, <3>2
  <2>5. d + 1 \in 1..p /\ r + 1 \in 1..b BY <2>1, <2>2, <2>3, <2>4
  <2>6. ps[d + 1] \in Policies /\ bs[r + 1] \in 0..4 BY <1>2, <2>5
  <2> QED BY <1>1, <1>2, <2>1, <2>6 DEF PolicyOf, QuartersOf
<1> QED BY <1>3, <1>4, <1>5

\* A step within a harness leaves the rest of the study as it is.
LEMMA HarnessMoves ==
  ASSUME StudyInv, stage \in {"primary", "select", "shadow"},
         stage' \in {"primary", "select", "shadow", "over"},
         UNCHANGED <<study, full, seen, cells, report>>,
         HarnessFits(study, stage', harness', Len(seen) + 1),
         harness'.policy = harness.policy, harness'.quarters = harness.quarters,
         Det(study) /\ HarnessSolves(study, harness) => HarnessSolves(study, harness')
  PROVE  StudyInv'
<1>1. Working /\ Working' BY DEF Working
<1>2. /\ study \in Studies /\ full \subseteq 1..Len(study.corpus)
      /\ cells \in Seq(Results(study)) /\ seen \in Seq(RunSet(study))
      /\ \A n \in 1..Len(cells) : ResultFits(study, full, cells[n])
      /\ Len(seen) < Len(study.seeds)
      /\ Det(study) => HarnessSolves(study, harness)
      /\ \A k \in 1..Len(seen) : RunFits(study, harness, seen[k], k)
      /\ IF report = <<>> THEN seen = <<>> /\ harness.policy = "random" /\ harness.quarters = 4
         ELSE study.program = "study"
      /\ cells # <<>> => report # <<>> /\ study.program = "study"
      /\ report # <<>> =>
           /\ {"negative", "affected"} \subseteq DOMAIN report
           /\ report.negative \cap report.affected = {}
           /\ study.program = "study" /\ Det(study) => full = FullSet(study)
  BY <1>1 DEF StudyInv
<1>3. \A k \in 1..Len(seen) : RunFits(study, harness', seen[k], k) BY <1>2 DEF RunFits
<1>4. /\ study' = study /\ full' = full /\ seen' = seen /\ cells' = cells /\ report' = report
      /\ stage' # "none" /\ stage' # "judge"
  OBVIOUS
<1> QED BY <1>1, <1>2, <1>3, <1>4 DEF StudyInv

\* Before a study there is nothing to keep.
LEMMA StudyBegins == StudyInit => StudyInv
<1> SUFFICES ASSUME StudyInit PROVE StudyInv OBVIOUS
<1> QED BY EmptySeq DEF StudyInit, StudyInv, Working

\* A study begins with the full baseline of its first seed.
LEMMA BeginKeeps == ASSUME StudyInv, Begin PROVE StudyInv'
<1>1. PICK s \in Studies : study' = s /\ harness' = HarnessOf(s, "random", 4, Head(s.seeds))
  BY DEF Begin
<1>2. /\ stage' = "primary" /\ full' = {} /\ seen' = <<>> /\ cells' = <<>> /\ report' = <<>>
  BY DEF Begin, StudyInv
<1>3. Head(s.seeds) = s.seeds[1] /\ 1 \in 1..Len(s.seeds) BY StudyTyped
<1>4. /\ HarnessFits(s, "primary", harness', 1) /\ HarnessSolves(s, harness')
      /\ harness'.policy = "random" /\ harness'.quarters = 4
  <2>1. "random" \in Policies /\ 4 \in 0..4 BY DEF Policies
  <2> QED BY <1>1, <1>3, <2>1, HarnessBegins
<1>5. Len(seen') = 0 /\ Len(cells') = 0 BY <1>2, EmptySeq
<1>6. /\ Len(seen') < Len(study'.seeds) /\ Len(seen') + 1 = 1 /\ study' \in Studies
  BY <1>1, <1>3, <1>5
<1>7. /\ cells' \in Seq(Results(s)) /\ seen' \in Seq(RunSet(s))
      /\ \A n \in 1..Len(cells') : FALSE
      /\ \A k \in 1..Len(seen') : FALSE
  BY <1>2, <1>5, EmptySeq
<1> QED BY <1>1, <1>2, <1>4, <1>6, <1>7 DEF StudyInv

\* The primary pass solves one more scenario.
LEMMA PrimaryKeeps == ASSUME StudyInv, Primary PROVE StudyInv'
<1>1. stage = "primary" /\ Working BY DEF Primary, Working
<1>2. study \in Studies /\ HarnessFits(study, "primary", harness, Len(seen) + 1)
  BY <1>1 DEF StudyInv
<1>3. PICK p \in Projections(study.corpus[Len(harness.primaries) + 1], study.primary, "primary") :
        harness' = WithSolve(study, harness, p)
  BY Zenon DEF Primary, WithSolve
<1>4. /\ stage' = IF Len(harness.primaries) + 1 = Len(study.corpus) THEN "select" ELSE "primary"
      /\ UNCHANGED <<study, full, seen, cells, report>>
  BY DEF Primary
<1>5. /\ HarnessFits(study, stage', harness', Len(seen) + 1)
      /\ harness'.policy = harness.policy /\ harness'.quarters = harness.quarters
      /\ Det(study) /\ HarnessSolves(study, harness) => HarnessSolves(study, harness')
  <2>1. PICK g : g = harness' OBVIOUS
  <2>2. /\ HarnessFits(study, IF Len(harness.primaries) + 1 = Len(study.corpus)
                              THEN "select" ELSE "primary", g, Len(seen) + 1)
        /\ g.policy = harness.policy /\ g.quarters = harness.quarters
        /\ Det(study) /\ HarnessSolves(study, harness) => HarnessSolves(study, g)
    BY <1>2, <1>3, <2>1, PrimaryFits
  <2> QED BY <1>4, <2>1, <2>2, Zenon
<1>6. stage' \in {"primary", "select"} BY <1>4
<1> QED BY <1>1, <1>4, <1>5, <1>6, HarnessMoves

\* The selection is made once every primary solve is known.
LEMMA SelectKeeps == ASSUME StudyInv, Select PROVE StudyInv'
<1>1. stage = "select" /\ Working BY DEF Select, Working
<1>2. study \in Studies /\ HarnessFits(study, "select", harness, Len(seen) + 1)
  BY <1>1 DEF StudyInv
<1>3. harness' = [harness EXCEPT !.selected =
                    Selected(harness.policy, harness.seed, harness.quarters, harness.features)]
  BY DEF Select
<1>4. stage' = "shadow" /\ UNCHANGED <<study, full, seen, cells, report>> BY DEF Select
<1>5. /\ HarnessFits(study, stage', harness', Len(seen) + 1)
      /\ harness'.policy = harness.policy /\ harness'.quarters = harness.quarters
      /\ HarnessSolves(study, harness) => HarnessSolves(study, harness')
  BY <1>2, <1>3, <1>4, SelectFits
<1> QED BY <1>1, <1>4, <1>5, HarnessMoves

\* The shadow pass solves, or skips, one more scenario.
LEMMA ShadowKeeps == ASSUME StudyInv, Shadow PROVE StudyInv'
<1>1. stage = "shadow" /\ Working BY DEF Shadow, Working
<1>2. study \in Studies /\ HarnessFits(study, "shadow", harness, Len(seen) + 1)
  BY <1>1 DEF StudyInv
<1>3. PICK c \in CasesOf(Len(harness.cases) + 1) : harness' = [harness EXCEPT !.cases = Append(@, c)]
  BY DEF Shadow
<1>4. /\ stage' = IF Len(harness.cases) + 1 = Len(study.corpus) THEN "over" ELSE "shadow"
      /\ UNCHANGED <<study, full, seen, cells, report>>
  BY DEF Shadow
<1>5. /\ HarnessFits(study, stage', harness', Len(seen) + 1)
      /\ harness'.policy = harness.policy /\ harness'.quarters = harness.quarters
      /\ Det(study) /\ HarnessSolves(study, harness) => HarnessSolves(study, harness')
  BY <1>2, <1>3, <1>4, ShadowFits
<1>6. stage' \in {"over", "shadow"} BY <1>4
<1> QED BY <1>1, <1>4, <1>5, <1>6, HarnessMoves

\* The harness of the full budget is over: what it found is the baseline.
LEMMA BaselineKeeps ==
  ASSUME StudyInv, stage = "over", study.program = "study", report = <<>>,
         full' = ConsequentialIds, stage' = "primary",
         harness' = HarnessOf(study, PolicyOf(study, 1), QuartersOf(study, 1), Head(study.seeds)),
         report' = [negative |-> NegativeFamilies, affected |-> AffectedFamilies],
         UNCHANGED <<study, seen, cells>>
  PROVE  StudyInv'
<1>1. Working BY DEF Working
<1>2. /\ study \in Studies /\ HarnessFits(study, "over", harness, Len(seen) + 1)
      /\ Det(study) => HarnessSolves(study, harness)
      /\ seen = <<>> /\ harness.quarters = 4 /\ cells = <<>>
  BY <1>1 DEF StudyInv
<1>3. Len(seen) = 0 /\ Len(cells) = 0 BY <1>2, EmptySeq
<1>4. 1 \in 1..Len(study.seeds) /\ Head(study.seeds) = study.seeds[1] BY <1>2, StudyTyped
<1>5. HarnessFits(study, "over", harness, 1) BY <1>2, <1>3
<1>6. /\ NegativeFamilies \cap AffectedFamilies = {} /\ ConsequentialIds \subseteq 1..Len(study.corpus)
      /\ Det(study) => ConsequentialIds = FullSet(study)
  BY <1>2, <1>4, <1>5, OverFinds
<1>7. /\ HarnessFits(study, "primary", harness', 1) /\ HarnessSolves(study, harness')
  <2>1. Planned(study) \in Nat /\ 1 <= Planned(study) BY <1>2, PlanTyped
  <2>2. 1 \in 1..Planned(study) BY <2>1
  <2>3. PolicyOf(study, 1) \in Policies /\ QuartersOf(study, 1) \in 0..4 BY <1>2, <2>2, PlanTyped
  <2> QED BY <1>2, <1>4, <2>3, HarnessBegins
<1>8. /\ report' # <<>> /\ {"negative", "affected"} \subseteq DOMAIN report'
      /\ report'.negative \cap report'.affected = {}
  <2>1. DOMAIN report' = {"negative", "affected"} OBVIOUS
  <2>2. DOMAIN <<>> = {} OBVIOUS
  <2>3. report'.negative = NegativeFamilies /\ report'.affected = AffectedFamilies OBVIOUS
  <2>4. report' # <<>> BY <2>1, <2>2
  <2> QED BY <1>6, <2>1, <2>3, <2>4
<1>9. /\ study' = study /\ seen' = <<>> /\ cells' = <<>> /\ full' = ConsequentialIds
      /\ stage' = "primary" /\ Working'
      /\ Len(seen') < Len(study.seeds) /\ Len(seen') + 1 = 1
      /\ \A n \in 1..Len(cells') : FALSE
      /\ \A k \in 1..Len(seen') : FALSE
  BY <1>2, <1>3, <1>4 DEF Working
<1>10. <<>> \in Seq(Results(study)) /\ <<>> \in Seq(RunSet(study)) BY EmptySeq
<1> QED BY <1>2, <1>6, <1>7, <1>8, <1>9, <1>10 DEF StudyInv

\* A harness of a cell is over: the next seed, the next cell or the judgement.
LEMMA CellKeeps ==
  ASSUME StudyInv, stage = "over", study.program = "study", report # <<>>,
         NEW runs, runs = Append(seen, [selected |-> harness.selected, detected |-> ConsequentialIds]),
         IF Len(runs) < Len(study.seeds)
         THEN /\ seen' = runs /\ cells' = cells /\ stage' = "primary"
              /\ harness' = HarnessOf(study, harness.policy, harness.quarters,
                                      study.seeds[Len(runs) + 1])
         ELSE /\ seen' = <<>>
              /\ cells' = Append(cells, Cell(full, runs, harness.policy, harness.quarters))
              /\ IF Len(cells) + 2 > Planned(study)
                 THEN stage' = "judge" /\ harness' = harness
                 ELSE /\ stage' = "primary"
                      /\ harness' = HarnessOf(study, PolicyOf(study, Len(cells) + 2),
                                      QuartersOf(study, Len(cells) + 2), Head(study.seeds)),
         UNCHANGED <<study, full, report>>
  PROVE  StudyInv'
<1>1. Working BY DEF Working
<1>2. /\ study \in Studies /\ full \subseteq 1..Len(study.corpus)
      /\ cells \in Seq(Results(study)) /\ seen \in Seq(RunSet(study))
      /\ \A n \in 1..Len(cells) : ResultFits(study, full, cells[n])
      /\ Len(seen) < Len(study.seeds) /\ HarnessFits(study, "over", harness, Len(seen) + 1)
      /\ Det(study) => HarnessSolves(study, harness)
      /\ \A k \in 1..Len(seen) : RunFits(study, harness, seen[k], k)
      /\ {"negative", "affected"} \subseteq DOMAIN report
      /\ report.negative \cap report.affected = {}
      /\ Det(study) => full = FullSet(study)
  BY <1>1 DEF StudyInv
<1>3. PICK m \in Nat \ {0} : m = Len(study.seeds) BY <1>2, StudyTyped
<1>4. PICK k \in Nat : k = Len(seen) BY <1>2
<1>5. k < m /\ k + 1 \in 1..m BY <1>2, <1>3, <1>4
<1>6. /\ ConsequentialIds \subseteq 1..Len(study.corpus)
      /\ harness.selected \subseteq 1..Len(study.corpus)
      /\ Det(study) => /\ ConsequentialIds = harness.selected \cap FullSet(study)
                       /\ harness.selected = Chosen(study, harness.policy, harness.quarters, k + 1)
  BY <1>2, <1>3, <1>4, <1>5, OverFinds
<1>7. PICK r : r = [selected |-> harness.selected, detected |-> ConsequentialIds] OBVIOUS
<1>8. /\ r \in RunSet(study) /\ RunFits(study, harness, r, k + 1)
  <2>1. r \in RunSet(study) BY <1>6, <1>7 DEF RunSet
  <2>2. r.selected = harness.selected /\ r.detected = ConsequentialIds BY <1>7
  <2> QED BY <1>6, <2>1, <2>2 DEF RunFits
<1>9. /\ runs \in Seq(RunSet(study)) /\ Len(runs) = k + 1 /\ runs[k + 1] = r
      /\ \A j \in 1..k : runs[j] = seen[j]
  BY <1>2, <1>4, <1>7, <1>8, AppendProperties
<1>10. \A j \in 1..(k + 1) : RunFits(study, harness, runs[j], j)
  <2> SUFFICES ASSUME NEW j \in 1..(k + 1) PROVE RunFits(study, harness, runs[j], j) OBVIOUS
  <2>1. CASE j = k + 1 BY <1>8, <1>9, <2>1
  <2>2. CASE j # k + 1
    <3>1. j \in 1..k BY <2>2
    <3> QED BY <1>2, <1>4, <1>9, <3>1
  <2> QED BY <2>1, <2>2
<1>11. harness.policy \in Policies /\ harness.quarters \in 0..4
  BY <1>2 DEF HarnessFits, Harnesses
<1>12. study' = study /\ full' = full /\ report' = report OBVIOUS
<1>13. CASE k + 1 < m
  <2>1. /\ seen' = runs /\ cells' = cells /\ stage' = "primary"
        /\ harness' = HarnessOf(study, harness.policy, harness.quarters, study.seeds[k + 2])
    <3>1. Len(runs) < Len(study.seeds) /\ Len(runs) + 1 = k + 2 BY <1>3, <1>9, <1>13
    <3> QED BY <3>1
  <2>2. k + 2 \in 1..Len(study.seeds) BY <1>3, <1>13
  <2>3. /\ HarnessFits(study, "primary", harness', k + 2) /\ HarnessSolves(study, harness')
        /\ harness'.policy = harness.policy /\ harness'.quarters = harness.quarters
    BY <1>2, <1>11, <2>1, <2>2, HarnessBegins
  <2>4. \A j \in 1..Len(seen') : RunFits(study, harness', seen'[j], j)
    BY <1>9, <1>10, <2>1, <2>3 DEF RunFits
  <2>5. Len(seen') < Len(study.seeds) /\ Len(seen') + 1 = k + 2 BY <1>3, <1>9, <1>13, <2>1
  <2>6. Working' BY <2>1 DEF Working
  <2> QED BY <1>2, <1>9, <1>12, <2>1, <2>3, <2>4, <2>5, <2>6 DEF StudyInv
<1>14. CASE ~(k + 1 < m)
  <2>1. k + 1 = m BY <1>5, <1>14
  <2>2. Len(runs) = Len(study.seeds) /\ ~(Len(runs) < Len(study.seeds)) BY <1>3, <1>9, <2>1
  <2>3. PICK c : c = Cell(full, runs, harness.policy, harness.quarters) OBVIOUS
  <2>4. c \in Results(study) /\ ResultFits(study, full, c)
    <3>1. Det(study) => \A j \in 1..Len(study.seeds) :
            /\ runs[j].selected = Chosen(study, harness.policy, harness.quarters, j)
            /\ runs[j].detected = runs[j].selected \cap FullSet(study)
      BY <1>3, <1>10, <2>1 DEF RunFits
    <3> QED BY <1>2, <1>9, <1>11, <2>2, <2>3, <3>1, CellFits
  <2>5. PICK n \in Nat : n = Len(cells) BY <1>2
  <2>6. seen' = <<>> /\ cells' = Append(cells, c) BY <2>2, <2>3
  <2>7. /\ cells' \in Seq(Results(study)) /\ Len(cells') = n + 1 /\ cells'[n + 1] = c
        /\ \A j \in 1..n : cells'[j] = cells[j]
    BY <1>2, <2>4, <2>5, <2>6, AppendProperties
  <2>8. \A j \in 1..Len(cells') : ResultFits(study, full, cells'[j])
    <3> SUFFICES ASSUME NEW j \in 1..(n + 1) PROVE ResultFits(study, full, cells'[j]) BY <2>7
    <3>1. CASE j = n + 1 BY <2>4, <2>7, <3>1
    <3>2. CASE j # n + 1
      <4>1. j \in 1..n BY <3>2
      <4> QED BY <1>2, <2>5, <2>7, <4>1
    <3> QED BY <3>1, <3>2
  <2>9. Len(seen') = 0 /\ \A j \in 1..Len(seen') : FALSE /\ <<>> \in Seq(RunSet(study))
    BY <2>6, EmptySeq
  <2>10. CASE n + 2 > Planned(study)
    <3>1. stage' = "judge" BY <2>2, <2>5, <2>10
    <3>2. ~Working' BY <3>1 DEF Working
    <3> QED BY <1>2, <1>12, <2>6, <2>7, <2>8, <2>9, <3>1, <3>2 DEF StudyInv
  <2>11. CASE ~(n + 2 > Planned(study))
    <3>1. /\ stage' = "primary"
          /\ harness' = HarnessOf(study, PolicyOf(study, n + 2), QuartersOf(study, n + 2),
                                  Head(study.seeds))
      BY <2>2, <2>5, <2>11
    <3>2. PolicyOf(study, n + 2) \in Policies /\ QuartersOf(study, n + 2) \in 0..4
      <4>1. Planned(study) \in Nat BY <1>2, PlanTyped
      <4>2. n + 2 \in 1..Planned(study) BY <2>11, <4>1
      <4> QED BY <1>2, <4>2, PlanTyped
    <3>3. 1 \in 1..Len(study.seeds) /\ Head(study.seeds) = study.seeds[1] BY <1>2, StudyTyped
    <3>4. HarnessFits(study, "primary", harness', 1) /\ HarnessSolves(study, harness')
      BY <1>2, <3>1, <3>2, <3>3, HarnessBegins
    <3>5. Len(seen') < Len(study.seeds) /\ Len(seen') + 1 = 1 BY <2>9, <3>3
    <3>6. Working' BY <3>1 DEF Working
    <3> QED BY <1>2, <1>12, <2>6, <2>7, <2>8, <2>9, <3>1, <3>4, <3>5, <3>6 DEF StudyInv
  <2> QED BY <2>10, <2>11
<1> QED BY <1>13, <1>14

\* The other programs retain what the one harness found.
LEMMA RetainKeeps ==
  ASSUME StudyInv, stage = "over", study.program # "study", stage' = "done",
         report'.affected \cap report'.negative = {}, {"negative", "affected"} \subseteq DOMAIN report',
         UNCHANGED <<study, harness, full, seen, cells>>
  PROVE  StudyInv'
<1>1. ~Working' /\ stage # "none" BY DEF Working
<1>2. /\ study \in Studies /\ full \subseteq 1..Len(study.corpus)
      /\ cells \in Seq(Results(study)) /\ seen \in Seq(RunSet(study))
      /\ \A n \in 1..Len(cells) : ResultFits(study, full, cells[n])
  BY <1>1 DEF StudyInv
<1>3. cells = <<>> BY DEF StudyInv
<1> QED BY <1>1, <1>2, <1>3 DEF StudyInv

\* The end of a harness adds one run, and that of the last seed one cell; the
\* end of the baseline says which cases are consequential.
LEMMA OverKeeps == ASSUME StudyInv, Over PROVE StudyInv'
<1>1. stage = "over" /\ UNCHANGED study BY DEF Over
<1>2. Working /\ study \in Studies BY <1>1 DEF Working, StudyInv
<1>3. study.program \in {"study", "promotion", "corpus"} BY <1>2, StudyAssumption
<1>4. NegativeFamilies \cap AffectedFamilies = {}
  <2>1. HarnessFits(study, "over", harness, Len(seen) + 1) /\ Len(seen) < Len(study.seeds)
        /\ seen \in Seq(RunSet(study))
    BY <1>1, <1>2 DEF StudyInv
  <2>2. Len(seen) + 1 \in 1..Len(study.seeds)
    <3>1. Len(seen) \in Nat /\ Len(study.seeds) \in Nat BY <1>2, <2>1, StudyTyped
    <3> QED BY <2>1, <3>1
  <2> QED BY <1>2, <2>1, <2>2, OverFinds
<1>5. PICK runs : runs = Append(seen, [selected |-> harness.selected, detected |-> ConsequentialIds])
  OBVIOUS
<1>6. CASE study.program = "promotion"
  <2>1. /\ report' = Promotion /\ stage' = "done" /\ UNCHANGED <<harness, full, seen, cells>>
    BY <1>6 DEF Over
  <2>2. /\ report'.affected = AffectedFamilies /\ report'.negative = NegativeFamilies
        /\ {"negative", "affected"} \subseteq DOMAIN report'
    BY <2>1 DEF Promotion
  <2> QED BY <1>1, <1>4, <1>6, <2>1, <2>2, RetainKeeps
<1>7. CASE study.program = "corpus"
  <2>1. /\ report' = Packaged /\ stage' = "done" /\ UNCHANGED <<harness, full, seen, cells>>
    BY <1>7 DEF Over
  <2>2. report'.affected = {} /\ {"negative", "affected"} \subseteq DOMAIN report'
    BY <2>1 DEF Packaged
  <2> QED BY <1>1, <1>7, <2>1, <2>2, RetainKeeps
<1>8. CASE study.program = "study" /\ report = <<>>
  <2>1. /\ full' = ConsequentialIds /\ stage' = "primary"
        /\ harness' = HarnessOf(study, PolicyOf(study, 1), QuartersOf(study, 1), Head(study.seeds))
        /\ report' = [negative |-> NegativeFamilies, affected |-> AffectedFamilies]
        /\ UNCHANGED <<study, seen, cells>>
    BY <1>8 DEF Over
  <2> QED BY <1>1, <1>8, <2>1, BaselineKeeps
<1>9. CASE study.program = "study" /\ report # <<>>
  <2>1. /\ IF Len(runs) < Len(study.seeds)
           THEN /\ seen' = runs /\ cells' = cells /\ stage' = "primary"
                /\ harness' = HarnessOf(study, harness.policy, harness.quarters,
                                        study.seeds[Len(runs) + 1])
           ELSE /\ seen' = <<>>
                /\ cells' = Append(cells, Cell(full, runs, harness.policy, harness.quarters))
                /\ IF Len(cells) + 2 > Planned(study)
                   THEN stage' = "judge" /\ harness' = harness
                   ELSE /\ stage' = "primary"
                        /\ harness' = HarnessOf(study, PolicyOf(study, Len(cells) + 2),
                                        QuartersOf(study, Len(cells) + 2), Head(study.seeds))
        /\ UNCHANGED <<study, full, report>>
    BY <1>5, <1>9 DEF Over
  <2> QED BY <1>1, <1>5, <1>9, <2>1, CellKeeps
<1> QED BY <1>3, <1>6, <1>7, <1>8, <1>9

\* The verdict changes the report alone.
LEMMA JudgeKeeps == ASSUME StudyInv, Judge PROVE StudyInv'
<1>1. /\ stage = "judge" /\ stage' = "done"
      /\ report' = [negative |-> report.negative, affected |-> report.affected,
                    verdict |-> Verdict]
      /\ UNCHANGED <<study, harness, full, seen, cells>>
  BY DEF Judge
<1>2. /\ study \in Studies /\ report # <<>> /\ study.program = "study"
      /\ {"negative", "affected"} \subseteq DOMAIN report
      /\ report.negative \cap report.affected = {}
  BY <1>1 DEF StudyInv
<1>3. /\ {"negative", "affected"} \subseteq DOMAIN report'
      /\ report'.negative = report.negative /\ report'.affected = report.affected
  BY <1>1
<1>4. report' # <<>> /\ ~Working' /\ stage # "none"
  <2>1. DOMAIN <<>> = {} OBVIOUS
  <2> QED BY <1>1, <1>3, <2>1 DEF Working
<1> QED BY <1>1, <1>2, <1>3, <1>4 DEF StudyInv

\* Every step of a study keeps its invariant.
LEMMA StudyKeeps == StudyInv /\ [StudyStep]_studyVars => StudyInv'
<1> SUFFICES ASSUME StudyInv, [StudyStep]_studyVars PROVE StudyInv' OBVIOUS
<1>1. CASE UNCHANGED studyVars BY <1>1 DEF studyVars, StudyInv, Working
<1> QED BY <1>1, BeginKeeps, PrimaryKeeps, SelectKeeps, ShadowKeeps, OverKeeps, JudgeKeeps
        DEF StudyStep
-----------------------------------------------------------------------------
(***************************************************************************)
(* What a study says of its budgets.                                       *)
(***************************************************************************)

\* A sum of zeros is zero.
LEMMA SumOfZeros ==
  ASSUME NEW D, IsFiniteSet(D), NEW x, x = [k \in D |-> 0]
  PROVE  SumFunction(x) = 0
<1>1. PICK F : F = [D -> Int] OBVIOUS
<1>2. x \in F /\ (\A k \in D : x[k] + x[k] = 0) /\ 0 \in Int BY <1>1
<1>3. \A y \in F, z \in F, t \in Int :
        (\A k \in D : y[k] + z[k] = t) => SumFunction(y) + SumFunction(z) = t * Cardinality(D)
  BY <1>1, SumsAddUp
<1>4. \A z \in F, t \in Int :
        (\A k \in D : x[k] + z[k] = t) => SumFunction(x) + SumFunction(z) = t * Cardinality(D)
  BY <1>2, <1>3, Zenon
<1>5. \A t \in Int :
        (\A k \in D : x[k] + x[k] = t) => SumFunction(x) + SumFunction(x) = t * Cardinality(D)
  BY <1>2, <1>4, Zenon
<1>6. (\A k \in D : x[k] + x[k] = 0) => SumFunction(x) + SumFunction(x) = 0 * Cardinality(D)
  BY <1>2, <1>5, Zenon
<1>7. SumFunction(x) + SumFunction(x) = 0 * Cardinality(D) BY <1>2, <1>6, Zenon
<1>8. Cardinality(D) \in Nat BY FS_CardinalityType
<1>9. SumFunction(x) \in Int BY <1>1, <1>2, SumIsInt
<1> QED BY <1>7, <1>8, <1>9

\* A larger budget of a policy selects no less under any seed, and the full
\* budget selects everything (select_for_shadow_detailed).
LEMMA ChosenGrows ==
  ASSUME NEW s \in Studies, Det(s), NEW policy \in Policies, NEW k \in 1..Len(s.seeds),
         NEW a \in 0..4, NEW b \in 0..4
  PROVE  /\ a <= b => Chosen(s, policy, a, k) \subseteq Chosen(s, policy, b, k)
         /\ FullSet(s) \subseteq Chosen(s, policy, 4, k)
<1>1. PICK fs \in Seq(FeatureSet) : /\ fs = FeaturesOf(s) /\ Len(fs) = Len(s.corpus)
                                    /\ DOMAIN fs = 1..Len(s.corpus)
  BY FeaturesOfTyped
<1>2. Len(fs) \in Nat /\ DOMAIN fs = 1..Len(fs) OBVIOUS
<1>3. a <= b => Chosen(s, policy, a, k) \subseteq Chosen(s, policy, b, k)
  BY <1>1, <1>2, SelectionGrows DEF Chosen
<1>4. Chosen(s, policy, 4, k) = 1..Len(s.corpus)
  <2>1. \A i \in DOMAIN fs : Rank(s.seeds[k], i, policy) \in Int BY <1>1, StudyTyped
  <2> QED BY <1>1, <2>1, FullSelectsAll DEF Chosen
<1>5. FullSet(s) \subseteq 1..Len(s.corpus) BY StudyTyped DEF FullSet
<1> QED BY <1>3, <1>4, <1>5

\* The hits of a cell at a budget, and those at a larger one.
LEMMA HitsGrow ==
  ASSUME NEW s \in Studies, Det(s), NEW policy \in Policies, NEW a \in 0..4, NEW b \in 0..4,
         a <= b
  PROVE  SumFunction([k \in 1..Len(s.seeds) |->
           Cardinality(FullSet(s) \cap Chosen(s, policy, a, k))])
         <= SumFunction([k \in 1..Len(s.seeds) |->
              Cardinality(FullSet(s) \cap Chosen(s, policy, b, k))])
<1>1. PICK D : D = 1..Len(s.seeds) OBVIOUS
<1>2. IsFiniteSet(D)
  <2>1. PICK m \in Nat : m = Len(s.seeds) BY StudyTyped
  <2>2. m \in Int /\ 1 \in Int OBVIOUS
  <2> QED BY <1>1, <2>1, <2>2, FS_Interval
<1>3. IsFiniteSet(FullSet(s))
  <2>1. PICK n \in Nat : n = Len(s.corpus) BY StudyTyped
  <2>2. n \in Int /\ 1 \in Int OBVIOUS
  <2>3. IsFiniteSet(1..n) BY <2>2, FS_Interval
  <2>4. FullSet(s) \subseteq 1..n BY <2>1, StudyTyped DEF FullSet
  <2> QED BY <2>3, <2>4, FS_Subset
<1>4. PICK x, y : /\ x = [k \in D |-> Cardinality(FullSet(s) \cap Chosen(s, policy, a, k))]
                  /\ y = [k \in D |-> Cardinality(FullSet(s) \cap Chosen(s, policy, b, k))]
  OBVIOUS
<1>5. ASSUME NEW k \in D
      PROVE  /\ Cardinality(FullSet(s) \cap Chosen(s, policy, a, k)) \in Int
             /\ Cardinality(FullSet(s) \cap Chosen(s, policy, b, k)) \in Int
             /\ Cardinality(FullSet(s) \cap Chosen(s, policy, a, k))
                  <= Cardinality(FullSet(s) \cap Chosen(s, policy, b, k))
  <2>1. PICK u, v : /\ u = FullSet(s) \cap Chosen(s, policy, a, k)
                    /\ v = FullSet(s) \cap Chosen(s, policy, b, k)
    OBVIOUS
  <2>2. Chosen(s, policy, a, k) \subseteq Chosen(s, policy, b, k) BY <1>1, <1>5, ChosenGrows
  <2>3. u \subseteq v /\ v \subseteq FullSet(s) BY <2>1, <2>2
  <2>4. IsFiniteSet(v) BY <1>3, <2>3, FS_Subset
  <2>5. Cardinality(u) <= Cardinality(v) /\ IsFiniteSet(u) BY <2>3, <2>4, FS_Subset
  <2>6. Cardinality(u) \in Nat /\ Cardinality(v) \in Nat BY <2>4, <2>5, FS_CardinalityType
  <2> QED BY <2>1, <2>5, <2>6
<1>6. x \in [D -> Int] /\ y \in [D -> Int] BY <1>4, <1>5
<1>7. \A k \in D : x[k] <= y[k] BY <1>4, <1>5
<1>8. SumFunction(x) <= SumFunction(y) BY <1>2, <1>6, <1>7, SumsOrdered
<1> QED BY <1>1, <1>4, <1>8

\* The property follows from the invariant.
LEMMA StudyMisses == ASSUME StudyInv PROVE MissesAreSkips
<1>1. report # <<>> => report.negative \cap report.affected = {} BY DEF StudyInv
<1>2. CASE cells = <<>>
  <2>1. DOMAIN cells = {} BY <1>2
  <2> QED BY <1>1, <2>1 DEF MissesAreSkips
<1>3. CASE cells # <<>>
  <2>1. /\ stage # "none" /\ study \in Studies /\ cells \in Seq(Results(study))
        /\ \A n \in 1..Len(cells) : ResultFits(study, full, cells[n])
        /\ Det(study) => full = FullSet(study)
    BY <1>3 DEF StudyInv
  <2>2. DOMAIN cells = 1..Len(cells) BY <2>1
  <2>3. Reproducible <=> Det(study) BY DEF Reproducible, Det
  <2>4. ASSUME NEW n \in DOMAIN cells
        PROVE  /\ cells[n].policy \in Policies /\ cells[n].quarters \in 0..4
               /\ cells[n].hits + cells[n].skips = Cardinality(full) * Len(study.seeds)
               /\ cells[n].hits \in Int /\ cells[n].skips \in Int
    <3>1. cells[n] \in Results(study) BY <2>1, <2>2
    <3> QED BY <2>1, <2>2, <3>1 DEF Results, ResultFits
  <2>5. ASSUME Det(study), NEW n \in DOMAIN cells
        PROVE  /\ cells[n].selected = UNION {Chosen(study, cells[n].policy, cells[n].quarters, k) :
                                               k \in 1..Len(study.seeds)}
               /\ cells[n].missed = FullSet(study) \ cells[n].selected
               /\ cells[n].hits = SumFunction([k \in 1..Len(study.seeds) |->
                    Cardinality(FullSet(study) \cap Chosen(study, cells[n].policy, cells[n].quarters, k))])
               /\ cells[n].skips = SumFunction([k \in 1..Len(study.seeds) |->
                    Cardinality(FullSet(study) \ Chosen(study, cells[n].policy, cells[n].quarters, k))])
    <3>1. ResultFits(study, full, cells[n]) BY <2>1, <2>2
    <3> QED BY <2>5, <3>1, Zenon DEF ResultFits
  <2>6. ASSUME Det(study), NEW n \in DOMAIN cells, cells[n].quarters = 4
        PROVE  cells[n].missed = {} /\ cells[n].skips = 0
    <3>1. PICK D : D = 1..Len(study.seeds) OBVIOUS
    <3>2. PICK m \in Nat \ {0} : m = Len(study.seeds) BY <2>1, StudyTyped
    <3>3. IsFiniteSet(D)
      <4>1. m \in Int /\ 1 \in Int OBVIOUS
      <4> QED BY <3>1, <3>2, <4>1, FS_Interval
    <3>4. PICK p : p = cells[n].policy /\ p \in Policies BY <2>4, <2>6
    <3>5. \A k \in D : FullSet(study) \subseteq Chosen(study, p, 4, k)
      BY <2>1, <2>6, <3>1, <3>4, ChosenGrows
    <3>6. cells[n].missed = {}
      <4>1. 1 \in D BY <3>1, <3>2
      <4>2. FullSet(study) \subseteq Chosen(study, p, 4, 1) BY <3>5, <4>1
      <4>3. /\ cells[n].selected = UNION {Chosen(study, p, 4, k) : k \in D}
            /\ cells[n].missed = FullSet(study) \ cells[n].selected
        <5>1. /\ cells[n].selected = UNION {Chosen(study, cells[n].policy, cells[n].quarters, k) :
                                               k \in 1..Len(study.seeds)}
              /\ cells[n].missed = FullSet(study) \ cells[n].selected
          BY <2>5, <2>6, Zenon
        <5>2. cells[n].policy = p /\ cells[n].quarters = 4 /\ 1..Len(study.seeds) = D
          BY <2>6, <3>1, <3>4
        <5> QED BY <5>1, <5>2, Zenon
      <4>4. FullSet(study) \subseteq UNION {Chosen(study, p, 4, k) : k \in D} BY <4>1, <4>2
      <4> QED BY <4>3, <4>4
    <3>7. \A k \in D : Cardinality(FullSet(study) \ Chosen(study, p, 4, k)) = 0
      <4>1. \A k \in D : FullSet(study) \ Chosen(study, p, 4, k) = {} BY <3>5
      <4>2. Cardinality({}) = 0 BY FS_EmptySet
      <4> QED BY <4>1, <4>2
    <3>8. PICK x : x = [k \in D |-> Cardinality(FullSet(study) \ Chosen(study, p, 4, k))] OBVIOUS
    <3>9. x = [k \in D |-> 0] BY <3>7, <3>8
    <3>10. SumFunction(x) = 0 BY <3>3, <3>9, SumOfZeros
    <3>11. cells[n].skips = SumFunction(x) BY <2>5, <2>6, <3>1, <3>4, <3>8
    <3> QED BY <3>6, <3>10, <3>11
  <2>7. ASSUME Det(study), NEW n \in DOMAIN cells, NEW m \in DOMAIN cells,
               cells[m].policy = cells[n].policy, cells[m].quarters >= cells[n].quarters
        PROVE  cells[m].missed \subseteq cells[n].missed /\ cells[m].hits >= cells[n].hits
    <3>1. PICK p, a, b : p = cells[n].policy /\ a = cells[n].quarters /\ b = cells[m].quarters
      OBVIOUS
    <3>2. p \in Policies /\ a \in 0..4 /\ b \in 0..4 /\ a <= b BY <2>4, <2>7, <3>1
    <3>3. \A k \in 1..Len(study.seeds) : Chosen(study, p, a, k) \subseteq Chosen(study, p, b, k)
      BY <2>1, <2>7, <3>2, ChosenGrows
    <3>4. /\ cells[n].selected = UNION {Chosen(study, p, a, k) : k \in 1..Len(study.seeds)}
          /\ cells[m].selected = UNION {Chosen(study, p, b, k) : k \in 1..Len(study.seeds)}
          /\ cells[n].missed = FullSet(study) \ cells[n].selected
          /\ cells[m].missed = FullSet(study) \ cells[m].selected
      <4>1. /\ cells[n].selected = UNION {Chosen(study, cells[n].policy, cells[n].quarters, k) :
                                             k \in 1..Len(study.seeds)}
            /\ cells[n].missed = FullSet(study) \ cells[n].selected
        BY <2>5, <2>7, Zenon
      <4>2. /\ cells[m].selected = UNION {Chosen(study, cells[m].policy, cells[m].quarters, k) :
                                             k \in 1..Len(study.seeds)}
            /\ cells[m].missed = FullSet(study) \ cells[m].selected
        BY <2>5, <2>7, Zenon
      <4>3. cells[m].policy = p BY <2>7, <3>1
      <4>4. cells[n].selected = UNION {Chosen(study, p, a, k) : k \in 1..Len(study.seeds)}
        BY <3>1, <4>1, Zenon
      <4>5. cells[m].selected = UNION {Chosen(study, p, b, k) : k \in 1..Len(study.seeds)}
        BY <3>1, <4>2, <4>3, Zenon
      <4> QED BY <4>1, <4>2, <4>4, <4>5
    <3>5. cells[n].selected \subseteq cells[m].selected BY <3>3, <3>4
    <3>6. PICK h, g : /\ h = SumFunction([k \in 1..Len(study.seeds) |->
                                Cardinality(FullSet(study) \cap Chosen(study, p, a, k))])
                      /\ g = SumFunction([k \in 1..Len(study.seeds) |->
                                Cardinality(FullSet(study) \cap Chosen(study, p, b, k))])
      OBVIOUS
    <3>7. h <= g BY <2>1, <2>7, <3>2, <3>6, HitsGrow
    <3>8. cells[n].hits = h
      <4>1. cells[n].hits = SumFunction([k \in 1..Len(study.seeds) |->
              Cardinality(FullSet(study) \cap
                Chosen(study, cells[n].policy, cells[n].quarters, k))])
        BY <2>5, <2>7, Zenon
      <4> QED BY <3>1, <3>6, <4>1, Zenon
    <3>9. cells[m].hits = g
      <4>1. cells[m].hits = SumFunction([k \in 1..Len(study.seeds) |->
              Cardinality(FullSet(study) \cap
                Chosen(study, cells[m].policy, cells[m].quarters, k))])
        BY <2>5, <2>7, Zenon
      <4>2. cells[m].policy = p /\ cells[m].quarters = b BY <2>7, <3>1
      <4> QED BY <3>6, <4>1, <4>2, Zenon
    <3>10. cells[n].hits \in Int /\ cells[m].hits \in Int BY <2>4, <2>7
    <3> QED BY <3>4, <3>5, <3>7, <3>8, <3>9, <3>10
  <2>8. Det(study) => \A n \in DOMAIN cells : cells[n].missed = full \ cells[n].selected
    BY <2>1, <2>5
  <2> QED BY <1>1, <2>3, <2>4, <2>6, <2>7, <2>8 DEF MissesAreSkips
<1> QED BY <1>2, <1>3

\* Every reachable state of a study, of a corpus of disagreements or of a
\* candidate stack: how far the harness is, what each seed and each cell holds
\* (run_shadow_harness, run_sampling_study).
THEOREM StudyInvariant == ResearchSpec => []StudyInv
<1>1. ResearchInit => StudyInv BY StudyBegins DEF ResearchInit
<1>2. StudyInv /\ [ResearchNext]_researchVars => StudyInv'
  <2>1. [ResearchNext]_researchVars => [StudyStep]_studyVars
    BY DEF ResearchNext, researchVars, studyVars
  <2> QED BY <2>1, StudyKeeps
<1> QED BY <1>1, <1>2, PTL DEF ResearchSpec

\* What a budget misses it did not look at: over every seed hits and skips are
\* all of the baseline; without limits of time the missed ids are those that no
\* seed selected, the full budget misses none, and a larger budget of the same
\* policy misses none that a smaller one found; and no family is affected and
\* also a negative result (run_sampling_study, summarize_by_family).
THEOREM MissedIsUnlooked == ResearchSpec => []MissesAreSkips
<1>1. StudyInv => MissesAreSkips BY StudyMisses
<1> QED BY <1>1, StudyInvariant, PTL
=============================================================================
