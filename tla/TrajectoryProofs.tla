--------------------------- MODULE TrajectoryProofs ---------------------------
(***************************************************************************)
(* What the minimum-jerk trajectory of TargetMotion is, for every duration *)
(* and every pair of positions: a sequence of positions that ends at the   *)
(* goal and never turns back on the way.                                   *)
(*                                                                         *)
(* The polynomial is compared with d^5 and with itself by the provers'     *)
(* arithmetic; the rounding to positions is handled through the bounds     *)
(* that characterise \div.                                                 *)
(***************************************************************************)
EXTENDS TargetMotion, SequenceTheorems, TLAPS

-----------------------------------------------------------------------------
(* Division.                                                               *)

LEMMA DivBounds ==
  ASSUME NEW x \in Int, NEW d \in Nat \ {0}
  PROVE  x \div d \in Int /\ d * (x \div d) <= x /\ x < d * (x \div d) + d
OBVIOUS

LEMMA DivRises ==
  ASSUME NEW x \in Int, NEW y \in Int, NEW d \in Nat \ {0}, x <= y
  PROVE  x \div d <= y \div d
<1> DEFINE p == x \div d
           q == y \div d
<1>1. /\ p \in Int /\ d * p <= x /\ x < d * p + d
      /\ q \in Int /\ d * q <= y /\ y < d * q + d
  BY DivBounds
<1> HIDE DEF p, q
<1>2. d * p < d * q + d
  BY <1>1
<1>3. p < q + 1
  BY <1>1, <1>2
<1> QED BY <1>1, <1>3 DEF p, q

LEMMA DivExact ==
  ASSUME NEW g \in Int, NEW d \in Nat \ {0}
  PROVE  (g * d) \div d = g
<1> DEFINE q == (g * d) \div d
<1>1. g * d \in Int
  OBVIOUS
<1>2. q \in Int /\ d * q <= g * d /\ g * d < d * q + d
  BY <1>1, DivBounds
<1> HIDE DEF q
<1>3. q <= g /\ g < q + 1
  BY <1>2
<1> QED BY <1>2, <1>3 DEF q

-----------------------------------------------------------------------------
(* The polynomial.                                                         *)

LEMMA FifthPositive ==
  ASSUME NEW d \in Nat \ {0}
  PROVE  FifthPower(d) \in Nat \ {0}
BY DEF FifthPower

LEMMA JerkBounded ==
  ASSUME NEW t \in Nat, NEW d \in Nat, t <= d
  PROVE  MinimumJerk(t, d) \in 0 .. FifthPower(d)
<1>1. MinimumJerk(t, d) \in Int /\ FifthPower(d) \in Int
  BY DEF MinimumJerk, FifthPower
<1>2. MinimumJerk(t, d) >= 0
  <2>1. 10 * d * d - 15 * t * d + 6 * t * t >= 0
    OBVIOUS
  <2> QED BY <2>1 DEF MinimumJerk
<1>3. MinimumJerk(t, d) <= FifthPower(d)
  BY DEF MinimumJerk, FifthPower
<1> QED BY <1>1, <1>2, <1>3

LEMMA JerkRises ==
  ASSUME NEW s \in Nat, NEW t \in Nat, NEW d \in Nat, s <= t, t <= d
  PROVE  MinimumJerk(s, d) <= MinimumJerk(t, d)
BY DEF MinimumJerk

\* A sample lies between the start and the goal.
LEMMA BlendBetween ==
  ASSUME NEW a \in Int, NEW b \in Int, NEW t \in Nat, NEW d \in Nat \ {0}, t <= d
  PROVE  /\ Blend(a, b, t, d) \in Int
         /\ a <= b => a <= Blend(a, b, t, d) /\ Blend(a, b, t, d) <= b
         /\ b <= a => b <= Blend(a, b, t, d) /\ Blend(a, b, t, d) <= a
<1> DEFINE D == FifthPower(d)
           J == MinimumJerk(t, d)
           g == b - a
<1>1. D \in Nat \ {0} /\ J \in Nat /\ J <= D /\ g \in Int
  <2>1. D \in Nat \ {0}
    BY FifthPositive
  <2>2. J \in 0 .. D
    BY JerkBounded
  <2> HIDE DEF D, J
  <2> QED BY <2>1, <2>2
<1>2. Blend(a, b, t, d) = a + (g * J) \div D
  BY DEF Blend
<1> HIDE DEF D, J
<1>3. g * J \in Int /\ g * D \in Int /\ 0 * D = 0 /\ 0 \in Int
  BY <1>1
<1>4. (g * J) \div D \in Int
  BY <1>1, <1>3, DivBounds
<1>5. (g * D) \div D = g /\ 0 \div D = 0
  BY <1>1, <1>3, DivExact
<1>6. ASSUME a <= b PROVE 0 <= (g * J) \div D /\ (g * J) \div D <= g
  <2>1. 0 <= g * J /\ g * J <= g * D
    BY <1>1, <1>6
  <2> QED BY <2>1, <1>1, <1>3, <1>5, DivRises
<1>7. ASSUME b <= a PROVE g <= (g * J) \div D /\ (g * J) \div D <= 0
  <2>1. g * J <= 0 /\ g * D <= g * J
    BY <1>1, <1>7
  <2> QED BY <2>1, <1>1, <1>3, <1>5, DivRises
<1> HIDE DEF g
<1>8. g = b - a
  BY DEF g
<1> QED BY <1>2, <1>4, <1>6, <1>7, <1>8

\* Later samples are nearer to the goal.
LEMMA BlendApproaches ==
  ASSUME NEW a \in Int, NEW b \in Int, NEW s \in Nat, NEW t \in Nat,
         NEW d \in Nat \ {0}, s <= t, t <= d
  PROVE  /\ a <= b => Blend(a, b, s, d) <= Blend(a, b, t, d)
         /\ b <= a => Blend(a, b, t, d) <= Blend(a, b, s, d)
<1> DEFINE D == FifthPower(d)
           I == MinimumJerk(s, d)
           J == MinimumJerk(t, d)
           g == b - a
<1>1. D \in Nat \ {0} /\ I \in Nat /\ J \in Nat /\ I <= J /\ g \in Int
  <2>1. D \in Nat \ {0}
    BY FifthPositive
  <2>2. I \in 0 .. D /\ J \in 0 .. D
    BY JerkBounded
  <2>3. I <= J
    BY JerkRises
  <2> HIDE DEF D, I, J
  <2> QED BY <2>1, <2>2, <2>3
<1>2. Blend(a, b, s, d) = a + (g * I) \div D /\ Blend(a, b, t, d) = a + (g * J) \div D
  BY DEF Blend
<1> HIDE DEF D, I, J
<1>3. g * I \in Int /\ g * J \in Int
  BY <1>1
<1>4. (g * I) \div D \in Int /\ (g * J) \div D \in Int
  BY <1>1, <1>3, DivBounds
<1>5. ASSUME a <= b PROVE (g * I) \div D <= (g * J) \div D
  <2>1. g * I <= g * J
    BY <1>1, <1>5
  <2> QED BY <2>1, <1>1, <1>3, DivRises
<1>6. ASSUME b <= a PROVE (g * J) \div D <= (g * I) \div D
  <2>1. g * J <= g * I
    BY <1>1, <1>6
  <2> QED BY <2>1, <1>1, <1>3, DivRises
<1> QED BY <1>2, <1>4, <1>5, <1>6

-----------------------------------------------------------------------------
(* The trajectory.                                                         *)

LEMMA SampleCountFact ==
  ASSUME NEW span \in Nat
  PROVE  SampleCount(span) \in Nat /\ SampleCount(span) >= 2
BY DEF SampleCount, HalfToEven

\* The part of CommandsApproachGoal that is about the commands alone.
NeverTurnsBack(c) ==
  \A k \in 1 .. Len(c) - 1 : Distance(c[Len(c)], c[k + 1]) <= Distance(c[Len(c)], c[k])

\* Whatever the start, the goal and the duration: the commands are positions, the last
\* one is the goal, and none is further from it than the one before
\* (generate_joint_trajectory, with its rounded sample count and its replaced last sample).
THEOREM TrajectoryApproachesGoal ==
  ASSUME NEW q \in Positions, NEW goal \in Positions, NEW span \in Nat \ {0}
  PROVE  LET c == Trajectory(q, goal, span)
         IN  /\ c \in Seq(Positions) /\ Len(c) >= 2
             /\ c[Len(c)] = goal
             /\ NeverTurnsBack(c)
<1> DEFINE n == SampleCount(span)
           time(k) == Lesser(2 * (k - 1), span)
           c == Trajectory(q, goal, span)
<1>1. n \in Nat /\ n >= 2
  BY SampleCountFact
<1>2. q \in Int /\ goal \in Int /\ (q .. goal) \cup (goal .. q) \subseteq Positions
  BY MotionAssumption
<1>3. \A k \in 1 .. n : time(k) \in Nat /\ time(k) <= span
  BY DEF Lesser
<1>4. \A k \in 1 .. n - 1 : time(k) <= time(k + 1)
  BY <1>1 DEF Lesser
<1>5. c = [k \in 1 .. n |-> IF k = n THEN goal ELSE Blend(q, goal, time(k), span)]
  BY DEF Trajectory
<1> HIDE DEF n, time, c
<1>6. \A k \in 1 .. n : c[k] \in Positions
  <2> SUFFICES ASSUME NEW k \in 1 .. n PROVE c[k] \in Positions
    OBVIOUS
  <2>1. c[k] = IF k = n THEN goal ELSE Blend(q, goal, time(k), span)
    BY <1>5
  <2>2. Blend(q, goal, time(k), span) \in (q .. goal) \cup (goal .. q)
    <3>1. PICK t \in Nat : t = time(k) /\ t <= span
      BY <1>3
    <3>2. /\ Blend(q, goal, t, span) \in Int
          /\ q <= goal => q <= Blend(q, goal, t, span) /\ Blend(q, goal, t, span) <= goal
          /\ goal <= q => goal <= Blend(q, goal, t, span) /\ Blend(q, goal, t, span) <= q
      BY <1>2, <3>1, BlendBetween
    <3> QED BY <1>2, <3>1, <3>2
  <2> QED BY <2>1, <2>2, <1>2
<1>7. c \in Seq(Positions) /\ Len(c) = n
  <2>1. c \in [1 .. n -> Positions]
    BY <1>5, <1>6
  <2>2. c \in Seq(Positions)
    BY <2>1, <1>1, SeqDef
  <2> QED BY <2>1, <2>2, <1>1, LenProperties
<1>8. c[n] = goal
  BY <1>1, <1>5
<1>9. ASSUME NEW k \in 1 .. n - 1
      PROVE  Distance(goal, c[k + 1]) <= Distance(goal, c[k])
  <2>1. k \in 1 .. n /\ k + 1 \in 1 .. n /\ k # n
    BY <1>1
  <2>2. c[k] = Blend(q, goal, time(k), span)
    BY <2>1, <1>5
  <2>3. c[k + 1] = IF k + 1 = n THEN goal ELSE Blend(q, goal, time(k + 1), span)
    BY <2>1, <1>5
  <2>4. time(k) \in Nat /\ time(k + 1) \in Nat /\ time(k) <= time(k + 1) /\ time(k + 1) <= span
    BY <2>1, <1>3, <1>4
  <2>5. /\ q <= goal => /\ c[k] <= c[k + 1] /\ c[k + 1] <= goal
        /\ goal <= q => /\ c[k + 1] <= c[k] /\ goal <= c[k + 1]
    <3>1. PICK s \in Nat, t \in Nat :
            s = time(k) /\ t = time(k + 1) /\ s <= t /\ t <= span
      BY <2>4
    <3>2. /\ q <= goal => Blend(q, goal, s, span) <= Blend(q, goal, t, span)
          /\ goal <= q => Blend(q, goal, t, span) <= Blend(q, goal, s, span)
      BY <1>2, <3>1, BlendApproaches
    <3>3. /\ q <= goal => Blend(q, goal, t, span) <= goal /\ Blend(q, goal, s, span) <= goal
          /\ goal <= q => goal <= Blend(q, goal, t, span) /\ goal <= Blend(q, goal, s, span)
      <4>1. s <= span
        BY <3>1
      <4> QED BY <1>2, <3>1, <4>1, BlendBetween
    <3> QED BY <2>2, <2>3, <3>1, <3>2, <3>3, <1>2
  <2>6. c[k] \in Int /\ c[k + 1] \in Int
    BY <2>1, <1>6, MotionAssumption
  <2> QED BY <2>5, <2>6, <1>2 DEF Distance
<1> QED BY <1>1, <1>7, <1>8, <1>9 DEF NeverTurnsBack, c

=============================================================================
