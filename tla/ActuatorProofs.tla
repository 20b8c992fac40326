--------------------------- MODULE ActuatorProofs ---------------------------
(***************************************************************************)
(* What the firmware drives.  The steps of the motors: rounding never      *)
(* accumulates, for every resolution, length and backlash, and a movement  *)
(* makes its steps and takes the time it should, for every set of motors,  *)
(* number of steps and feed rate (Stepping).  And the heater, for every    *)
(* set of targets: its state keeps its shape, the temperature interrupt is *)
(* never left off, a stop leaves the heater off, and M109 is answered ok   *)
(* only when the heater is hot enough (Heater).                            *)
(***************************************************************************)
EXTENDS Stepping, Heater, WellFoundedInduction, TLAPS


-----------------------------------------------------------------------------
(* From lengths to steps.                                                  *)

\* The side of the play: it is taken up towards direction, and it started on
\* the side that PlayBounded allows.
Side == play = 0 \/ play = direction * PlaySteps

Inv == FractionTypeOK /\ NoDrift /\ FractionBounded /\ PlayBounded /\ Side

(* Whole steps and remainder make up the total.                            *)
LEMMA Division ==
    ASSUME NEW total \in Int
    PROVE  /\ WholeSteps(total) \in Int
           /\ Remainder(total) \in Int
           /\ D * WholeSteps(total) + Remainder(total) = total
           /\ Remainder(total) < D
           /\ total > -D => Remainder(total) > -D
<1>1. D \in Nat \ {0} BY StepAssumption
<1>2. CASE total >= D
  <2>1. /\ total \div D \in Int
        /\ D * (total \div D) <= total
        /\ total < D * (total \div D) + D
    BY <1>1, <1>2, SMTT(30)
  <2> QED BY <1>1, <1>2, <2>1 DEF WholeSteps, Remainder
<1>3. CASE ~(total >= D)
  BY <1>1, <1>3 DEF WholeSteps, Remainder
<1> QED BY <1>2, <1>3

(* The play is a whole number of steps.                                    *)
LEMMA PlayIsWhole == PlaySteps \in Int
  BY StepAssumption, SMTT(30) DEF PlaySteps

(* What a movement does to the sums: the wanted position, the whole steps  *)
(* and the fraction change together.                                       *)
LEMMA MoveKeepsInv ==
    ASSUME Inv, NEW n \in LENGTHS, NEW d \in {-1, 1}, Move(n, d)
    PROVE  Inv'
<1> DEFINE total == Total(n, d)
           W == WholeSteps(total)
           turn == total >= D /\ direction # d
<1>1. /\ D \in Nat \ {0}
      /\ n \in Nat \ {0}
      /\ PlaySteps \in Int
  BY StepAssumption, PlayIsWhole
<1>2. /\ wanted \in Int /\ steps \in Int /\ play \in Int /\ remaining \in Int
      /\ pin \in {-1, 1} /\ direction \in {-1, 1}
      /\ remaining = motorsNumberOfRemainingSteps
  BY DEF Inv, FractionTypeOK, remaining
<1>3. total \in Int /\ total > -D
  BY <1>1, <1>2 DEF Inv, FractionBounded, Total
<1>4. /\ W \in Int
      /\ Remainder(total) \in Int
      /\ D * W + Remainder(total) = total
      /\ Remainder(total) < D
      /\ Remainder(total) > -D
  BY <1>3, Division
<1>5. /\ wanted' = wanted + d * n
      /\ pin' = d
      /\ remaining' = Remainder(total)
      /\ direction' = IF turn THEN d ELSE direction
      /\ play' = IF turn THEN play + d * PlaySteps ELSE play
      /\ steps' = steps + d * W + IF turn THEN d * PlaySteps ELSE 0
  BY DEF Move, remaining
<1> HIDE DEF W
<1>6. FractionTypeOK'
  BY <1>1, <1>2, <1>4, <1>5 DEF FractionTypeOK, remaining
<1>7. NoDrift'
  <2>1. steps' - play' = (steps - play) + d * W
    BY <1>1, <1>2, <1>4, <1>5
  <2>2. D * (steps' - play') = D * (steps - play) + d * (D * W)
    BY <1>1, <1>2, <1>4, <2>1
  <2>3. pin * remaining = d * (total - n)
    BY <1>1, <1>2 DEF Total
  <2>4. D * (steps - play) + pin * remaining = wanted
    BY DEF Inv, NoDrift
  <2>5. d * (D * W) + d * Remainder(total) = d * total
    BY <1>1, <1>3, <1>4
  <2>6. D * (steps - play) \in Int /\ D * W \in Int /\ D * (steps' - play') \in Int
    BY <1>1, <1>2, <1>4, <2>1
  <2>7. pin' * remaining' = d * Remainder(total)
    BY <1>5
  <2> HIDE DEF total
  <2>8. /\ d * (total - n) = d * total - d * n
        /\ d * (D * W) \in Int /\ d * Remainder(total) \in Int
        /\ d * total \in Int /\ d * n \in Int
    BY <1>1, <1>3, <1>4, <2>6
  <2>9. D * (steps' - play') + pin' * remaining' = wanted'
    BY <1>2, <1>5, <2>2, <2>3, <2>4, <2>5, <2>6, <2>7, <2>8
  <2> QED BY <2>9 DEF NoDrift
<1>8. FractionBounded'
  BY <1>1, <1>4, <1>5 DEF FractionBounded
<1>9. Side' /\ PlayBounded'
  <2>1. PlaySteps' = PlaySteps
    BY DEF PlaySteps
  <2> HIDE DEF turn
  <2>2. CASE turn
    <3>1. direction = -d
      BY <1>2, <2>2 DEF turn
    <3> QED BY <1>1, <1>2, <1>5, <2>1, <2>2, <3>1 DEF Inv, Side, PlayBounded
  <2>3. CASE ~turn
    BY <1>1, <1>2, <1>5, <2>1, <2>3 DEF Inv, Side, PlayBounded
  <2> QED BY <2>2, <2>3
<1> QED BY <1>6, <1>7, <1>8, <1>9 DEF Inv

(* The conjunction of the properties and the side of the play is           *)
(* inductive.                                                              *)
LEMMA Inductive == FractionSpec => []Inv
<1>1. FractionInit => Inv
  BY StepAssumption, PlayIsWhole
  DEF FractionInit, Inv, FractionTypeOK, NoDrift, FractionBounded, PlayBounded, Side, remaining
<1>2. Inv /\ [FractionNext]_fractionVars => Inv'
  <2> SUFFICES ASSUME Inv, [FractionNext]_fractionVars PROVE Inv'
    OBVIOUS
  <2>1. CASE FractionNext
    <3>1. ASSUME NEW n \in LENGTHS, NEW d \in {-1, 1}, Move(n, d) PROVE Inv'
      BY <3>1, MoveKeepsInv
    <3>2. ASSUME NEW d \in {-1, 1}, Home(d) PROVE Inv'
      BY <3>2, StepAssumption, PlayIsWhole
      DEF Home, Inv, FractionTypeOK, NoDrift, FractionBounded, PlayBounded, Side, remaining, PlaySteps
    <3> QED BY <2>1, <3>1, <3>2 DEF FractionNext
  <2>2. CASE UNCHANGED fractionVars
    BY <2>2 DEF fractionVars, Inv, FractionTypeOK, NoDrift, FractionBounded, PlayBounded, Side, remaining, PlaySteps
  <2> QED BY <2>1, <2>2
<1> QED BY <1>1, <1>2, PTL DEF FractionSpec

(* Rounding errors do not accumulate: after any number of movements the    *)
(* steps that move() made and the fraction it carries add up to the        *)
(* position wanted.                                                        *)
THEOREM NeverDrifts == FractionSpec => []NoDrift
<1>1. Inv => NoDrift BY DEF Inv
<1> QED BY <1>1, Inductive, PTL

(* The motor is always less than one step from where it is wanted.         *)
THEOREM AlwaysWithinOneStep == FractionSpec => []WithinOneStep
<1>1. Inv => WithinOneStep
  <2> SUFFICES ASSUME Inv PROVE WithinOneStep OBVIOUS
  <2>1. /\ pin \in {-1, 1} /\ remaining \in Int /\ wanted \in Int /\ D \in Int
        /\ D * (steps - play) + pin * remaining = wanted /\ D * (steps - play) \in Int
        /\ -D < remaining /\ remaining < D
    BY StepAssumption DEF Inv, FractionTypeOK, NoDrift, FractionBounded, remaining
  <2>2. CASE pin = 1 BY <2>1, <2>2 DEF WithinOneStep
  <2>3. CASE pin = -1 BY <2>1, <2>3 DEF WithinOneStep
  <2> QED BY <2>1, <2>2, <2>3
<1> QED BY <1>1, Inductive, PTL

(* compensateForBacklash() moves to and fro between two sides of one       *)
(* backlash.                                                               *)
THEOREM PlayStaysBounded == FractionSpec => []PlayBounded
<1>1. Inv => PlayBounded BY DEF Inv
<1> QED BY <1>1, Inductive, PTL

-----------------------------------------------------------------------------
(* One movement: the steps of each motor are counted down to none.         *)

CountsTyped ==
    /\ asked \in [MOTORS -> Nat] /\ pulses \in [MOTORS -> Nat]
    /\ motorsNumberOfSteps \in [MOTORS -> Nat]

\* Only while the timer runs does a motor count as moving, and then it has
\* steps left of those it was asked for.
MovingHasSteps ==
    \A m \in MOTORS : motorsIsMoving[m] => timer /\ asked[m] > 0 /\ motorsNumberOfSteps[m] > 0

StepsInv == CountsTyped /\ MovingHasSteps /\ StepsAccountedFor

\* A movement begins with no motor moving, and each of them gets its steps.
LEMMA MoveCounts ==
    ASSUME StepsInv, ~timer, NEW n \in Movements, NEW feed, MoveMotors(n, feed), SteppingAssumption
    PROVE  StepsInv'
<1>1. /\ n \in [MOTORS -> Nat] /\ asked' = n /\ pulses' = [m \in MOTORS |-> 0] /\ timer' = TRUE
      /\ motorsIsMoving' = [m \in MOTORS |-> n[m] >= 1 \/ motorsIsMoving[m]]
      /\ motorsNumberOfSteps' = [m \in MOTORS |-> IF n[m] >= 1 THEN n[m] ELSE motorsNumberOfSteps[m]]
  <2>1. n \in [MOTORS -> Nat]
    BY DEF Movements, SteppingAssumption
  <2>2. /\ asked' = n /\ pulses' = [m \in MOTORS |-> 0] /\ timer' = TRUE
        /\ motorsIsMoving' = [m \in MOTORS |-> n[m] >= 1 \/ motorsIsMoving[m]]
        /\ motorsNumberOfSteps' = [m \in MOTORS |-> IF n[m] >= 1 THEN n[m] ELSE motorsNumberOfSteps[m]]
    BY DEF MoveMotors, Zero
  <2> QED
    BY <2>1, <2>2
<1>2. \A m \in MOTORS : ~motorsIsMoving[m]
  BY DEF StepsInv, MovingHasSteps
<1>3. CountsTyped'
  BY <1>1 DEF StepsInv, CountsTyped
<1>4. MovingHasSteps'
  <2> SUFFICES ASSUME NEW m \in MOTORS, motorsIsMoving'[m]
               PROVE  timer' /\ asked'[m] > 0 /\ motorsNumberOfSteps'[m] > 0
    BY DEF MovingHasSteps
  <2>1. n[m] \in Nat /\ n[m] >= 1
    BY <1>1, <1>2
  <2>2. timer' /\ asked'[m] = n[m] /\ motorsNumberOfSteps'[m] = n[m]
    BY <1>1, <2>1
  <2> QED
    BY <2>1, <2>2
<1>5. StepsAccountedFor'
  <2> SUFFICES ASSUME NEW m \in MOTORS
               PROVE  /\ asked'[m] > 0 => pulses'[m] + motorsNumberOfSteps'[m] = asked'[m]
                      /\ pulses'[m] = 0
    BY DEF StepsAccountedFor
  <2>1. n[m] \in Nat /\ asked'[m] = n[m] /\ pulses'[m] = 0
    BY <1>1
  <2>2. n[m] >= 1 => motorsNumberOfSteps'[m] = n[m]
    BY <1>1
  <2> QED
    BY <2>1, <2>2
<1> QED
  BY <1>3, <1>4, <1>5 DEF StepsInv

\* The interrupt moves a step from those left to those made, of moving motors.
LEMMA InterruptCounts ==
    ASSUME StepsInv, StepInterrupt
    PROVE  StepsInv'
<1> DEFINE stepping == {m \in SteppingMotors : Steps(m)}
           last == {m \in stepping : motorsNumberOfSteps[m] = 1}
<1>1. /\ timer /\ timer' = timer /\ asked' = asked
      /\ motorsNumberOfSteps' = [m \in MOTORS |-> IF m \in stepping THEN motorsNumberOfSteps[m] - 1
                                                  ELSE motorsNumberOfSteps[m]]
      /\ motorsIsMoving' = [m \in MOTORS |-> motorsIsMoving[m] /\ m \notin last]
      /\ pulses' = [m \in MOTORS |-> IF m \in stepping THEN pulses[m] + 1 ELSE pulses[m]]
  BY DEF StepInterrupt
<1>2. \A m \in stepping : motorsIsMoving[m] /\ m \in MOTORS
  BY DEF SteppingMotors
<1> HIDE DEF stepping
<1>3. ASSUME NEW m \in MOTORS
      PROVE  /\ asked[m] \in Nat /\ pulses[m] \in Nat /\ motorsNumberOfSteps[m] \in Nat
             /\ m \in stepping => motorsNumberOfSteps[m] > 0 /\ asked[m] > 0
  BY <1>2 DEF StepsInv, CountsTyped, MovingHasSteps
<1>4. ASSUME NEW m \in MOTORS
      PROVE  /\ pulses'[m] \in Nat /\ motorsNumberOfSteps'[m] \in Nat
             /\ pulses'[m] + motorsNumberOfSteps'[m] = pulses[m] + motorsNumberOfSteps[m]
             /\ m \notin stepping => pulses'[m] = pulses[m]
  <2>1. CASE m \in stepping
    <3>1. pulses'[m] = pulses[m] + 1 /\ motorsNumberOfSteps'[m] = motorsNumberOfSteps[m] - 1
      BY <1>1, <2>1
    <3> QED
      BY <1>3, <2>1, <3>1
  <2>2. CASE m \notin stepping
    <3>1. pulses'[m] = pulses[m] /\ motorsNumberOfSteps'[m] = motorsNumberOfSteps[m]
      BY <1>1, <2>2
    <3> QED
      BY <1>3, <2>2, <3>1
  <2> QED
    BY <2>1, <2>2
<1>5. CountsTyped'
  BY <1>1, <1>4 DEF StepsInv, CountsTyped
<1>6. MovingHasSteps'
  <2> SUFFICES ASSUME NEW m \in MOTORS, motorsIsMoving'[m]
               PROVE  timer' /\ asked'[m] > 0 /\ motorsNumberOfSteps'[m] > 0
    BY DEF MovingHasSteps
  <2>1. motorsIsMoving[m] /\ m \notin last
    BY <1>1
  <2>2. asked[m] > 0 /\ motorsNumberOfSteps[m] > 0
    BY <2>1 DEF StepsInv, MovingHasSteps
  <2>3. motorsNumberOfSteps'[m] = motorsNumberOfSteps[m] \/ motorsNumberOfSteps[m] # 1
    BY <1>1, <2>1
  <2>4. motorsNumberOfSteps'[m] \in {motorsNumberOfSteps[m], motorsNumberOfSteps[m] - 1}
    BY <1>1
  <2> QED
    BY <1>1, <1>3, <2>2, <2>3, <2>4
<1>7. StepsAccountedFor'
  <2> SUFFICES ASSUME NEW m \in MOTORS
               PROVE  /\ asked[m] > 0 => pulses'[m] + motorsNumberOfSteps'[m] = asked[m]
                      /\ asked[m] = 0 => pulses'[m] = 0
    BY <1>1 DEF StepsAccountedFor
  <2>1. /\ asked[m] > 0 => pulses[m] + motorsNumberOfSteps[m] = asked[m]
        /\ asked[m] = 0 => pulses[m] = 0
    BY <1>1 DEF StepsInv, StepsAccountedFor
  <2>2. asked[m] = 0 => m \notin stepping
    BY <1>3
  <2> QED
    BY <1>4, <2>1, <2>2
<1> QED
  BY <1>5, <1>6, <1>7 DEF StepsInv

\* Integer division.
LEMMA DivisionFacts ==
    ASSUME NEW a \in Nat, NEW b \in Nat \ {0}
    PROVE  a \div b \in Nat /\ b * (a \div b) <= a /\ a < b * (a \div b) + b
  BY SMTT(30)

LEMMA Monotone ==
    ASSUME NEW k \in Nat, NEW a \in Int, NEW b \in Int, a <= b
    PROVE  k * a <= k * b
  OBVIOUS

LEMMA Cancels ==
    ASSUME NEW k \in Nat \ {0}, NEW a \in Int, NEW b \in Int, k * a <= k * b
    PROVE  a <= b
<1> SUFFICES ASSUME b + 1 <= a PROVE FALSE
  OBVIOUS
<1>1. k * (b + 1) <= k * a
  BY Monotone
<1>2. k * (b + 1) = k * b + k
  OBVIOUS
<1>3. k * a \in Int /\ k * b \in Int
  OBVIOUS
<1> QED
  BY <1>1, <1>2, <1>3

\* The greater of two numbers.
LEMMA MaxOfTwo ==
    ASSUME NEW a \in Int, NEW b \in Int
    PROVE  Max({a, b}) = IF a >= b THEN a ELSE b
<1> DEFINE g == IF a >= b THEN a ELSE b
<1>1. g \in {a, b} /\ \A y \in {a, b} : g >= y
  OBVIOUS
<1>2. ASSUME NEW x \in {a, b}, \A y \in {a, b} : x >= y PROVE x = g
  BY <1>2
<1> HIDE DEF g
<1>3. Max({a, b}) = g
  BY <1>1, <1>2 DEF Max
<1> QED
  BY <1>3 DEF g

\* A product of steps and delay, p, with skips so often that k of them fit
\* the whole time: the sum that the interrupt makes is within the feed rate.
LEMMA SlowedWithin ==
    ASSUME NEW p \in Nat \ {0}, NEW k \in Nat \ {0}, NEW sc \in 1 .. k, NEW e \in Nat,
           NEW c \in Nat, NEW unit \in Nat \ {0}, NEW den \in Nat \ {0},
           p * unit <= c, den = c - p * unit + unit, k * den <= p * unit,
           e * k = p * k + p - sc
    PROVE  c <= e * unit /\ e * unit < 2 * c + unit
<1> DEFINE pu == p * unit
           eu == e * unit
<1>0. pu \in Nat /\ eu \in Nat
  OBVIOUS
<1>1. c <= eu
  <2>1. (e * k) * unit = k * eu
    OBVIOUS
  <2>2. (p * k + p - sc) * unit = k * pu + pu - sc * unit
    OBVIOUS
  <2>3. sc * unit <= k * unit
    BY Monotone
  <2>4. k * (pu + den - unit) = k * pu + k * den - k * unit
    OBVIOUS
  <2>5. /\ k * eu \in Int /\ k * pu \in Int /\ sc * unit \in Int /\ k * unit \in Int /\ k * den \in Int
        /\ k * eu = k * pu + pu - sc * unit
    BY <2>1, <2>2
  <2> HIDE DEF pu, eu
  <2>6. k * (pu + den - unit) <= k * eu
    BY <1>0, <2>3, <2>4, <2>5 DEF pu
  <2>7. pu + den - unit = c
    BY <1>0 DEF pu
  <2> QED
    BY <1>0, <2>6, <2>7, Cancels
<1>2. e <= 2 * p - 1
  <2> SUFFICES ASSUME 2 * p <= e PROVE FALSE
    OBVIOUS
  <2>1. k * (2 * p) <= k * e
    BY Monotone
  <2>2. k * (2 * p) = p * k + p * k /\ k * e = e * k /\ p * k \in Int
    OBVIOUS
  <2>3. p * 1 <= p * k
    BY Monotone
  <2> QED
    BY <2>1, <2>2, <2>3
<1>3. eu <= unit * (2 * p - 1)
  BY <1>2, Monotone
<1>4. unit * (2 * p - 1) = 2 * pu - unit
  OBVIOUS
<1> HIDE DEF pu, eu
<1>5. c <= eu /\ eu < 2 * c + unit
  BY <1>0, <1>1, <1>3, <1>4 DEF pu
<1> QED
  BY <1>5 DEF eu

\* A delay of two periods where one is too short: at most one skip fits.
LEMMA DoubledWithin ==
    ASSUME NEW q \in Nat \ {0}, NEW k \in Nat \ {0}, NEW sc \in 1 .. k, NEW e \in Nat,
           NEW c \in Nat, NEW unit \in Nat \ {0}, NEW den \in Nat \ {0},
           c < q * unit, den = c - q * unit + unit, q * unit < den * k + den,
           e * k = q * k + q - sc
    PROVE  c <= e * unit /\ e * unit < 2 * c + unit
<1> DEFINE qu == q * unit
<1>0. qu \in Nat /\ q * k \in Nat /\ k * q = q * k /\ k * e = e * k
  OBVIOUS
<1>1. q <= k
  <2> SUFFICES ASSUME k + 1 <= q PROVE FALSE
    OBVIOUS
  <2>1. den * (k + 1) <= den * q
    BY Monotone
  <2>2. q * den <= q * unit
    BY <1>0, Monotone DEF qu
  <2>3. den * (k + 1) = den * k + den /\ den * q = q * den /\ den * k \in Int /\ den * q \in Int
    OBVIOUS
  <2> QED
    BY <1>0, <2>1, <2>2, <2>3
<1>2. e <= q
  <2> SUFFICES ASSUME q + 1 <= e PROVE FALSE
    OBVIOUS
  <2>1. k * (q + 1) <= k * e
    BY Monotone
  <2>2. k * (q + 1) = q * k + k
    OBVIOUS
  <2> QED
    BY <1>0, <1>1, <2>1, <2>2
<1>3. q <= e
  <2> SUFFICES ASSUME e <= q - 1 PROVE FALSE
    OBVIOUS
  <2>1. k * e <= k * (q - 1)
    BY Monotone
  <2>2. k * (q - 1) = q * k - k
    OBVIOUS
  <2> QED
    BY <1>0, <2>1, <2>2
<1>4. e = q
  BY <1>2, <1>3
<1> QED
  BY <1>0, <1>4 DEF qu

Less == {ss \in Nat \X Nat : ss[1] < ss[2]}

LEMMA LessWellFounded == IsWellFoundedOn(Less, Nat)
  BY NatLessThanWellFounded, Zenon DEF OpToRel, Less

\* A set of numbers below a bound has a greatest one, which Max is.
LEMMA MaxFacts ==
    ASSUME NEW bound \in Nat, NEW X \in SUBSET (0 .. bound), X # {}
    PROVE  Max(X) \in X /\ \A y \in X : Max(X) >= y
<1> DEFINE Gaps == {bound - x : x \in X}
<1>1. Gaps \subseteq Nat /\ Gaps # {}
  <2>1. \A x \in X : bound - x \in Nat
    OBVIOUS
  <2> QED
    BY <2>1
<1> HIDE DEF Gaps
<1>3. PICK g \in Gaps : \A h \in Gaps : <<h, g>> \notin Less
  BY <1>1, LessWellFounded, WFMin
<1>4. \A h \in Gaps : g <= h
  <2> SUFFICES ASSUME NEW h \in Gaps, ~(g <= h) PROVE FALSE
    OBVIOUS
  <2>1. h \in Nat /\ g \in Nat /\ h < g
    BY <1>1
  <2>2. <<h, g>> \in Less
    BY <2>1 DEF Less
  <2> QED
    BY <1>3, <2>2
<1>5. PICK x \in X : g = bound - x
  BY <1>3 DEF Gaps
<1>6. \A y \in X : x >= y
  <2> SUFFICES ASSUME NEW y \in X PROVE x >= y
    OBVIOUS
  <2>1. bound - y \in Gaps
    BY DEF Gaps
  <2>2. bound - x <= bound - y
    BY <1>4, <1>5, <2>1
  <2> QED
    BY <2>2
<1> QED
  BY <1>6 DEF Max

\* The skips that go with the delay of n steps in c parts of a period.
SkipsFor(n, c) == DelaySkips(n, StepDelay(n, c), c)

\* The time n steps take: a delay and skips make the interrupt's count e of
\* periods one that is within the feed rate.  sc is what motorsDelaySkipsCounter
\* ends with.
LEMMA Timing ==
    ASSUME SteppingAssumption, NEW n \in Nat \ {0}, NEW c \in Nat, n * DEN <= c
    PROVE  /\ StepDelay(n, c) \in Nat \ {0} /\ SkipsFor(n, c) \in Nat \ {0}
           /\ \A e \in Nat, sc \in 1 .. SkipsFor(n, c) :
                 e * SkipsFor(n, c) = (n * StepDelay(n, c)) * SkipsFor(n, c) + n * StepDelay(n, c) - sc
                    => c <= e * DEN /\ e * DEN < 2 * c + DEN
<1> DEFINE f == c \div (DEN * n)
           d == StepDelay(n, c)
           p == n * f
           q == n * d
           den == c - (q - 1) * DEN
           k == SkipsFor(n, c)
<1>1. DEN \in Nat \ {0}
  BY DEF SteppingAssumption
<1>2. DEN * n \in Nat \ {0} /\ DEN * n = n * DEN
  BY <1>1
<1>3. f \in Nat /\ (DEN * n) * f <= c /\ c < (DEN * n) * f + DEN * n
  BY <1>2, DivisionFacts
<1>4. (DEN * n) * f = p * DEN /\ p \in Nat
  BY <1>1, <1>3
<1> HIDE DEF f
<1>5. f >= 1
  <2> SUFFICES ASSUME f = 0 PROVE FALSE
    BY <1>3
  <2>1. p * DEN = 0
    BY <1>1
  <2> QED
    BY <1>2, <1>3, <1>4, <2>1
<1>6. p >= 1
  BY <1>3, <1>5, Monotone
<1>7. d = IF (2 * n * f - 1) * DEN < c THEN f + 1 ELSE f
  <2>1. Max({f, 1}) = f
    BY <1>3, <1>5, MaxOfTwo
  <2> QED
    BY <2>1 DEF StepDelay, f
<1>8. (2 * n * f - 1) * DEN = 2 * (p * DEN) - DEN
  BY <1>1, <1>3
<1>9. d \in Nat \ {0} /\ q \in Nat \ {0}
  <2>1. d \in Nat \ {0}
    BY <1>3, <1>5, <1>7
  <2> HIDE DEF d
  <2>2. n * d \in Nat /\ n * 1 <= n * d
    BY <2>1, Monotone
  <2> QED
    BY <2>1, <2>2
<1>10. k = IF den > 0 THEN (n * d * DEN) \div den ELSE 0
  BY DEF SkipsFor, DelaySkips
<1>11. den = c - q * DEN + DEN /\ n * d * DEN = q * DEN /\ q * DEN \in Nat /\ den \in Int
  <2> HIDE DEF q
  <2>1. (q - 1) * DEN = q * DEN - DEN /\ q * DEN \in Nat
    BY <1>1, <1>9
  <2> QED
    BY <1>1, <2>1 DEF q
<1> HIDE DEF k, den, d
<1>12. CASE ~((2 * n * f - 1) * DEN < c)
  <2>1. d = f /\ q = p
    BY <1>7, <1>12
  <2> HIDE DEF p, q
  <2>2. p * DEN \in Nat /\ p * DEN <= c /\ c <= 2 * (p * DEN) - DEN
    BY <1>1, <1>3, <1>4, <1>8, <1>12
  <2>3. den \in Nat \ {0} /\ den <= p * DEN
    BY <1>1, <1>11, <2>1, <2>2
  <2>4. k = (p * DEN) \div den
    BY <1>10, <1>11, <2>1, <2>3
  <2>5. k \in Nat /\ den * k <= p * DEN /\ p * DEN < den * k + den
    BY <2>2, <2>3, <2>4, DivisionFacts
  <2>6. k \in Nat \ {0}
    <3> SUFFICES ASSUME k = 0 PROVE FALSE
      BY <2>5
    <3>1. den * k = 0
      BY <2>3
    <3> QED
      BY <2>2, <2>3, <2>5, <3>1
  <2>7. ASSUME NEW e \in Nat, NEW sc \in 1 .. k, e * k = q * k + q - sc
        PROVE  c <= e * DEN /\ e * DEN < 2 * c + DEN
    <3>1. k * den <= p * DEN
      BY <2>3, <2>5
    <3>2. p \in Nat \ {0}
      BY <1>4, <1>6
    <3>3. den = c - p * DEN + DEN /\ e * k = p * k + p - sc
      BY <1>11, <2>1, <2>7
    <3> QED
      BY <1>1, <2>2, <2>3, <2>6, <3>1, <3>2, <3>3, SlowedWithin
  <2> QED
    BY <1>9, <2>6, <2>7 DEF k, d, q
<1>13. CASE (2 * n * f - 1) * DEN < c
  <2>1. f = 1
    <3> SUFFICES ASSUME f >= 2 PROVE FALSE
      BY <1>3, <1>5
    <3>1. n * 2 <= n * f
      BY <1>3, Monotone
    <3> HIDE DEF p
    <3>2. DEN * (n * 2) <= DEN * p
      BY <1>1, <1>4, <3>1, Monotone DEF p
    <3>3. DEN * (n * 2) = 2 * (DEN * n) /\ DEN * p = p * DEN /\ p * DEN \in Int
      BY <1>1, <1>4
    <3>4. DEN <= DEN * n
      BY <1>1, Monotone
    <3> QED
      BY <1>1, <1>2, <1>3, <1>4, <1>8, <1>13, <3>2, <3>3, <3>4
  <2>2. d = 2 /\ q = 2 * n /\ p = n
    BY <1>7, <1>13, <2>1
  <2>3. q * DEN = 2 * (DEN * n) /\ p * DEN = DEN * n
    BY <1>1, <2>2
  <2> HIDE DEF p, q
  <2>4. c < q * DEN /\ q * DEN - DEN < c
    BY <1>1, <1>2, <1>3, <1>4, <1>8, <1>13, <2>3
  <2>5. den \in Nat \ {0} /\ den < DEN
    BY <1>1, <1>11, <2>4
  <2>6. k = (q * DEN) \div den
    BY <1>10, <1>11, <2>5
  <2>7. k \in Nat /\ q * DEN < den * k + den
    BY <1>11, <2>5, <2>6, DivisionFacts
  <2>8. k \in Nat \ {0}
    <3> SUFFICES ASSUME k = 0 PROVE FALSE
      BY <2>7
    <3>1. den * k = 0 /\ 1 * DEN <= q * DEN
      BY <1>1, <1>9, <2>5, Monotone
    <3> QED
      BY <1>1, <1>11, <2>5, <2>7, <3>1
  <2>9. ASSUME NEW e \in Nat, NEW sc \in 1 .. k, e * k = q * k + q - sc
        PROVE  c <= e * DEN /\ e * DEN < 2 * c + DEN
    BY <1>1, <1>9, <1>11, <2>4, <2>5, <2>7, <2>8, <2>9, DoubledWithin
  <2> QED
    BY <1>9, <2>8, <2>9 DEF k, d, q
<1> QED
  BY <1>12, <1>13

-----------------------------------------------------------------------------
(* The time of a movement.  A moving motor has the delay and the skips of  *)
(* its steps, and the periods since the start are accounted for: those of  *)
(* the steps made and of the delay under way, and one for each skip.       *)

\* Periods in which a motor did not skip.
Counted(m) == pulses[m] * motorsStepDelay[m] + motorsStepDelayCounter[m]

PaceKept ==
    \A m \in MOTORS : motorsIsMoving[m] =>
       /\ asked[m] * DEN <= cycles
       /\ motorsStepDelay[m] = StepDelay(asked[m], cycles)
       /\ motorsDelaySkips[m] = SkipsFor(asked[m], cycles)
       /\ motorsStepDelayCounter[m] \in 0 .. motorsStepDelay[m] - 1
       /\ motorsDelaySkipsCounter[m] \in 0 .. motorsDelaySkips[m]
       /\ elapsed * motorsDelaySkips[m]
             = Counted(m) * motorsDelaySkips[m] + Counted(m) - motorsDelaySkipsCounter[m]

TimesInv ==
    /\ StepsInv /\ cycles \in Nat /\ elapsed \in Nat /\ PaceKept
    /\ FeedRateKept /\ TimeIsTheFormula

\* What the interrupt does to the account of one motor, N being its periods
\* without a skip: a skip, and a period that is none.
LEMMA ClockTick ==
    ASSUME NEW N \in Nat, NEW k \in Nat \ {0}, NEW sc \in 0 .. k, NEW e \in Nat,
           e * k = N * k + N - sc
    PROVE  /\ sc = k => (e + 1) * k = N * k + N - 0
           /\ (e + 1) * k = (N + 1) * k + (N + 1) - (sc + 1)
<1>1. (e + 1) * k = e * k + k /\ (N + 1) * k = N * k + k /\ e * k \in Int /\ N * k \in Int
  OBVIOUS
<1> QED
  BY <1>1

\* The quotient is the one number that fits.
LEMMA QuotientIs ==
    ASSUME NEW a \in Int, NEW b \in Nat \ {0}, NEW q \in Int, b * q <= a, a < b * q + b
    PROVE  a \div b = q
  BY SMTT(30)

\* The comment's formula for the account of a motor that has ended.
LEMMA Formula ==
    ASSUME NEW N \in Nat, NEW k \in Nat \ {0}, NEW sc \in 1 .. k, NEW e \in Nat,
           e * k = N * k + N - sc
    PROVE  Ceil(N * (k + 1) - k, k) = e
<1> DEFINE x == N * (k + 1) - k
<1>1. N * (k + 1) = N * k + N /\ N * k \in Int /\ k * (-e) = -(e * k) /\ e * k \in Int
  OBVIOUS
<1>2. x \in Int /\ x <= e * k /\ e * k < x + k
  BY <1>1
<1> HIDE DEF x
<1>3. k * (-e) <= -x /\ -x < k * (-e) + k
  BY <1>1, <1>2
<1>4. (-x) \div k = -e
  BY <1>2, <1>3, QuotientIs
<1> QED
  BY <1>4 DEF Ceil, x

\* The cycles of a movement are enough for every motor's steps.
LEMMA CyclesFacts ==
    ASSUME SteppingAssumption, NEW n \in Movements, NEW feed \in 1 .. DEN * MAX_CYCLES,
           MOTORS # {}
    PROVE  /\ getMovementsNumberOfCycles(n, feed) \in Nat
           /\ \A m \in MOTORS : n[m] * DEN <= getMovementsNumberOfCycles(n, feed)
<1> DEFINE X == {n[m] * DEN : m \in MOTORS}
           bound == MAX_STEPS * DEN
<1>1. DEN \in Nat \ {0} /\ MAX_STEPS \in Nat /\ MAX_CYCLES \in Nat
  BY DEF SteppingAssumption
<1>2. ASSUME NEW m \in MOTORS
      PROVE  n[m] * DEN \in 0 .. bound
  <2>1. n[m] \in 0 .. MAX_STEPS
    BY DEF Movements
  <2>2. DEN * n[m] <= DEN * MAX_STEPS
    BY <1>1, <2>1, Monotone
  <2> QED
    BY <1>1, <2>1, <2>2
<1>3. bound \in Nat /\ feed \in Nat
  BY <1>1
<1>4. X \subseteq 0 .. bound /\ X # {}
  <2> HIDE DEF bound
  <2> QED
    BY <1>2
<1>5. \A m \in MOTORS : n[m] * DEN \in X
  OBVIOUS
<1>6. getMovementsNumberOfCycles(n, feed) = Max({feed, Max(X)})
  BY DEF getMovementsNumberOfCycles
<1> HIDE DEF X, bound
<1>7. Max(X) \in X /\ \A y \in X : Max(X) >= y
  BY <1>3, <1>4, MaxFacts
<1>8. Max(X) \in Nat
  <2>1. Max(X) \in 0 .. bound
    BY <1>4, <1>7
  <2> QED
    BY <1>3, <2>1
<1>9. Max({feed, Max(X)}) = IF feed >= Max(X) THEN feed ELSE Max(X)
  BY <1>3, <1>8, MaxOfTwo
<1>10. ASSUME NEW m \in MOTORS
       PROVE  n[m] * DEN <= Max({feed, Max(X)})
  <2>1. n[m] * DEN \in Nat /\ Max(X) >= n[m] * DEN
    BY <1>2, <1>3, <1>5, <1>7
  <2> QED
    BY <1>3, <1>8, <1>9, <2>1
<1> QED
  BY <1>3, <1>6, <1>8, <1>9, <1>10

\* A movement sets the pace of its motors and starts the account.
LEMMA MoveTimes ==
    ASSUME SteppingAssumption, TimesInv, ~timer, NEW n \in Movements,
           NEW feed \in 1 .. DEN * MAX_CYCLES, MoveMotors(n, feed)
    PROVE  TimesInv'
<1> DEFINE c == getMovementsNumberOfCycles(n, feed)
<1>1. StepsInv'
  BY MoveCounts DEF TimesInv
<1>2. \A m \in MOTORS : ~motorsIsMoving[m]
  BY DEF TimesInv, StepsInv, MovingHasSteps
<1>3. /\ asked' = n /\ cycles' = c /\ elapsed' = 0 /\ pulses' = [m \in MOTORS |-> 0]
      /\ motorsIsMoving' = [m \in MOTORS |-> n[m] >= 1 \/ motorsIsMoving[m]]
  BY DEF MoveMotors, Zero
<1>4. ASSUME NEW m \in MOTORS, n[m] >= 1
      PROVE  /\ motorsStepDelay'[m] = StepDelay(n[m], c) /\ motorsDelaySkips'[m] = SkipsFor(n[m], c)
             /\ motorsStepDelayCounter'[m] = 0 /\ motorsDelaySkipsCounter'[m] = 0
  BY <1>4 DEF MoveMotors, SkipsFor
<1>5. ASSUME NEW m \in MOTORS
      PROVE  c \in Nat /\ n[m] \in Nat /\ n[m] * DEN <= c
  <2>1. n[m] \in 0 .. MAX_STEPS /\ MAX_STEPS \in Nat
    BY DEF Movements, SteppingAssumption
  <2> QED
    BY <2>1, CyclesFacts
<1> HIDE DEF c
<1>6. PaceKept'
  <2> SUFFICES ASSUME NEW m \in MOTORS, motorsIsMoving'[m]
               PROVE  /\ asked'[m] * DEN <= cycles'
                      /\ motorsStepDelay'[m] = StepDelay(asked'[m], cycles')
                      /\ motorsDelaySkips'[m] = SkipsFor(asked'[m], cycles')
                      /\ motorsStepDelayCounter'[m] \in 0 .. motorsStepDelay'[m] - 1
                      /\ motorsDelaySkipsCounter'[m] \in 0 .. motorsDelaySkips'[m]
                      /\ elapsed' * motorsDelaySkips'[m]
                           = Counted(m)' * motorsDelaySkips'[m] + Counted(m)' - motorsDelaySkipsCounter'[m]
    BY DEF PaceKept, SkipsFor, DelaySkips, StepDelay, Max
  <2>1. n[m] >= 1
    BY <1>2, <1>3
  <2>2. n[m] \in Nat \ {0} /\ c \in Nat /\ n[m] * DEN <= c
    BY <1>5, <2>1
  <2> DEFINE d == StepDelay(n[m], c)
             k == SkipsFor(n[m], c)
  <2>3. d \in Nat \ {0} /\ k \in Nat \ {0}
    BY <2>2, Timing
  <2>4. /\ motorsStepDelay'[m] = d /\ motorsDelaySkips'[m] = k /\ asked'[m] = n[m] /\ cycles' = c
        /\ motorsStepDelayCounter'[m] = 0 /\ motorsDelaySkipsCounter'[m] = 0 /\ pulses'[m] = 0
    BY <1>3, <1>4, <2>1
  <2> HIDE DEF d, k
  <2>5. Counted(m)' = 0
    <3>1. Counted(m)' = 0 * d + 0
      BY <2>4 DEF Counted
    <3> QED
      BY <2>3, <3>1
  <2>6. /\ motorsStepDelayCounter'[m] \in 0 .. motorsStepDelay'[m] - 1
        /\ motorsDelaySkipsCounter'[m] \in 0 .. motorsDelaySkips'[m]
        /\ elapsed' * motorsDelaySkips'[m]
             = Counted(m)' * motorsDelaySkips'[m] + Counted(m)' - motorsDelaySkipsCounter'[m]
    BY <1>3, <2>3, <2>4, <2>5
  <2> QED
    BY <2>2, <2>4, <2>6 DEF d, k
<1>7. FeedRateKept' /\ TimeIsTheFormula'
  <2>1. ASSUME NEW m \in MOTORS PROVE ~(asked'[m] > 0 /\ pulses'[m] = asked'[m])
    BY <1>3
  <2> QED
    BY <2>1 DEF FeedRateKept, TimeIsTheFormula, Ended
<1>8. cycles' \in Nat /\ elapsed' \in Nat
  <2>1. MOTORS # {}
    BY DEF SteppingAssumption
  <2> QED
    BY <1>3, <1>5, <2>1
<1> QED
  BY <1>1, <1>6, <1>7, <1>8 DEF TimesInv

\* The account of one motor over one interrupt.
LEMMA InterruptPace ==
    ASSUME SteppingAssumption, TimesInv, StepInterrupt, NEW m \in MOTORS, motorsIsMoving[m]
    PROVE  /\ UNCHANGED <<motorsStepDelay, motorsDelaySkips, asked, cycles>> /\ elapsed' = elapsed + 1
           /\ motorsStepDelay[m] \in Nat \ {0} /\ motorsDelaySkips[m] \in Nat \ {0}
           /\ motorsStepDelayCounter'[m] \in 0 .. motorsStepDelay[m] - 1
           /\ motorsDelaySkipsCounter'[m] \in 0 .. motorsDelaySkips[m]
           /\ elapsed' * motorsDelaySkips[m]
                 = Counted(m)' * motorsDelaySkips[m] + Counted(m)' - motorsDelaySkipsCounter'[m]
           /\ Steps(m) => /\ motorsStepDelayCounter'[m] = 0 /\ motorsDelaySkipsCounter'[m] >= 1
                            /\ pulses'[m] = pulses[m] + 1
           /\ ~Steps(m) => pulses'[m] = pulses[m]
<1> DEFINE d == motorsStepDelay[m]
           k == motorsDelaySkips[m]
           dc == motorsStepDelayCounter[m]
           sc == motorsDelaySkipsCounter[m]
           s == pulses[m]
<1>1. asked[m] \in Nat \ {0} /\ s \in Nat /\ elapsed \in Nat /\ cycles \in Nat
  BY DEF TimesInv, StepsInv, CountsTyped, MovingHasSteps
<1>2. /\ asked[m] * DEN <= cycles /\ d = StepDelay(asked[m], cycles) /\ k = SkipsFor(asked[m], cycles)
      /\ dc \in 0 .. d - 1 /\ sc \in 0 .. k
  BY DEF TimesInv, PaceKept
<1>3. d \in Nat \ {0} /\ k \in Nat \ {0}
  BY <1>1, <1>2, Timing
<1>4. UNCHANGED <<motorsStepDelay, motorsDelaySkips, asked, cycles>> /\ elapsed' = elapsed + 1
  BY DEF StepInterrupt, speeds
<1>5. /\ Skips(m) <=> sc >= k
      /\ Steps(m) <=> ~Skips(m) /\ dc + 1 >= d
  BY <1>3 DEF Skips, Steps
<1>6. /\ motorsDelaySkipsCounter'[m] = IF Skips(m) THEN 0 ELSE sc + 1
      /\ motorsStepDelayCounter'[m] = IF Skips(m) THEN dc ELSE IF Steps(m) THEN 0 ELSE dc + 1
      /\ pulses'[m] = IF Steps(m) THEN s + 1 ELSE s
  BY <1>3 DEF StepInterrupt, SteppingMotors
<1>7. Counted(m)' = pulses'[m] * d + motorsStepDelayCounter'[m]
  BY <1>4 DEF Counted
<1> DEFINE N == s * d + dc
<1>8. N \in Nat /\ elapsed * k = N * k + N - sc
  <2>1. Counted(m) = N /\ elapsed * k = Counted(m) * k + Counted(m) - sc
    BY DEF TimesInv, PaceKept, Counted
  <2> HIDE DEF d, k, dc, sc, s
  <2>2. N \in Nat
    BY <1>1, <1>2, <1>3
  <2> QED
    BY <2>1, <2>2
<1> HIDE DEF d, k, dc, sc, s
<1>9. /\ sc = k => (elapsed + 1) * k = N * k + N - 0
      /\ (elapsed + 1) * k = (N + 1) * k + (N + 1) - (sc + 1)
  <2> HIDE DEF N
  <2>1. elapsed \in Nat /\ sc \in 0 .. k
    BY <1>1, <1>2
  <2> QED
    BY <1>3, <1>8, <2>1, ClockTick
<1>10. CASE Skips(m)
  <2>1. sc = k /\ ~Steps(m)
    BY <1>2, <1>3, <1>5, <1>10
  <2>2. motorsDelaySkipsCounter'[m] = 0 /\ motorsStepDelayCounter'[m] = dc /\ pulses'[m] = s
    BY <1>6, <1>10, <2>1
  <2>3. motorsDelaySkipsCounter'[m] \in 0 .. k
    BY <1>3, <2>2
  <2>4. Counted(m)' = N
    BY <1>7, <2>2
  <2> HIDE DEF N
  <2> QED
    BY <1>2, <1>3, <1>4, <1>9, <2>1, <2>2, <2>3, <2>4 DEF d, k, s
<1>11. CASE ~Skips(m) /\ Steps(m)
  <2>1. sc + 1 \in 1 .. k /\ dc + 1 = d
    BY <1>2, <1>3, <1>5, <1>11
  <2>2. motorsDelaySkipsCounter'[m] = sc + 1 /\ motorsStepDelayCounter'[m] = 0 /\ pulses'[m] = s + 1
    BY <1>6, <1>11
  <2>3. Counted(m)' = N + 1
    <3>1. (s + 1) * d = s * d + d /\ s * d \in Int
      BY <1>1, <1>3
    <3> QED
      BY <1>2, <1>3, <1>7, <2>1, <2>2, <3>1
  <2>4. motorsDelaySkipsCounter'[m] \in 0 .. k /\ motorsDelaySkipsCounter'[m] >= 1
    BY <1>2, <1>3, <2>1, <2>2
  <2>5. motorsStepDelayCounter'[m] \in 0 .. d - 1
    BY <1>3, <2>2
  <2> HIDE DEF N
  <2> QED
    BY <1>3, <1>4, <1>9, <1>11, <2>2, <2>3, <2>4, <2>5 DEF d, k, s
<1>12. CASE ~Skips(m) /\ ~Steps(m)
  <2>1. sc + 1 \in 0 .. k /\ dc + 1 \in 0 .. d - 1
    BY <1>2, <1>3, <1>5, <1>12
  <2>2. motorsDelaySkipsCounter'[m] = sc + 1 /\ motorsStepDelayCounter'[m] = dc + 1 /\ pulses'[m] = s
    BY <1>6, <1>12
  <2>3. Counted(m)' = N + 1
    BY <1>1, <1>2, <1>3, <1>7, <2>2
  <2> HIDE DEF N
  <2> QED
    BY <1>3, <1>4, <1>9, <1>12, <2>1, <2>2, <2>3 DEF d, k, s
<1> QED
  BY <1>10, <1>11, <1>12

\* The interrupt keeps the account, and a motor that ends is in time.
LEMMA InterruptTimes ==
    ASSUME SteppingAssumption, TimesInv, StepInterrupt
    PROVE  TimesInv'
<1>1. StepsInv'
  BY InterruptCounts DEF TimesInv
<1>2. /\ UNCHANGED <<motorsStepDelay, motorsDelaySkips, asked, cycles>> /\ elapsed' = elapsed + 1
      /\ timer /\ timer'
  BY DEF StepInterrupt, speeds
<1>3. cycles' \in Nat /\ elapsed' \in Nat
  BY <1>2 DEF TimesInv
<1>4. ASSUME NEW m \in MOTORS, motorsIsMoving'[m] PROVE motorsIsMoving[m]
  BY <1>4 DEF StepInterrupt
<1>5. PaceKept'
  <2>1. ASSUME NEW m \in MOTORS
        PROVE  /\ StepDelay(asked[m], cycles)' = StepDelay(asked[m], cycles)
               /\ SkipsFor(asked[m], cycles)' = SkipsFor(asked[m], cycles)
    BY <1>2 DEF SkipsFor, DelaySkips, StepDelay, Max
  <2> SUFFICES ASSUME NEW m \in MOTORS, motorsIsMoving'[m]
               PROVE  /\ asked[m] * DEN <= cycles
                      /\ motorsStepDelay[m] = StepDelay(asked[m], cycles)
                      /\ motorsDelaySkips[m] = SkipsFor(asked[m], cycles)
                      /\ motorsStepDelayCounter'[m] \in 0 .. motorsStepDelay[m] - 1
                      /\ motorsDelaySkipsCounter'[m] \in 0 .. motorsDelaySkips[m]
                      /\ elapsed' * motorsDelaySkips[m]
                           = Counted(m)' * motorsDelaySkips[m] + Counted(m)' - motorsDelaySkipsCounter'[m]
    BY <1>2, <2>1 DEF PaceKept
  <2>2. motorsIsMoving[m]
    BY <1>4
  <2>3. /\ asked[m] * DEN <= cycles
        /\ motorsStepDelay[m] = StepDelay(asked[m], cycles)
        /\ motorsDelaySkips[m] = SkipsFor(asked[m], cycles)
    BY <2>2 DEF TimesInv, PaceKept
  <2> QED
    BY <2>2, <2>3, InterruptPace
<1>6. ASSUME NEW m \in MOTORS, Ended(m)'
      PROVE  /\ ended'[m] * DEN >= cycles /\ ended'[m] * DEN < 2 * cycles + DEN
             /\ ended'[m] = TotalPeriods(m)
  <2>1. asked[m] \in Nat \ {0} /\ pulses'[m] = asked[m] /\ pulses[m] \in Nat
    <3>1. asked[m] \in Nat /\ pulses[m] \in Nat
      BY DEF TimesInv, StepsInv, CountsTyped
    <3> QED
      BY <1>2, <1>6, <3>1 DEF Ended
  <2>2. pulses[m] + motorsNumberOfSteps[m] = asked[m] /\ motorsNumberOfSteps[m] \in Nat
    BY <1>2, <2>1 DEF TimesInv, StepsInv, StepsAccountedFor, CountsTyped
  <2>3. CASE motorsIsMoving[m]
    <3> DEFINE d == motorsStepDelay[m]
               k == motorsDelaySkips[m]
               sc == motorsDelaySkipsCounter'[m]
               e == elapsed'
    <3>1. motorsNumberOfSteps[m] > 0
      BY <2>3 DEF TimesInv, StepsInv, MovingHasSteps
    <3>2. Steps(m) /\ motorsNumberOfSteps[m] = 1
      <4>1. Steps(m)
        <5>1. pulses[m] # asked[m]
          BY <2>1, <2>2, <3>1
        <5>2. ~Steps(m) => pulses'[m] = pulses[m]
          BY <2>3, InterruptPace
        <5> QED
          BY <2>1, <5>1, <5>2
      <4>2. pulses'[m] = pulses[m] + 1
        BY <2>3, <4>1, InterruptPace
      <4> QED
        BY <2>1, <2>2, <4>1, <4>2
    <3>3. ended'[m] = e
      BY <1>2, <2>3, <3>2 DEF StepInterrupt, SteppingMotors
    <3>4. /\ d \in Nat \ {0} /\ k \in Nat \ {0} /\ sc \in 1 .. k
          /\ e * k = Counted(m)' * k + Counted(m)' - sc /\ motorsStepDelayCounter'[m] = 0
      <4>1. /\ d \in Nat \ {0} /\ k \in Nat \ {0} /\ sc \in 0 .. k
            /\ e * k = Counted(m)' * k + Counted(m)' - sc
        BY <2>3, InterruptPace
      <4>2. motorsStepDelayCounter'[m] = 0 /\ sc >= 1
        BY <2>3, <3>2, InterruptPace
      <4>3. sc \in 1 .. k
        BY <4>1, <4>2
      <4> QED
        BY <4>1, <4>2, <4>3
    <3>5. Counted(m)' = asked[m] * d
      <4>1. Counted(m)' = pulses'[m] * d + motorsStepDelayCounter'[m]
        BY <1>2 DEF Counted
      <4> QED
        BY <2>1, <3>4, <4>1
    <3>6. /\ asked[m] * DEN <= cycles /\ cycles \in Nat
          /\ d = StepDelay(asked[m], cycles) /\ k = SkipsFor(asked[m], cycles)
      BY <2>3 DEF TimesInv, PaceKept
    <3> HIDE DEF d, k, sc, e
    <3>7. e \in Nat
      BY <1>3 DEF e
    <3>8. e * k = (asked[m] * d) * k + asked[m] * d - sc
      BY <3>4, <3>5
    <3>9. cycles <= e * DEN /\ e * DEN < 2 * cycles + DEN
      BY <2>1, <3>4, <3>6, <3>7, <3>8, Timing
    <3>10. TotalPeriods(m) = e
      <4> DEFINE N == asked[m] * d
      <4>1. N \in Nat
        BY <2>1, <3>4
      <4>2. e * k = N * k + N - sc
        BY <3>8
      <4> HIDE DEF N
      <4>3. Ceil(N * (k + 1) - k, k) = e
        BY <3>4, <3>7, <4>1, <4>2, Formula
      <4>4. TotalPeriods(m) = Ceil(N * (k + 1) - k, k)
        BY <3>4 DEF TotalPeriods, N, d, k
      <4> QED
        BY <4>3, <4>4
    <3>11. DEN \in Nat /\ e * DEN \in Int
      BY <3>7 DEF SteppingAssumption
    <3> QED
      BY <3>3, <3>6, <3>9, <3>10, <3>11
  <2>4. CASE ~motorsIsMoving[m]
    <3>1. pulses'[m] = pulses[m] /\ ended'[m] = ended[m]
      BY <2>4 DEF StepInterrupt, SteppingMotors
    <3>2. Ended(m)
      BY <2>1, <3>1 DEF Ended
    <3> QED
      BY <3>1, <3>2 DEF TimesInv, FeedRateKept, TimeIsTheFormula
  <2> QED
    BY <2>3, <2>4
<1>7. FeedRateKept' /\ TimeIsTheFormula'
  <2>1. \A m \in MOTORS : TotalPeriods(m)' = TotalPeriods(m)
    BY <1>2 DEF TotalPeriods
  <2> QED
    BY <1>2, <1>6, <2>1 DEF FeedRateKept, TimeIsTheFormula
<1> QED
  BY <1>1, <1>3, <1>5, <1>7 DEF TimesInv

\* The end of a movement, a stop and a stutter leave the account alone.
LEMMA RestTimes ==
    ASSUME TimesInv, StepsInv',
           UNCHANGED <<asked, pulses, cycles, ended, elapsed, motorsStepDelay, motorsDelaySkips>>,
           (\A m \in MOTORS : ~motorsIsMoving'[m])
              \/ UNCHANGED <<motorsIsMoving, motorsStepDelayCounter, motorsDelaySkipsCounter>>
    PROVE  TimesInv'
<1>1. FeedRateKept'
  BY DEF TimesInv, FeedRateKept, Ended
<1>2. TimeIsTheFormula'
  BY DEF TimesInv, TimeIsTheFormula, Ended, TotalPeriods
<1>3. PaceKept'
  <2>1. CASE \A m \in MOTORS : ~motorsIsMoving'[m]
    BY <2>1 DEF PaceKept
  <2>2. CASE UNCHANGED <<motorsIsMoving, motorsStepDelayCounter, motorsDelaySkipsCounter>>
    <3>1. ASSUME NEW m \in MOTORS
          PROVE  /\ StepDelay(asked[m], cycles)' = StepDelay(asked[m], cycles)
                 /\ SkipsFor(asked[m], cycles)' = SkipsFor(asked[m], cycles)
                 /\ Counted(m)' = Counted(m)
      <4>1. StepDelay(asked[m], cycles)' = StepDelay(asked[m], cycles)
        BY DEF StepDelay, Max
      <4>2. SkipsFor(asked[m], cycles)' = SkipsFor(asked[m], cycles)
        BY DEF SkipsFor, DelaySkips, StepDelay, Max
      <4>3. Counted(m)' = Counted(m)
        BY <2>2 DEF Counted
      <4> QED
        BY <4>1, <4>2, <4>3
    <3> QED
      BY <2>2, <3>1 DEF TimesInv, PaceKept
  <2> QED
    BY <2>1, <2>2
<1> QED
  BY <1>1, <1>2, <1>3 DEF TimesInv

LEMMA StepsInvariance ==
    ASSUME SteppingAssumption
    PROVE  SteppingSpec => []TimesInv
<1>1. SteppingInit => TimesInv
  <2> SUFFICES ASSUME SteppingInit PROVE TimesInv
    OBVIOUS
  <2>1. StepsInv
    BY DEF SteppingInit, Zero, StepsInv, CountsTyped, MovingHasSteps, StepsAccountedFor
  <2>2. cycles \in Nat /\ elapsed \in Nat /\ PaceKept
    BY DEF SteppingInit, PaceKept
  <2>3. FeedRateKept /\ TimeIsTheFormula
    BY DEF SteppingInit, Zero, FeedRateKept, TimeIsTheFormula, Ended
  <2> QED
    BY <2>1, <2>2, <2>3 DEF TimesInv
<1>2. TimesInv /\ [SteppingNext]_steppingVars => TimesInv'
  <2> SUFFICES ASSUME TimesInv, [SteppingNext]_steppingVars PROVE TimesInv'
    OBVIOUS
  <2>1. CASE ~timer /\ \E n \in Movements, feed \in 1 .. DEN * MAX_CYCLES : MoveMotors(n, feed)
    BY <2>1, MoveTimes
  <2>2. CASE StepInterrupt
    BY <2>2, InterruptTimes
  <2>3. CASE Finish \/ StopMotors
    <3>1. /\ timer' = FALSE
          /\ UNCHANGED <<asked, motorsNumberOfSteps, pulses, cycles, ended, elapsed, motorsStepDelay,
                         motorsDelaySkips>>
      BY <2>3 DEF Finish, StopMotors, speeds
    <3>2. \A m \in MOTORS : ~motorsIsMoving'[m]
      BY <2>3 DEF Finish, StopMotors, areMotorsMoving
    <3>3. StepsInv'
      BY <3>1, <3>2 DEF TimesInv, StepsInv, CountsTyped, MovingHasSteps, StepsAccountedFor
    <3> QED
      BY <3>1, <3>2, <3>3, RestTimes
  <2>4. CASE UNCHANGED steppingVars
    <3>1. UNCHANGED <<asked, motorsNumberOfSteps, motorsIsMoving, timer, pulses, cycles, ended, elapsed,
                      motorsStepDelay, motorsDelaySkips, motorsStepDelayCounter,
                      motorsDelaySkipsCounter>>
      BY <2>4 DEF steppingVars, speeds
    <3>2. StepsInv'
      BY <3>1 DEF TimesInv, StepsInv, CountsTyped, MovingHasSteps, StepsAccountedFor
    <3> QED
      BY <3>1, <3>2, RestTimes
  <2> QED
    BY <2>1, <2>2, <2>3, <2>4 DEF SteppingNext
<1> QED
  BY <1>1, <1>2, PTL DEF SteppingSpec

\* For every number of motors, of steps and every feed rate, a motor makes
\* exactly the steps that move() asked of it (motorsStepAction).
THEOREM StepsCorrect ==
    ASSUME SteppingAssumption
    PROVE  SteppingSpec => []StepsAccountedFor
<1>1. TimesInv => StepsAccountedFor
  BY DEF TimesInv, StepsInv
<1> QED
  BY <1>1, StepsInvariance, PTL

\* However the periods divide among steps, the delay and the skips that
\* setMotorDelayAndSkip() chooses take no less than the feed rate's time and
\* less than twice it and a period, and the closed form in the comment of
\* motorsStepAction() is the time that the interrupt takes.
THEOREM TimesCorrect ==
    ASSUME SteppingAssumption
    PROVE  SteppingSpec => []TimeWithinFeedRate
<1>1. TimesInv => TimeWithinFeedRate
  BY DEF TimesInv, TimeWithinFeedRate
<1> QED
  BY <1>1, StepsInvariance, PTL

-----------------------------------------------------------------------------
(* The heater.                                                             *)


\* The type invariant in three parts, one for each kind of reasoning.
TemperatureType ==
    /\ idealTemperature \in Target \cup {HEATER_OFF_TEMPERATURE}
    /\ actualTemperature \in 0 .. MAX_HEAT
    /\ heat \in 0 .. MAX_HEAT

ControlType ==
    /\ pc \in MainStep
    /\ request \in Request
    /\ answer \in {"none", "ok", "unsupported", "not working"}

FlagType ==
    /\ heaterOn \in BOOLEAN
    /\ isWorking \in BOOLEAN
    /\ updating \in BOOLEAN
    /\ emergencyStopRequest \in BOOLEAN
    /\ lowerNewValue \in BOOLEAN
    /\ connected \in BOOLEAN
    /\ changed \in BOOLEAN

\* While a stop is being obeyed the interrupt finds no target to heat to.
ResetInv ==
    /\ pc \in {"resetOff", "resume"} => idealTemperature = HEATER_OFF_TEMPERATURE
    /\ pc = "resume" => ~heaterOn

IInv ==
    /\ TemperatureType
    /\ ControlType
    /\ FlagType
    /\ RegulationAlive
    /\ ResetInv

\* The printer starts with the heater off and the interrupt on.
LEMMA InitInvariant == Init => IInv
<1> SUFFICES ASSUME Init PROVE IInv
  OBVIOUS
<1> USE DEF Init, HEATER_OFF_TEMPERATURE
<1>1. TemperatureType
  BY TargetAssumption DEF TemperatureType
<1>2. ControlType
  BY DEF ControlType, MainStep, Request
<1>3. FlagType
  BY DEF FlagType
<1>4. RegulationAlive /\ ResetInv
  BY DEF RegulationAlive, ResetInv
<1>. QED
  BY <1>1, <1>2, <1>3, <1>4 DEF IInv

\* Targets come from requests, measurements from the heater.
LEMMA TemperatureStep == TemperatureType /\ ControlType /\ [Next]_vars => TemperatureType'
<1> SUFFICES ASSUME TemperatureType, ControlType, [Next]_vars PROVE TemperatureType'
  OBVIOUS
<1> USE TargetAssumption DEF TemperatureType, HEATER_OFF_TEMPERATURE
<1>1. CASE ChangeHeat
  BY <1>1 DEF ChangeHeat, temperatures
<1>2. CASE ChangeConnection
  BY <1>2 DEF ChangeConnection, temperatures
<1>3. CASE Stop
  BY <1>3 DEF Stop, temperatures, environment
<1>4. CASE Tick
  BY <1>4 DEF Tick, ClearTemperatures
<1>5. CASE WaitTimer
  BY <1>5 DEF WaitTimer, ClearTemperatures, temperatures, environment
<1>6. ASSUME NEW r \in Request, Begin(r) PROVE TemperatureType'
  BY <1>6 DEF Begin, temperatures, environment
<1>7. CASE Dispatch
  BY <1>7 DEF Dispatch, At, temperatures, environment
<1>8. CASE Set
  <2>1. request.value \in Target \cup {HEATER_OFF_TEMPERATURE}
    BY DEF ControlType, Request
  <2>. QED
    BY <1>8, <2>1 DEF Set, At, ClearTemperatures, environment
<1>9. CASE Compare
  BY <1>9 DEF Compare, At, temperatures, environment
<1>10. CASE Drive
  BY <1>10 DEF Drive, At, temperatures, environment
<1>11. CASE Wait
  BY <1>11 DEF Wait, At, temperatures, environment
<1>12. CASE Answer
  BY <1>12 DEF Answer, At, temperatures, environment
<1>13. CASE Obey
  BY <1>13 DEF Obey, At, temperatures, environment
<1>14. CASE Reset
  BY <1>14 DEF Reset, At, ClearTemperatures, environment
<1>15. CASE Resume
  BY <1>15 DEF Resume, temperatures, environment
<1>16. ASSUME NEW here, NEW failed, NEW there,
             TestConnection(here, failed, there)
      PROVE  TemperatureType'
  BY <1>16 DEF TestConnection, At, ClearTemperatures, temperatures, environment
<1>17. ASSUME NEW here, NEW there,
             TurnOff(here, there)
      PROVE  TemperatureType'
  BY <1>17 DEF TurnOff, At, temperatures, environment
<1>18. ASSUME NEW here, NEW failed, NEW there, NEW on \in BOOLEAN,
             UpdateHeaterChanges(here, failed, there, on)
      PROVE  TemperatureType'
  BY <1>18 DEF UpdateHeaterChanges, At, ClearTemperatures, temperatures, environment
<1>19. CASE UNCHANGED vars
  BY <1>19 DEF vars, temperatures, environment
<1>. QED
  BY <1>1, <1>2, <1>3, <1>4, <1>5, <1>6, <1>7, <1>8, <1>9, <1>10, <1>11, <1>12, <1>13, <1>14,
     <1>15, <1>16, <1>17, <1>18, <1>19
  DEF Next, MainLoop, SetTemperature, Guard, Ask, Test, Read, Update, Eeprom,
      GuardOff, AskOff, TestOff, UpdateOff, SetOff, ReadOff, EepromOff, ResetOff

\* The main loop goes from step to step.
LEMMA ControlStep == ControlType /\ [Next]_vars => ControlType'
<1> SUFFICES ASSUME ControlType, [Next]_vars PROVE ControlType'
  OBVIOUS
<1> USE DEF ControlType, MainStep
<1>1. CASE ChangeHeat
  BY <1>1 DEF ChangeHeat, mainVars
<1>2. CASE ChangeConnection
  BY <1>2 DEF ChangeConnection, mainVars
<1>3. CASE Stop
  BY <1>3 DEF Stop, mainVars
<1>4. CASE Tick
  BY <1>4 DEF Tick, mainVars
<1>5. CASE WaitTimer
  BY <1>5 DEF WaitTimer, mainVars
<1>6. ASSUME NEW r \in Request, Begin(r) PROVE ControlType'
  BY <1>6 DEF Begin
<1>7. CASE Dispatch
  BY <1>7 DEF Dispatch, At, Request
<1>8. CASE Set
  BY <1>8 DEF Set, At
<1>9. CASE Compare
  BY <1>9 DEF Compare, At
<1>10. CASE Drive
  BY <1>10 DEF Drive, At
<1>11. CASE Wait
  BY <1>11 DEF Wait, At
<1>12. CASE Answer
  BY <1>12 DEF Answer, At
<1>13. CASE Obey
  BY <1>13 DEF Obey, At
<1>14. CASE Reset
  BY <1>14 DEF Reset, At
<1>15. CASE Resume
  BY <1>15 DEF Resume
<1>16. ASSUME NEW here, NEW failed \in MainStep, NEW there \in MainStep,
             TestConnection(here, failed, there)
      PROVE  ControlType'
  BY <1>16 DEF TestConnection, At
<1>17. ASSUME NEW here, NEW there \in MainStep,
             TurnOff(here, there)
      PROVE  ControlType'
  BY <1>17 DEF TurnOff, At
<1>18. ASSUME NEW here, NEW failed \in MainStep, NEW there \in MainStep, NEW on \in BOOLEAN,
             UpdateHeaterChanges(here, failed, there, on)
      PROVE  ControlType'
  BY <1>18 DEF UpdateHeaterChanges, At
<1>19. CASE UNCHANGED vars
  BY <1>19 DEF vars, mainVars
<1>20. CASE Guard \/ Ask \/ Test \/ Read
  BY <1>20, <1>16 DEF Guard, Ask, Test, Read
<1>21. CASE GuardOff \/ AskOff \/ TestOff \/ UpdateOff \/ SetOff \/ ReadOff \/ EepromOff \/ ResetOff
  BY <1>21, <1>17 DEF GuardOff, AskOff, TestOff, UpdateOff, SetOff, ReadOff, EepromOff, ResetOff
<1>22. CASE Update \/ Eeprom
  BY <1>22, <1>18 DEF Update, Eeprom
<1>. QED
  BY <1>1, <1>2, <1>3, <1>4, <1>5, <1>6, <1>7, <1>8, <1>9, <1>10, <1>11, <1>12, <1>13, <1>14,
     <1>15, <1>19, <1>20, <1>21, <1>22 DEF Next, MainLoop, SetTemperature

\* Flags are copied from flags or compared anew.
LEMMA FlagStep == FlagType /\ TemperatureType /\ [Next]_vars => FlagType'
<1> SUFFICES ASSUME FlagType, TemperatureType, [Next]_vars PROVE FlagType'
  OBVIOUS
<1> USE DEF FlagType
<1>1. CASE ChangeHeat
  BY <1>1 DEF ChangeHeat, mainVars
<1>2. CASE ChangeConnection
  BY <1>2 DEF ChangeConnection, mainVars
<1>3. CASE Stop
  BY <1>3 DEF Stop, mainVars, environment
<1>4. CASE Tick
  <2>1. heat \in Int /\ idealTemperature \in Int
    BY TargetAssumption DEF TemperatureType, HEATER_OFF_TEMPERATURE
  <2>2. (heat < idealTemperature) \in BOOLEAN
    BY <2>1
  <2>3. heaterOn' \in BOOLEAN
    BY <1>4, <2>2 DEF Tick
  <2>4. isWorking' \in BOOLEAN
    BY <1>4 DEF Tick
  <2>. QED
    BY <1>4, <2>3, <2>4 DEF Tick, mainVars
<1>5. CASE WaitTimer
  BY <1>5 DEF WaitTimer, mainVars, environment
<1>6. ASSUME NEW r \in Request, Begin(r) PROVE FlagType'
  BY <1>6 DEF Begin, environment
<1>7. CASE Dispatch
  BY <1>7 DEF Dispatch, At, environment
<1>8. CASE Set
  BY <1>8 DEF Set, At, environment
<1>9. CASE Compare
  BY <1>9 DEF Compare, At, environment
<1>10. CASE Drive
  BY <1>10 DEF Drive, At, environment
<1>11. CASE Wait
  BY <1>11 DEF Wait, At, environment
<1>12. CASE Answer
  BY <1>12 DEF Answer, At, environment
<1>13. CASE Obey
  BY <1>13 DEF Obey, At, environment
<1>14. CASE Reset
  BY <1>14 DEF Reset, At, environment
<1>15. CASE Resume
  BY <1>15 DEF Resume, environment
<1>16. ASSUME NEW here, NEW failed, NEW there,
             TestConnection(here, failed, there)
      PROVE  FlagType'
  BY <1>16 DEF TestConnection, At, environment
<1>17. ASSUME NEW here, NEW there,
             TurnOff(here, there)
      PROVE  FlagType'
  BY <1>17 DEF TurnOff, At, environment
<1>18. ASSUME NEW here, NEW failed, NEW there, NEW on \in BOOLEAN,
             UpdateHeaterChanges(here, failed, there, on)
      PROVE  FlagType'
  BY <1>18 DEF UpdateHeaterChanges, At, environment
<1>19. CASE UNCHANGED vars
  BY <1>19 DEF vars, mainVars, environment
<1>. QED
  BY <1>1, <1>2, <1>3, <1>4, <1>5, <1>6, <1>7, <1>8, <1>9, <1>10, <1>11, <1>12, <1>13, <1>14,
     <1>15, <1>16, <1>17, <1>18, <1>19
  DEF Next, MainLoop, SetTemperature, Guard, Ask, Test, Read, Update, Eeprom,
      GuardOff, AskOff, TestOff, UpdateOff, SetOff, ReadOff, EepromOff, ResetOff

\* The interrupt is off only between updating and reading back.
LEMMA RegulationStep == RegulationAlive /\ [Next]_vars => RegulationAlive'
<1> SUFFICES ASSUME RegulationAlive, [Next]_vars PROVE RegulationAlive'
  OBVIOUS
<1> USE DEF RegulationAlive
<1>1. CASE ChangeHeat
  BY <1>1 DEF ChangeHeat, mainVars
<1>2. CASE ChangeConnection
  BY <1>2 DEF ChangeConnection, mainVars
<1>3. CASE Stop
  BY <1>3 DEF Stop, mainVars
<1>4. CASE Tick
  BY <1>4 DEF Tick, mainVars
<1>5. CASE WaitTimer
  BY <1>5 DEF WaitTimer, mainVars
<1>6. ASSUME NEW r \in Request, Begin(r) PROVE RegulationAlive'
  BY <1>6 DEF Begin
<1>7. CASE Dispatch
  BY <1>7 DEF Dispatch, At
<1>8. CASE Set
  BY <1>8 DEF Set, At
<1>9. CASE Compare
  BY <1>9 DEF Compare, At
<1>10. CASE Drive
  BY <1>10 DEF Drive, At
<1>11. CASE Wait
  BY <1>11 DEF Wait, At
<1>12. CASE Answer
  BY <1>12 DEF Answer, At
<1>13. CASE Obey
  BY <1>13 DEF Obey, At
<1>14. CASE Reset
  BY <1>14 DEF Reset, At
<1>15. CASE Resume
  BY <1>15 DEF Resume
<1>16. ASSUME NEW here, NEW failed, NEW there,
             TestConnection(here, failed, there)
      PROVE  RegulationAlive'
  BY <1>16 DEF TestConnection, At
<1>17. ASSUME NEW here, NEW there, here \notin {"set", "read"},
             TurnOff(here, there)
      PROVE  RegulationAlive'
  BY <1>17 DEF TurnOff, At
<1>18. ASSUME NEW here, NEW failed, NEW there, NEW on \in BOOLEAN, on \/ there = "set",
             UpdateHeaterChanges(here, failed, there, on)
      PROVE  RegulationAlive'
  BY <1>18 DEF UpdateHeaterChanges, At
<1>19. CASE UNCHANGED vars
  BY <1>19 DEF vars, mainVars
<1>. QED
  BY <1>1, <1>2, <1>3, <1>4, <1>5, <1>6, <1>7, <1>8, <1>9, <1>10, <1>11, <1>12, <1>13, <1>14,
     <1>15, <1>16, <1>17, <1>18, <1>19
  DEF Next, MainLoop, SetTemperature, Guard, Ask, Test, Read, Update, Eeprom,
      GuardOff, AskOff, TestOff, UpdateOff, SetOff, ReadOff, EepromOff, ResetOff

\* Nothing gives the heater a target while a stop is obeyed.
LEMMA ResetStep == ResetInv /\ ControlType /\ [Next]_vars => ResetInv'
<1> SUFFICES ASSUME ResetInv, ControlType, [Next]_vars PROVE ResetInv'
  OBVIOUS
<1> USE DEF ResetInv, HEATER_OFF_TEMPERATURE
<1>1. CASE ChangeHeat
  BY <1>1 DEF ChangeHeat, mainVars, temperatures
<1>2. CASE ChangeConnection
  BY <1>2 DEF ChangeConnection, mainVars, temperatures
<1>3. CASE Stop
  BY <1>3 DEF Stop, mainVars, temperatures
<1>4. CASE Tick
  BY <1>4 DEF Tick, mainVars, ClearTemperatures
<1>5. CASE WaitTimer
  BY <1>5 DEF WaitTimer, mainVars, ClearTemperatures, temperatures
<1>6. ASSUME NEW r \in Request, Begin(r) PROVE ResetInv'
  BY <1>6 DEF Begin, temperatures
<1>7. CASE Dispatch
  <2>1. pc' \in {"test", "ask", "eeprom"}
    BY <1>7 DEF Dispatch, At, ControlType, Request
  <2>. QED
    BY <2>1
<1>8. CASE Set
  BY <1>8 DEF Set, At, ClearTemperatures
<1>9. CASE Compare
  BY <1>9 DEF Compare, At, temperatures
<1>10. CASE Drive
  BY <1>10 DEF Drive, At, temperatures
<1>11. CASE Wait
  BY <1>11 DEF Wait, At, temperatures
<1>12. CASE Answer
  BY <1>12 DEF Answer, At, temperatures
<1>13. CASE Obey
  BY <1>13 DEF Obey, At, temperatures
<1>14. CASE Reset
  BY <1>14 DEF Reset, At, ClearTemperatures
<1>15. CASE Resume
  BY <1>15 DEF Resume, temperatures
<1>16. ASSUME NEW here, NEW failed, NEW there, {failed, there} \cap {"resetOff", "resume"} = {},
             TestConnection(here, failed, there)
      PROVE  ResetInv'
  BY <1>16 DEF TestConnection, At, ClearTemperatures, temperatures
<1>17. ASSUME NEW here, NEW there, there \notin {"resetOff", "resume"} \/ (here = "resetOff" /\ there = "resume"),
             TurnOff(here, there)
      PROVE  ResetInv'
  BY <1>17 DEF TurnOff, At, temperatures
<1>18. ASSUME NEW here, NEW failed, NEW there, NEW on \in BOOLEAN, {failed, there} \cap {"resetOff", "resume"} = {},
             UpdateHeaterChanges(here, failed, there, on)
      PROVE  ResetInv'
  BY <1>18 DEF UpdateHeaterChanges, At, ClearTemperatures, temperatures
<1>19. CASE UNCHANGED vars
  BY <1>19 DEF vars, temperatures, mainVars
<1>. QED
  BY <1>1, <1>2, <1>3, <1>4, <1>5, <1>6, <1>7, <1>8, <1>9, <1>10, <1>11, <1>12, <1>13, <1>14,
     <1>15, <1>16, <1>17, <1>18, <1>19
  DEF Next, MainLoop, SetTemperature, Guard, Ask, Test, Read, Update, Eeprom,
      GuardOff, AskOff, TestOff, UpdateOff, SetOff, ReadOff, EepromOff, ResetOff

\* IInv is an invariant of the heater.
THEOREM Invariance == Spec => []IInv
<1>1. IInv /\ [Next]_vars => IInv'
  BY TemperatureStep, ControlStep, FlagStep, RegulationStep, ResetStep DEF IInv
<1>. QED
  BY <1>1, InitInvariant, PTL DEF Spec

\* The state of the heater keeps its shape: the target is one that a command
\* asked for, whatever the interrupt does to it.
THEOREM TypeCorrect == Spec => []TypeOK
<1>1. IInv => TypeOK
  BY DEF IInv, TypeOK, TemperatureType, ControlType, FlagType
<1>. QED
  BY <1>1, Invariance, PTL

\* No path leaves the temperature interrupt off.
THEOREM RegulationCorrect == Spec => []RegulationAlive
<1>1. IInv => RegulationAlive
  BY DEF IInv
<1>. QED
  BY <1>1, Invariance, PTL

\* Only Resume ends a stop.
LEMMA ResumeEnds == ASSUME Next, emergencyStopRequest, ~emergencyStopRequest' PROVE Resume
  BY DEF Next, MainLoop, SetTemperature, ChangeHeat, ChangeConnection, Stop, Tick, WaitTimer,
         Begin, Guard, GuardOff, Dispatch, Test, TestOff, Update, UpdateOff, Set, SetOff, Read,
         ReadOff, Compare, Drive, Wait, Ask, AskOff, Eeprom, EepromOff, Answer, Obey, Reset,
         ResetOff, TestConnection, TurnOff, UpdateHeaterChanges, At

\* A stop ends only with the heater off and without a target, however
\* Heater::reset and the interrupt interleave.
THEOREM StopCorrect == Spec => StopTurnsHeaterOff
<1> DEFINE Off == emergencyStopRequest /\ ~emergencyStopRequest' =>
                     ~heaterOn' /\ idealTemperature' = HEATER_OFF_TEMPERATURE
<1>1. IInv /\ [Next]_vars => [Off]_vars
  <2> SUFFICES ASSUME IInv, Next, emergencyStopRequest, ~emergencyStopRequest'
               PROVE  ~heaterOn' /\ idealTemperature' = HEATER_OFF_TEMPERATURE
    OBVIOUS
  <2>1. Resume
    BY ResumeEnds
  <2>. QED
    BY <2>1 DEF Resume, IInv, ResetInv, temperatures
<1>. QED
  BY <1>1, Invariance, PTL DEF Spec, StopTurnsHeaterOff

-----------------------------------------------------------------------------
(* What M109 is answered.                                                  *)

\* By how much the heat may have fallen since it was measured.
Fallen == IF changed THEN 1 ELSE 0

\* The connection was lost: there is no target any more, so that the interrupt
\* no longer tests the connection either.
Lost == idealTemperature = HEATER_OFF_TEMPERATURE /\ isWorking = FALSE

Heating == idealTemperature = request.value /\ isWorking = TRUE

\* How the heat strays from the target: from below, where it is hot enough once
\* the interrupt has turned the heater off; regulated by the interrupt; and after
\* setTemperature turned the heater off on an older comparison.
HotWhenOff == heaterOn = FALSE => heat >= request.value - Fallen
Regulated == heat >= request.value - 1 /\ HotWhenOff
LetCool == heat >= request.value - Drift /\ (heaterOn = FALSE => heat >= request.value - 1 - Fallen)

\* The path of a request through the main loop.
PathInv ==
    /\ pc \in {"set", "read"} => updating = FALSE
    /\ pc \in {"guardOff", "readOff"} => Lost
    /\ pc = "read" => idealTemperature = request.value
    /\ pc \in {"compare", "drive", "wait"} => Lost \/ Heating
    /\ pc = "updateOff" => answer = "unsupported"
    /\ pc = "setOff" => request.value = HEATER_OFF_TEMPERATURE
    /\ pc \in {"ask", "askOff", "eeprom", "eepromOff"} => request.name # "M109"

\* A measurement is at most one change old.
MeasuredInv == actualTemperature # 0 => heat >= actualTemperature - Fallen

\* What the heat is on the way to the answer.
HotInv ==
    /\ pc = "drive" /\ lowerNewValue = TRUE => Lost \/ Regulated
    /\ pc = "wait" /\ lowerNewValue = TRUE => Lost \/ LetCool
    /\ pc = "wait" /\ lowerNewValue = FALSE => Lost \/ HotWhenOff
    /\ pc = "answer" /\ request.name = "M109" =>
         \/ emergencyStopRequest = TRUE \/ answer = "unsupported" \/ Lost
         \/ request.value = HEATER_OFF_TEMPERATURE
         \/ Heating /\ heat >= request.value - Drift /\ HotWhenOff

\* A target is set and read back without the interrupt; a lost connection stays lost.
LEMMA PathStep == PathInv /\ ControlType /\ FlagType /\ [Next]_vars => PathInv'
<1> SUFFICES ASSUME PathInv, ControlType, FlagType, [Next]_vars PROVE PathInv'
  OBVIOUS
<1> USE DEF PathInv, Lost, Heating, HEATER_OFF_TEMPERATURE
<1>1. CASE ChangeHeat
  BY <1>1 DEF ChangeHeat, ControlType, FlagType, ClearTemperatures, temperatures, mainVars,
     environment
<1>2. CASE ChangeConnection
  BY <1>2 DEF ChangeConnection, ControlType, FlagType, ClearTemperatures, temperatures,
     mainVars, environment
<1>3. CASE Stop
  BY <1>3 DEF Stop, ControlType, FlagType, ClearTemperatures, temperatures, mainVars,
     environment
<1>4. CASE Tick
  BY <1>4 DEF Tick, ControlType, FlagType, ClearTemperatures, temperatures, mainVars,
     environment
<1>5. CASE WaitTimer
  BY <1>5 DEF WaitTimer, ControlType, FlagType, ClearTemperatures, temperatures, mainVars,
     environment
<1>6. ASSUME NEW r \in Request, Begin(r) PROVE PathInv'
  BY <1>6 DEF Begin, ControlType, FlagType, ClearTemperatures, temperatures, mainVars,
     environment
<1>7. CASE Dispatch
  BY <1>7 DEF Dispatch, At, ControlType, FlagType, ClearTemperatures, temperatures, mainVars,
     environment
<1>8. CASE Set
  BY <1>8 DEF Set, At, ControlType, FlagType, ClearTemperatures, temperatures, mainVars,
     environment
<1>9. CASE Compare
  BY <1>9 DEF Compare, At, ControlType, FlagType, ClearTemperatures, temperatures, mainVars,
     environment
<1>10. CASE Drive
  BY <1>10 DEF Drive, At, ControlType, FlagType, ClearTemperatures, temperatures, mainVars,
     environment
<1>11. CASE Wait
  BY <1>11 DEF Wait, At, ControlType, FlagType, ClearTemperatures, temperatures, mainVars,
     environment
<1>12. CASE Answer
  BY <1>12 DEF Answer, At, ControlType, FlagType, ClearTemperatures, temperatures, mainVars,
     environment
<1>13. CASE Obey
  BY <1>13 DEF Obey, At, ControlType, FlagType, ClearTemperatures, temperatures, mainVars,
     environment
<1>14. CASE Reset
  BY <1>14 DEF Reset, At, ControlType, FlagType, ClearTemperatures, temperatures, mainVars,
     environment
<1>15. CASE Resume
  BY <1>15 DEF Resume, ControlType, FlagType, ClearTemperatures, temperatures, mainVars,
     environment
<1>16. CASE Guard
  BY <1>16 DEF Guard, TestConnection, At, ControlType, FlagType, ClearTemperatures,
     temperatures, mainVars, environment
<1>17. CASE Ask
  BY <1>17 DEF Ask, TestConnection, At, ControlType, FlagType, ClearTemperatures,
     temperatures, mainVars, environment
<1>18. CASE Test
  BY <1>18 DEF Test, TestConnection, At, ControlType, FlagType, ClearTemperatures,
     temperatures, mainVars, environment
<1>19. CASE Read
  BY <1>19 DEF Read, TestConnection, At, ControlType, FlagType, ClearTemperatures,
     temperatures, mainVars, environment
<1>20. CASE GuardOff
  BY <1>20 DEF GuardOff, TurnOff, At, ControlType, FlagType, ClearTemperatures, temperatures,
     mainVars, environment
<1>21. CASE AskOff
  BY <1>21 DEF AskOff, TurnOff, At, ControlType, FlagType, ClearTemperatures, temperatures,
     mainVars, environment
<1>22. CASE TestOff
  BY <1>22 DEF TestOff, TurnOff, At, ControlType, FlagType, ClearTemperatures, temperatures,
     mainVars, environment
<1>23. CASE UpdateOff
  BY <1>23 DEF UpdateOff, TurnOff, At, ControlType, FlagType, ClearTemperatures, temperatures,
     mainVars, environment
<1>24. CASE SetOff
  BY <1>24 DEF SetOff, TurnOff, At, ControlType, FlagType, ClearTemperatures, temperatures,
     mainVars, environment
<1>25. CASE ReadOff
  BY <1>25 DEF ReadOff, TurnOff, At, ControlType, FlagType, ClearTemperatures, temperatures,
     mainVars, environment
<1>26. CASE EepromOff
  BY <1>26 DEF EepromOff, TurnOff, At, ControlType, FlagType, ClearTemperatures, temperatures,
     mainVars, environment
<1>27. CASE ResetOff
  BY <1>27 DEF ResetOff, TurnOff, At, ControlType, FlagType, ClearTemperatures, temperatures,
     mainVars, environment
<1>28. CASE Update
  BY <1>28 DEF Update, UpdateHeaterChanges, At, ControlType, FlagType, ClearTemperatures,
     temperatures, mainVars, environment
<1>29. CASE Eeprom
  BY <1>29 DEF Eeprom, UpdateHeaterChanges, At, ControlType, FlagType, ClearTemperatures,
     temperatures, mainVars, environment
<1>30. CASE UNCHANGED vars
  BY <1>30 DEF vars, ControlType, FlagType, ClearTemperatures, temperatures, mainVars,
     environment
<1>. QED
  BY <1>1, <1>2, <1>3, <1>4, <1>5, <1>6, <1>7, <1>8, <1>9, <1>10, <1>11, <1>12, <1>13, <1>14,
     <1>15, <1>16, <1>17, <1>18, <1>19, <1>20, <1>21, <1>22, <1>23, <1>24, <1>25, <1>26,
     <1>27, <1>28, <1>29, <1>30
  DEF Next, MainLoop, SetTemperature

\* The interrupt measures before it lets the heat change again.
LEMMA MeasuredStep == MeasuredInv /\ TemperatureType /\ FlagType /\ [Next]_vars => MeasuredInv'
<1> SUFFICES ASSUME MeasuredInv, TemperatureType, FlagType, [Next]_vars PROVE MeasuredInv'
  OBVIOUS
<1> USE TargetAssumption DEF MeasuredInv, Fallen, HEATER_OFF_TEMPERATURE
<1>1. CASE ChangeHeat
  BY <1>1 DEF ChangeHeat, TemperatureType, FlagType, ClearTemperatures, temperatures,
     mainVars, environment
<1>2. CASE ChangeConnection
  BY <1>2 DEF ChangeConnection, TemperatureType, FlagType, ClearTemperatures, temperatures,
     mainVars, environment
<1>3. CASE Stop
  BY <1>3 DEF Stop, TemperatureType, FlagType, ClearTemperatures, temperatures, mainVars,
     environment
<1>4. CASE Tick
  BY <1>4 DEF Tick, TemperatureType, FlagType, ClearTemperatures, temperatures, mainVars,
     environment
<1>5. CASE WaitTimer
  BY <1>5 DEF WaitTimer, TemperatureType, FlagType, ClearTemperatures, temperatures, mainVars,
     environment
<1>6. ASSUME NEW r \in Request, Begin(r) PROVE MeasuredInv'
  BY <1>6 DEF Begin, TemperatureType, FlagType, ClearTemperatures, temperatures, mainVars,
     environment
<1>7. CASE Dispatch
  BY <1>7 DEF Dispatch, At, TemperatureType, FlagType, ClearTemperatures, temperatures,
     mainVars, environment
<1>8. CASE Set
  BY <1>8 DEF Set, At, TemperatureType, FlagType, ClearTemperatures, temperatures, mainVars,
     environment
<1>9. CASE Compare
  BY <1>9 DEF Compare, At, TemperatureType, FlagType, ClearTemperatures, temperatures,
     mainVars, environment
<1>10. CASE Drive
  BY <1>10 DEF Drive, At, TemperatureType, FlagType, ClearTemperatures, temperatures,
     mainVars, environment
<1>11. CASE Wait
  BY <1>11 DEF Wait, At, TemperatureType, FlagType, ClearTemperatures, temperatures, mainVars,
     environment
<1>12. CASE Answer
  BY <1>12 DEF Answer, At, TemperatureType, FlagType, ClearTemperatures, temperatures,
     mainVars, environment
<1>13. CASE Obey
  BY <1>13 DEF Obey, At, TemperatureType, FlagType, ClearTemperatures, temperatures, mainVars,
     environment
<1>14. CASE Reset
  BY <1>14 DEF Reset, At, TemperatureType, FlagType, ClearTemperatures, temperatures,
     mainVars, environment
<1>15. CASE Resume
  BY <1>15 DEF Resume, TemperatureType, FlagType, ClearTemperatures, temperatures, mainVars,
     environment
<1>16. CASE Guard
  BY <1>16 DEF Guard, TestConnection, At, TemperatureType, FlagType, ClearTemperatures,
     temperatures, mainVars, environment
<1>17. CASE Ask
  BY <1>17 DEF Ask, TestConnection, At, TemperatureType, FlagType, ClearTemperatures,
     temperatures, mainVars, environment
<1>18. CASE Test
  BY <1>18 DEF Test, TestConnection, At, TemperatureType, FlagType, ClearTemperatures,
     temperatures, mainVars, environment
<1>19. CASE Read
  BY <1>19 DEF Read, TestConnection, At, TemperatureType, FlagType, ClearTemperatures,
     temperatures, mainVars, environment
<1>20. CASE GuardOff
  BY <1>20 DEF GuardOff, TurnOff, At, TemperatureType, FlagType, ClearTemperatures,
     temperatures, mainVars, environment
<1>21. CASE AskOff
  BY <1>21 DEF AskOff, TurnOff, At, TemperatureType, FlagType, ClearTemperatures,
     temperatures, mainVars, environment
<1>22. CASE TestOff
  BY <1>22 DEF TestOff, TurnOff, At, TemperatureType, FlagType, ClearTemperatures,
     temperatures, mainVars, environment
<1>23. CASE UpdateOff
  BY <1>23 DEF UpdateOff, TurnOff, At, TemperatureType, FlagType, ClearTemperatures,
     temperatures, mainVars, environment
<1>24. CASE SetOff
  BY <1>24 DEF SetOff, TurnOff, At, TemperatureType, FlagType, ClearTemperatures,
     temperatures, mainVars, environment
<1>25. CASE ReadOff
  BY <1>25 DEF ReadOff, TurnOff, At, TemperatureType, FlagType, ClearTemperatures,
     temperatures, mainVars, environment
<1>26. CASE EepromOff
  BY <1>26 DEF EepromOff, TurnOff, At, TemperatureType, FlagType, ClearTemperatures,
     temperatures, mainVars, environment
<1>27. CASE ResetOff
  BY <1>27 DEF ResetOff, TurnOff, At, TemperatureType, FlagType, ClearTemperatures,
     temperatures, mainVars, environment
<1>28. CASE Update
  BY <1>28 DEF Update, UpdateHeaterChanges, At, TemperatureType, FlagType, ClearTemperatures,
     temperatures, mainVars, environment
<1>29. CASE Eeprom
  BY <1>29 DEF Eeprom, UpdateHeaterChanges, At, TemperatureType, FlagType, ClearTemperatures,
     temperatures, mainVars, environment
<1>30. CASE UNCHANGED vars
  BY <1>30 DEF vars, TemperatureType, FlagType, ClearTemperatures, temperatures, mainVars,
     environment
<1>. QED
  BY <1>1, <1>2, <1>3, <1>4, <1>5, <1>6, <1>7, <1>8, <1>9, <1>10, <1>11, <1>12, <1>13, <1>14,
     <1>15, <1>16, <1>17, <1>18, <1>19, <1>20, <1>21, <1>22, <1>23, <1>24, <1>25, <1>26,
     <1>27, <1>28, <1>29, <1>30
  DEF Next, MainLoop, SetTemperature

\* The targets of requests are numbers.
LEMMA ValueType == ASSUME ControlType PROVE request.value \in Nat
<1>1. request.value \in Target \cup {HEATER_OFF_TEMPERATURE}
  BY DEF ControlType, Request
<1>2. Target \subseteq Nat /\ 0 \in Nat
  BY TargetAssumption
<1>. QED
  BY <1>1, <1>2 DEF HEATER_OFF_TEMPERATURE

\* The heat follows the interrupt, which setTemperature can undo once.
LEMMA HotStep ==
    HotInv /\ PathInv /\ MeasuredInv /\ TemperatureType /\ ControlType /\ FlagType /\ [Next]_vars
    => HotInv'
<1> SUFFICES ASSUME HotInv, PathInv, MeasuredInv, TemperatureType, ControlType, FlagType,
                    [Next]_vars
             PROVE  HotInv'
  OBVIOUS
<1> USE TargetAssumption, ValueType
    DEF HotInv, Regulated, LetCool, HotWhenOff, Fallen, Drift, PathInv, Lost, Heating,
        HEATER_OFF_TEMPERATURE
<1>1. CASE ChangeHeat
  BY <1>1, SMTT(20) DEF ChangeHeat, MeasuredInv, TemperatureType, FlagType, ClearTemperatures,
     temperatures, mainVars, environment
<1>2. CASE ChangeConnection
  BY <1>2 DEF ChangeConnection, MeasuredInv, TemperatureType, FlagType, ClearTemperatures,
     temperatures, mainVars, environment
<1>3. CASE Stop
  BY <1>3 DEF Stop, MeasuredInv, TemperatureType, FlagType, ClearTemperatures, temperatures,
     mainVars, environment
<1>4. CASE Tick
  BY <1>4, SMTT(20) DEF Tick, MeasuredInv, TemperatureType, FlagType, ClearTemperatures, temperatures,
     mainVars, environment
<1>5. CASE WaitTimer
  BY <1>5 DEF WaitTimer, MeasuredInv, TemperatureType, FlagType, ClearTemperatures,
     temperatures, mainVars, environment
<1>6. ASSUME NEW r \in Request, Begin(r) PROVE HotInv'
  BY <1>6 DEF Begin, MeasuredInv, TemperatureType, FlagType, ClearTemperatures, temperatures,
     mainVars, environment
<1>7. CASE Dispatch
  BY <1>7 DEF Dispatch, At, MeasuredInv, TemperatureType, FlagType, ClearTemperatures,
     temperatures, mainVars, environment
<1>8. CASE Set
  BY <1>8 DEF Set, At, MeasuredInv, TemperatureType, FlagType, ClearTemperatures,
     temperatures, mainVars, environment
<1>9. CASE Compare
  <2>1. /\ pc' = "drive" /\ lowerNewValue' = (request.value < actualTemperature)
        /\ UNCHANGED <<idealTemperature, actualTemperature, heaterOn, isWorking, request,
                       heat, changed>>
    BY <1>9 DEF Compare, At, temperatures, environment
  <2>2. ASSUME lowerNewValue' = TRUE PROVE Regulated'
    <3>1. request.value < actualTemperature
      BY <2>1, <2>2
    <3>2. heat >= request.value
      BY <3>1 DEF MeasuredInv, TemperatureType
    <3>. QED
      BY <2>1, <3>2 DEF TemperatureType
  <2>. QED
    BY <2>1, <2>2
<1>10. CASE Drive
  BY <1>10, SMTT(20) DEF Drive, At, MeasuredInv, TemperatureType, FlagType, ClearTemperatures,
     temperatures, mainVars, environment
<1>11. CASE Wait
  BY <1>11, SMTT(20) DEF Wait, At, MeasuredInv, TemperatureType, FlagType, ClearTemperatures,
     temperatures, mainVars, environment
<1>12. CASE Answer
  BY <1>12 DEF Answer, At, MeasuredInv, TemperatureType, FlagType, ClearTemperatures,
     temperatures, mainVars, environment
<1>13. CASE Obey
  BY <1>13 DEF Obey, At, MeasuredInv, TemperatureType, FlagType, ClearTemperatures,
     temperatures, mainVars, environment
<1>14. CASE Reset
  BY <1>14 DEF Reset, At, MeasuredInv, TemperatureType, FlagType, ClearTemperatures,
     temperatures, mainVars, environment
<1>15. CASE Resume
  BY <1>15 DEF Resume, MeasuredInv, TemperatureType, FlagType, ClearTemperatures,
     temperatures, mainVars, environment
<1>16. CASE Guard
  BY <1>16 DEF Guard, TestConnection, At, MeasuredInv, TemperatureType, FlagType,
     ClearTemperatures, temperatures, mainVars, environment
<1>17. CASE Ask
  BY <1>17 DEF Ask, TestConnection, At, MeasuredInv, TemperatureType, FlagType,
     ClearTemperatures, temperatures, mainVars, environment
<1>18. CASE Test
  BY <1>18 DEF Test, TestConnection, At, MeasuredInv, TemperatureType, FlagType,
     ClearTemperatures, temperatures, mainVars, environment
<1>19. CASE Read
  BY <1>19 DEF Read, TestConnection, At, MeasuredInv, TemperatureType, FlagType,
     ClearTemperatures, temperatures, mainVars, environment
<1>20. CASE GuardOff
  BY <1>20 DEF GuardOff, TurnOff, At, MeasuredInv, TemperatureType, FlagType,
     ClearTemperatures, temperatures, mainVars, environment
<1>21. CASE AskOff
  BY <1>21 DEF AskOff, TurnOff, At, MeasuredInv, TemperatureType, FlagType, ClearTemperatures,
     temperatures, mainVars, environment
<1>22. CASE TestOff
  BY <1>22 DEF TestOff, TurnOff, At, MeasuredInv, TemperatureType, FlagType,
     ClearTemperatures, temperatures, mainVars, environment
<1>23. CASE UpdateOff
  BY <1>23 DEF UpdateOff, TurnOff, At, MeasuredInv, TemperatureType, FlagType,
     ClearTemperatures, temperatures, mainVars, environment
<1>24. CASE SetOff
  BY <1>24 DEF SetOff, TurnOff, At, MeasuredInv, TemperatureType, FlagType, ClearTemperatures,
     temperatures, mainVars, environment
<1>25. CASE ReadOff
  BY <1>25 DEF ReadOff, TurnOff, At, MeasuredInv, TemperatureType, FlagType,
     ClearTemperatures, temperatures, mainVars, environment
<1>26. CASE EepromOff
  BY <1>26 DEF EepromOff, TurnOff, At, MeasuredInv, TemperatureType, FlagType,
     ClearTemperatures, temperatures, mainVars, environment
<1>27. CASE ResetOff
  BY <1>27 DEF ResetOff, TurnOff, At, MeasuredInv, TemperatureType, FlagType,
     ClearTemperatures, temperatures, mainVars, environment
<1>28. CASE Update
  BY <1>28 DEF Update, UpdateHeaterChanges, At, MeasuredInv, TemperatureType, FlagType,
     ClearTemperatures, temperatures, mainVars, environment
<1>29. CASE Eeprom
  BY <1>29 DEF Eeprom, UpdateHeaterChanges, At, MeasuredInv, TemperatureType, FlagType,
     ClearTemperatures, temperatures, mainVars, environment
<1>30. CASE UNCHANGED vars
  BY <1>30 DEF vars, MeasuredInv, TemperatureType, FlagType, ClearTemperatures, temperatures,
     mainVars, environment
<1>. QED
  BY <1>1, <1>2, <1>3, <1>4, <1>5, <1>6, <1>7, <1>8, <1>9, <1>10, <1>11, <1>12, <1>13, <1>14,
     <1>15, <1>16, <1>17, <1>18, <1>19, <1>20, <1>21, <1>22, <1>23, <1>24, <1>25, <1>26,
     <1>27, <1>28, <1>29, <1>30
  DEF Next, MainLoop, SetTemperature

\* The inductive invariant of the answer.
AnswerInv == IInv /\ PathInv /\ MeasuredInv /\ HotInv

LEMMA AnswerInvariance == Spec => []AnswerInv
<1>1. Init => AnswerInv
  <2> SUFFICES ASSUME Init PROVE AnswerInv
    OBVIOUS
  <2>1. PathInv /\ MeasuredInv /\ HotInv
    BY DEF Init, PathInv, MeasuredInv, HotInv, HEATER_OFF_TEMPERATURE
  <2>. QED
    BY <2>1, InitInvariant DEF AnswerInv
<1>2. AnswerInv /\ [Next]_vars => AnswerInv'
  BY TemperatureStep, ControlStep, FlagStep, RegulationStep, ResetStep, PathStep, MeasuredStep,
     HotStep DEF AnswerInv, IInv
<1>. QED
  BY <1>1, <1>2, PTL DEF Spec

\* Only Answer ends a request.
LEMMA AnswerEnds == ASSUME Next, pc = "answer", pc' = "idle" PROVE Answer
  BY DEF Next, MainLoop, SetTemperature, ChangeHeat, ChangeConnection, Stop, Tick, WaitTimer,
         Begin, Guard, GuardOff, Dispatch, Test, TestOff, Update, UpdateOff, Set, SetOff, Read,
         ReadOff, Compare, Drive, Wait, Ask, AskOff, Eeprom, EepromOff, Obey, Reset,
         ResetOff, Resume, TestConnection, TurnOff, UpdateHeaterChanges, At, mainVars

\* M109 is answered ok only when the heater is as hot as was asked for, up to
\* Drift: however setTemperature, the interrupt, a lost connection and a stop
\* interleave, and for every set of targets.
THEOREM HotEnoughCorrect == Spec => OkMeansHotEnough
<1> DEFINE Hot == Confirmed => heat >= request.value - Drift
<1>1. AnswerInv /\ [Next]_vars => [Hot]_vars
  <2> SUFFICES ASSUME AnswerInv, Next, Confirmed PROVE heat >= request.value - Drift
    OBVIOUS
  <2>1. Answer /\ pc = "answer" /\ request.name = "M109" /\ answer' = "ok"
    BY AnswerEnds DEF Confirmed
  <2>2. emergencyStopRequest # TRUE /\ isWorking # FALSE /\ answer # "unsupported"
    BY <2>1 DEF Answer
  <2>3. request.value \in Nat /\ heat \in Nat
    BY ValueType, TargetAssumption DEF AnswerInv, IInv, TemperatureType
  <2>4. request.value = HEATER_OFF_TEMPERATURE \/ heat >= request.value - Drift
    BY <2>1, <2>2 DEF AnswerInv, HotInv, Lost
  <2>. QED
    BY <2>3, <2>4 DEF HEATER_OFF_TEMPERATURE, Drift
<1>. QED
  BY <1>1, AnswerInvariance, PTL DEF Spec, OkMeansHotEnough
=============================================================================
