------------------------------ MODULE Stepping ------------------------------
(***************************************************************************)
(* From movements to steps (motors.cpp), in two parts that share no        *)
(* variables.                                                              *)
(*                                                                         *)
(* How a motor's movements of any length become whole steps: the fraction  *)
(* of a step that a movement leaves over is carried to the next one,       *)
(* turned round when the direction changes, and kept aside while the       *)
(* backlash is taken up.                                                   *)
(*                                                                         *)
(* Lengths are in parts of a step, D to the step (length * steps/mm *      *)
(* microsteps).                                                            *)
(*                                                                         *)
(* One movement of the motors: the delay and the skips that spread each    *)
(* motor's steps over the movement's cycles, and the step timer interrupt  *)
(* that counts them down while the main loop waits.                        *)
(*                                                                         *)
(* Times are in step timer periods; the cycles a feed rate asks for are a  *)
(* fraction of them, counted in 1/DEN of a period.  Division of floats is  *)
(* exact here, conversions to integers truncate as in C++.                 *)
(***************************************************************************)
EXTENDS Integers, FiniteSetsExt

-----------------------------------------------------------------------------
(* Whole steps and the fraction that is carried.                           *)

CONSTANTS
    D,                     \* parts of a step
    LENGTHS,               \* lengths of movements, in parts
    BACKLASH,              \* length of the play, in parts
    LIMIT                  \* bound on the wanted position

ASSUME StepAssumption ==
    /\ D \in Nat \ {0} /\ BACKLASH \in Nat /\ LIMIT \in Nat
    /\ \A n \in LENGTHS : n \in Nat \ {0}

VARIABLES
    wanted,                \* where the value says the motor is, in parts
    steps,                 \* steps the motor made, up minus down
    pin,                   \* direction pin
    motorsNumberOfRemainingSteps,   \* fraction of a step in the pin's direction, in parts
    direction,             \* currentMotorDirections: the side the play is taken up on
    play                   \* steps spent on the play

fractionVars == <<wanted, steps, pin, motorsNumberOfRemainingSteps, direction, play>>
remaining == motorsNumberOfRemainingSteps

FractionInit ==
    /\ wanted = 0 /\ steps = 0 /\ motorsNumberOfRemainingSteps = 0
    /\ pin \in {-1, 1} /\ direction = pin /\ play = 0

\* Faulty: the fraction keeps its sign when the motor turns.
TotalUnturned(n, d) == n + remaining

\* Steps to make towards d, in parts.
Total(n, d) == n + IF d # pin THEN -remaining ELSE remaining

\* What is left of a movement after its whole steps.
Remainder(total) == IF total >= D THEN total - D * (total \div D) ELSE total

WholeSteps(total) == IF total >= D THEN total \div D ELSE 0

\* compensateForBacklash moves with no fraction carried and restores it.
PlaySteps == BACKLASH \div D

\* A movement of length n towards d; the play is taken up when the motor
\* takes at least one step and its side changes.
Move(n, d) ==
    LET total == Total(n, d)
        turn == total >= D /\ direction # d
    IN /\ wanted' = wanted + d * n
       /\ pin' = d
       /\ motorsNumberOfRemainingSteps' = Remainder(total)
       /\ direction' = IF turn THEN d ELSE direction
       /\ play' = IF turn THEN play + d * PlaySteps ELSE play
       /\ steps' = steps + d * WholeSteps(total) + IF turn THEN d * PlaySteps ELSE 0

\* Homing ends at a known place with no fraction left.
Home(d) ==
    /\ wanted' = 0 /\ steps' = 0 /\ motorsNumberOfRemainingSteps' = 0
    /\ pin' = d /\ direction' = d /\ play' = 0

FractionNext ==
    \/ \E n \in LENGTHS, d \in {-1, 1} :
          wanted + d * n \in -LIMIT .. LIMIT /\ Move(n, d)
    \/ \E d \in {-1, 1} : Home(d)

FractionSpec == FractionInit /\ [][FractionNext]_fractionVars

FractionTypeOK ==
    /\ wanted \in Int /\ steps \in Int /\ play \in Int
    /\ motorsNumberOfRemainingSteps \in Int
    /\ pin \in {-1, 1} /\ direction \in {-1, 1}

-----------------------------------------------------------------------------
(* The steps made and the fraction carried add up to the position wanted.  *)
NoDrift == D * (steps - play) + pin * remaining = wanted

FractionBounded == -D < remaining /\ remaining < D

(* However many movements of fractional length there were, in whatever     *)
(* directions and with the play taken up between them, the steps that the  *)
(* motor made for them leave it less than one step from where it is        *)
(* wanted: rounding errors do not accumulate (move).                       *)
WithinOneStep ==
    LET off == D * (steps - play) - wanted
    IN -D < off /\ off < D

(* Taking up the play on one side and then on the other cancels out, so    *)
(* the play is at most one backlash away from where it began.              *)
PlayBounded == play \in {-PlaySteps, 0, PlaySteps}

-----------------------------------------------------------------------------
(* The steps of one movement in time.                                      *)

CONSTANTS
    MOTORS,
    MAX_STEPS,             \* steps of a motor in one movement
    MAX_CYCLES,            \* periods that a feed rate asks for
    DEN,
    MOVEMENTS              \* movements in all

SteppingAssumption ==
    /\ MOTORS # {}
    /\ MAX_STEPS \in Nat \ {0} /\ MAX_CYCLES \in Nat \ {0} /\ DEN \in Nat \ {0} /\ MOVEMENTS \in Nat

VARIABLES
    asked,                 \* steps of each motor in this movement
    cycles,                \* movementsHighestNumberOfCycles, in 1/DEN of a period
    motorsNumberOfSteps, motorsIsMoving,
    motorsStepDelay, motorsStepDelayCounter,
    motorsDelaySkips, motorsDelaySkipsCounter,
    timer,                 \* the step timer has a clock source
    pulses,                \* steps each motor made
    elapsed, ended,        \* periods since the start; when each motor ended
    movements

speeds == <<motorsStepDelay, motorsDelaySkips>>
steppingVars == <<asked, cycles, motorsNumberOfSteps, motorsIsMoving, speeds,
          motorsStepDelayCounter, motorsDelaySkipsCounter, timer, pulses, elapsed, ended,
          movements>>

Zero == [m \in MOTORS |-> 0]

SteppingInit ==
    /\ asked = Zero /\ cycles = 0
    /\ motorsNumberOfSteps = Zero /\ motorsIsMoving = [m \in MOTORS |-> FALSE]
    /\ motorsStepDelay = Zero /\ motorsStepDelayCounter = Zero
    /\ motorsDelaySkips = Zero /\ motorsDelaySkipsCounter = Zero
    /\ timer = FALSE
    /\ pulses = Zero /\ elapsed = 0 /\ ended = Zero /\ movements = 0

-----------------------------------------------------------------------------
(* The speed of each motor.                                                *)

\* The longest a motor needs, by the feed rate or by the step timer.
getMovementsNumberOfCycles(n, feed) == Max({feed, Max({n[m] * DEN : m \in MOTORS})})

\* Faulty: the delay is not incremented when skipping cannot make up for it.
StepDelayTruncated(n, c) == Max({c \div (DEN * n), 1})

StepDelay(n, c) ==
    LET delay == Max({c \div (DEN * n), 1})
    IN IF (2 * n * delay - 1) * DEN < c THEN delay + 1 ELSE delay

DelaySkips(n, delay, c) ==
    LET denominator == c - (n * delay - 1) * DEN
    IN IF denominator > 0 THEN (n * delay * DEN) \div denominator ELSE 0

-----------------------------------------------------------------------------
areMotorsMoving == \E m \in MOTORS : motorsIsMoving[m]

\* The second half of move: the main loop starts the timer and waits.
MoveMotors(n, feed) ==
    LET c == getMovementsNumberOfCycles(n, feed)
        moving == [m \in MOTORS |-> n[m] >= 1 \/ motorsIsMoving[m]]
        left == [m \in MOTORS |-> IF n[m] >= 1 THEN n[m] ELSE motorsNumberOfSteps[m]]
        delay == [m \in MOTORS |-> IF moving[m] THEN StepDelay(left[m], c) ELSE motorsStepDelay[m]]
        cleared(f) == [m \in MOTORS |-> IF moving[m] THEN 0 ELSE f[m]]
    IN /\ asked' = n /\ cycles' = c
       /\ motorsIsMoving' = moving /\ motorsNumberOfSteps' = left
       /\ motorsStepDelay' = delay
       /\ motorsDelaySkips' = [m \in MOTORS |-> IF moving[m] THEN DelaySkips(left[m], delay[m], c)
                                                ELSE motorsDelaySkips[m]]
       /\ motorsStepDelayCounter' = cleared(motorsStepDelayCounter)
       /\ motorsDelaySkipsCounter' = cleared(motorsDelaySkipsCounter)
       /\ timer' = TRUE
       /\ pulses' = Zero /\ elapsed' = 0 /\ ended' = Zero
       /\ movements' = movements + 1

Skips(m) == motorsDelaySkips[m] # 0 /\ motorsDelaySkipsCounter[m] >= motorsDelaySkips[m]

Steps(m) == ~Skips(m) /\ motorsStepDelayCounter[m] + 1 >= motorsStepDelay[m]

\* The motors that the interrupt performs an action for.
SteppingMotors == {m \in MOTORS : motorsIsMoving[m]}

\* updateMotorsStepTimer: motorsStepAction for each moving motor.
StepInterrupt ==
    /\ timer
    /\ LET stepping == {m \in SteppingMotors : Steps(m)}
           last == {m \in stepping : motorsNumberOfSteps[m] = 1}
           add(f, S) == [m \in MOTORS |-> IF m \in S THEN f[m] + 1 ELSE f[m]]
       IN /\ SteppingMotors # {}
          /\ motorsDelaySkipsCounter' =
                [m \in MOTORS |-> IF m \notin SteppingMotors \/ motorsDelaySkips[m] = 0
                                  THEN motorsDelaySkipsCounter[m]
                                  ELSE IF Skips(m) THEN 0 ELSE motorsDelaySkipsCounter[m] + 1]
          /\ motorsStepDelayCounter' =
                [m \in MOTORS |-> IF m \notin SteppingMotors \/ Skips(m) THEN motorsStepDelayCounter[m]
                                  ELSE IF m \in stepping THEN 0 ELSE motorsStepDelayCounter[m] + 1]
          /\ motorsNumberOfSteps' = [m \in MOTORS |-> IF m \in stepping THEN motorsNumberOfSteps[m] - 1
                                                      ELSE motorsNumberOfSteps[m]]
          /\ motorsIsMoving' = [m \in MOTORS |-> motorsIsMoving[m] /\ m \notin last]
          /\ pulses' = add(pulses, stepping)
          /\ elapsed' = elapsed + 1
          /\ ended' = [m \in MOTORS |-> IF m \in last THEN elapsed + 1 ELSE ended[m]]
    /\ UNCHANGED <<asked, cycles, speeds, timer, movements>>

\* The main loop's wait ends; stopMotorsStepTimer.
Finish ==
    /\ timer /\ ~areMotorsMoving
    /\ timer' = FALSE
    /\ UNCHANGED <<asked, cycles, motorsNumberOfSteps, motorsIsMoving, speeds,
                   motorsStepDelayCounter, motorsDelaySkipsCounter, pulses, elapsed, ended, movements>>

\* Faulty: the timer is stopped but the motors still count as moving.
StopKeepsMoving ==
    /\ timer /\ areMotorsMoving
    /\ timer' = FALSE
    /\ UNCHANGED <<asked, cycles, motorsNumberOfSteps, motorsIsMoving, speeds,
                   motorsStepDelayCounter, motorsDelaySkipsCounter, pulses, elapsed, ended,
                   movements>>

\* An emergency stop ends the wait with motors still moving.
StopMotors ==
    /\ timer /\ areMotorsMoving
    /\ timer' = FALSE
    /\ motorsIsMoving' = [m \in MOTORS |-> FALSE]
    /\ UNCHANGED <<asked, cycles, motorsNumberOfSteps, speeds, motorsStepDelayCounter,
                   motorsDelaySkipsCounter, pulses, elapsed, ended, movements>>

Movements == [MOTORS -> 0 .. MAX_STEPS]
SteppingNext ==
    \/ ~timer /\ movements < MOVEMENTS
       /\ \E n \in Movements, feed \in 1 .. DEN * MAX_CYCLES : MoveMotors(n, feed)
    \/ StepInterrupt \/ Finish \/ StopMotors

SteppingSpec == SteppingInit /\ [][SteppingNext]_steppingVars

-----------------------------------------------------------------------------
Ended(m) == asked[m] > 0 /\ pulses[m] = asked[m]

(* A motor makes exactly the steps it was asked for, whatever the other    *)
(* motors do, and none once it has ended.                                  *)
StepsAccountedFor ==
    \A m \in MOTORS : /\ timer /\ asked[m] > 0 => pulses[m] + motorsNumberOfSteps[m] = asked[m]
                      /\ asked[m] = 0 => pulses[m] = 0

(* A motor never moves faster than the feed rate asks and never takes      *)
(* twice as long: truncating the delay and the skips errs to one side only *)
(* and skipping at most doubles the time.                                  *)
FeedRateKept ==
    \A m \in MOTORS : Ended(m) => /\ ended[m] * DEN >= cycles
                                  /\ ended[m] * DEN < 2 * cycles + DEN

(* The interrupt's count of periods is the one the comment above           *)
(* motorsStepAction gives in closed form.                                  *)
Ceil(a, b) == -((-a) \div b)
TotalPeriods(m) ==
    IF motorsDelaySkips[m] = 0 THEN asked[m] * motorsStepDelay[m]
    ELSE Ceil(asked[m] * motorsStepDelay[m] * (motorsDelaySkips[m] + 1) - motorsDelaySkips[m],
              motorsDelaySkips[m])
TimeIsTheFormula == \A m \in MOTORS : Ended(m) => ended[m] = TotalPeriods(m)

(* A motor takes the time that its feed rate asks for, the one given by    *)
(* the comment in motorsStepAction: never less and never twice as much.    *)
TimeWithinFeedRate == FeedRateKept /\ TimeIsTheFormula
=============================================================================
