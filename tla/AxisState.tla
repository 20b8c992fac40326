------------------------------ MODULE AxisState -----------------------------
(***************************************************************************)
(* The direction, validity and value of the axes: how the main loop        *)
(* changes them around a movement, how the save timer interrupt copies     *)
(* them to EEPROM one parameter at a time, and what is restored after a    *)
(* loss of power or an M115 S628 reset.                                    *)
(*                                                                         *)
(* A value is written in two halves, in RAM by the main loop and in EEPROM *)
(* by the interrupt: the float takes several stores in both places.  The   *)
(* time unit is one save (200 ms).                                         *)
(***************************************************************************)
EXTENDS Naturals, Sequences

CONSTANTS
    AXES,                  \* the axes in the order they are saved
    DIRECTED,              \* those whose direction is saved (X and Y)
    VALUES,                \* values an axis is given, each a pair of halves
    BETWEEN,               \* where an axis is that has not arrived
    MOVES,                 \* commands that change an axis
    LOSSES                 \* losses of power and resets

AxisAssumption ==
    /\ AXES \in Seq({"X", "Y", "Z"}) /\ AXES # <<>>
    /\ DIRECTED \subseteq {AXES[i] : i \in DOMAIN AXES}
    /\ VALUES # {} /\ \A v \in VALUES : v = [half \in 1 .. 2 |-> v[half]]
    /\ MOVES \in Nat /\ LOSSES \in Nat

Axis == {AXES[i] : i \in DOMAIN AXES}
PARAMETERS == <<"direction", "validity", "value">>
ROUND == Len(AXES) * Len(PARAMETERS)       \* saves until every parameter had its turn

VARIABLES
    current,               \* currentMotorDirections, currentStateOfValues, currentValues
    saved,                 \* the saved copies, in EEPROM
    saving,                \* the save timer's interrupt level is not off
    cursor,                \* index of currentSaveMotor, index of currentSaveParameter
    halfSaved,             \* the interrupt is between the halves of a value
    step, axis, target, kind, validValue,    \* the main loop's command
    head,                  \* where each axis really is
    age,                   \* saves since the axis last changed, up to ROUND
    doubtful,              \* axes that lost power before a whole round of saves
    whole,                 \* the values each axis has had in full
    moves, losses

mainVars == <<step, axis, target, kind, validValue>>
axisVars == <<current, saved, saving, cursor, halfSaved, mainVars, head, age,
              doubtful, whole, moves, losses>>

\* A printer that was homed and has saved everything.
AxisInit ==
    /\ target = CHOOSE v \in VALUES : TRUE
    /\ current = [a \in Axis |-> [direction |-> "higher", validity |-> "VALID", value |-> target]]
    /\ head = [a \in Axis |-> target]
    /\ whole = [a \in Axis |-> {target}]
    /\ saved = current
    /\ saving = TRUE /\ cursor = <<Len(AXES), Len(PARAMETERS)>> /\ halfSaved = FALSE
    /\ step = "idle" /\ axis = AXES[1] /\ kind = "move" /\ validValue = "VALID"
    /\ age = [a \in Axis |-> ROUND] /\ doubtful = {}
    /\ moves = 0 /\ losses = 0

-----------------------------------------------------------------------------
(* The main loop.  It does not run while the interrupt does.               *)

Changed == age' = [age EXCEPT ![axis] = 0]

\* Faulty: a movement does not set that the value is invalid.
BeginStillValid(a, t, k) ==
    /\ step = "idle" /\ ~halfSaved /\ moves < MOVES
    /\ step' = "off" /\ axis' = a /\ target' = t /\ kind' = k /\ moves' = moves + 1
    /\ validValue' = current[a].validity
    /\ UNCHANGED <<current, age, saved, saving, cursor, halfSaved, head, doubtful, whole, losses>>

Begin(a, t, k) ==
    /\ step = "idle" /\ ~halfSaved /\ moves < MOVES
    /\ step' = "off" /\ axis' = a /\ target' = t /\ kind' = k /\ moves' = moves + 1
    /\ validValue' = current[a].validity
    /\ current' = IF k = "G92" THEN current
                  ELSE [current EXCEPT ![a].validity = "INVALID"]
    /\ age' = [age EXCEPT ![a] = 0]
    /\ UNCHANGED <<saved, saving, cursor, halfSaved, head, doubtful, whole, losses>>

DisableSaving ==
    /\ step = "off" /\ ~halfSaved
    /\ step' = "first" /\ saving' = FALSE
    /\ UNCHANGED <<current, saved, cursor, halfSaved, axis, target, kind, validValue,
                   head, age, doubtful, whole, moves, losses>>

WriteHalf(from, to, half) ==
    /\ step = from /\ ~halfSaved
    /\ step' = to
    /\ current' = [current EXCEPT ![axis].value[half] = target[half]]
    /\ Changed
    /\ UNCHANGED <<saved, saving, cursor, halfSaved, axis, target, kind, validValue,
                   head, doubtful, whole, moves, losses>>

\* G92 names the place where the axis is; the others move to the value.
EnableSaving ==
    /\ step = "on" /\ ~halfSaved
    /\ step' = IF kind = "G92" THEN "idle" ELSE "travel"
    /\ saving' = TRUE
    /\ whole' = [whole EXCEPT ![axis] = @ \cup {target}]
    /\ head' = IF kind = "G92" THEN [head EXCEPT ![axis] = target] ELSE head
    /\ UNCHANGED <<current, saved, cursor, halfSaved, axis, target, kind, validValue,
                   age, doubtful, moves, losses>>

Travel ==
    /\ step = "travel" /\ ~halfSaved
    /\ head' = [head EXCEPT ![axis] = BETWEEN]
    /\ UNCHANGED <<current, saved, saving, cursor, halfSaved, mainVars, age, doubtful,
                   whole, moves, losses>>

\* Arrived: a movement restores the validity, homing makes the axis valid.
Arrive(d) ==
    /\ step = "travel" /\ ~halfSaved
    /\ step' = "idle"
    /\ head' = [head EXCEPT ![axis] = target]
    /\ current' = [current EXCEPT ![axis].direction = d,
                       ![axis].validity = IF kind = "home" THEN "VALID" ELSE validValue]
    /\ doubtful' = IF kind = "home" THEN doubtful \ {axis} ELSE doubtful
    /\ Changed
    /\ UNCHANGED <<saved, saving, cursor, halfSaved, axis, target, kind, validValue,
                   whole, moves, losses>>

\* An emergency stop ends the movement where it is; the value stays invalid.
StopMovement(d) ==
    /\ step = "travel" /\ ~halfSaved
    /\ step' = "idle"
    /\ current' = [current EXCEPT ![axis].direction = d]
    /\ Changed
    /\ UNCHANGED <<saved, saving, cursor, halfSaved, axis, target, kind, validValue,
                   head, doubtful, whole, moves, losses>>

-----------------------------------------------------------------------------
(* The save interrupt.                                                     *)

Advance ==
    IF cursor[2] = Len(PARAMETERS)
    THEN <<IF cursor[1] = Len(AXES) THEN 1 ELSE cursor[1] + 1, 1>>
    ELSE <<cursor[1], cursor[2] + 1>>

\* changeState(true, motor, parameter) for all but a value.
Saved(a, parameter) ==
    CASE parameter = "direction" /\ a \in DIRECTED ->
             [saved EXCEPT ![a].direction = current[a].direction]
      [] parameter = "validity" -> [saved EXCEPT ![a].validity = current[a].validity]
      [] OTHER -> saved

Older == age' = [a \in Axis |-> IF age[a] < ROUND THEN age[a] + 1 ELSE ROUND]

SaveTick ==
    /\ saving /\ ~halfSaved
    /\ cursor' = Advance
    /\ LET a == AXES[cursor'[1]]
           parameter == PARAMETERS[cursor'[2]]
       IN IF parameter = "value" /\ saved[a].value # current[a].value
          THEN /\ saved' = [saved EXCEPT ![a].value[1] = current[a].value[1]]
               /\ halfSaved' = TRUE /\ UNCHANGED age
          ELSE saved' = Saved(a, parameter) /\ Older /\ UNCHANGED halfSaved
    /\ UNCHANGED <<current, saving, mainVars, head, doubtful, whole, moves, losses>>

SaveSecondHalf ==
    /\ halfSaved /\ halfSaved' = FALSE
    /\ LET a == AXES[cursor[1]]
       IN saved' = [saved EXCEPT ![a].value[2] = current[a].value[2]]
    /\ Older
    /\ UNCHANGED <<current, saving, cursor, mainVars, head, doubtful, whole, moves, losses>>

-----------------------------------------------------------------------------
(* Restarts: restoreState and the initial values of the interrupt.         *)

Restored(copies) ==
    [a \in Axis |-> IF a \in DIRECTED THEN copies[a]
                    ELSE [copies[a] EXCEPT !.direction = current[a].direction]]

Restart ==
    /\ cursor' = <<Len(AXES), Len(PARAMETERS)>>
    /\ saving' = TRUE /\ halfSaved' = FALSE
    /\ step' = "idle" /\ UNCHANGED <<axis, target, kind, validValue>>
    /\ losses < LOSSES /\ losses' = losses + 1

PowerLoss ==
    /\ Restart
    /\ current' = Restored(saved)
    /\ doubtful' = doubtful \cup {a \in Axis : age[a] < ROUND}
    /\ whole' = [a \in Axis |-> whole[a] \cup {saved[a].value}]
    /\ age' = [a \in Axis |-> ROUND]
    /\ UNCHANGED <<saved, head, moves>>

\* M115 S628 saves every parameter of every axis with the interrupts off.
Reset ==
    /\ step = "idle" /\ ~halfSaved
    /\ Restart
    /\ saved' = [a \in Axis |-> IF a \in DIRECTED THEN current[a]
                                 ELSE [current[a] EXCEPT !.direction = saved[a].direction]]
    /\ current' = Restored(saved')
    /\ age' = [a \in Axis |-> ROUND]
    /\ UNCHANGED <<head, doubtful, whole, moves>>

AxisNext ==
    \/ \E a \in Axis, t \in VALUES, k \in {"move", "home", "G92"} : Begin(a, t, k)
    \/ DisableSaving \/ WriteHalf("first", "second", 1) \/ WriteHalf("second", "on", 2)
    \/ EnableSaving \/ Travel
    \/ \E d \in {"lower", "higher"} : Arrive(d) \/ StopMovement(d)
    \/ SaveTick \/ SaveSecondHalf
    \/ PowerLoss \/ Reset

AxisSpec == AxisInit /\ [][AxisNext]_axisVars

-----------------------------------------------------------------------------
Same(a) ==
    /\ saved[a].validity = current[a].validity /\ saved[a].value = current[a].value
    /\ a \in DIRECTED => saved[a].direction = current[a].direction

(* An axis that has not changed for one round of saves is in EEPROM as it  *)
(* is in RAM: the save timer's rotation over axes and parameters leaves    *)
(* nothing out and staleness is bounded by that round.                     *)
StaleForOneRoundAtMost == \A a \in Axis : age[a] = ROUND /\ ~halfSaved => Same(a)

(* The interrupt never saves a value that the main loop had written only   *)
(* half of: outside the interrupt EEPROM holds values the axis had.        *)
NoTornValueSaved == ~halfSaved => \A a \in Axis : saved[a].value \in whole[a]

(* A valid axis at rest is where its value says, unless power was lost     *)
(* within a round of its last change.                                      *)
ValidIsThere ==
    \A a \in Axis : /\ current[a].validity = "VALID" /\ a \notin doubtful
                    /\ (axis = a => step = "idle")
                    => head[a] = current[a].value

(* After any history of movements, stops, losses of power and resets, an   *)
(* axis at rest that is called valid is where its value says, unless power *)
(* was lost within a round of its last change.  This is what making the    *)
(* axis invalid before a movement and keeping it so after a stop is for.   *)
(* The interrupt never saves a value that the main loop had written only   *)
(* half of, and an axis that has not changed for one round of saves is in  *)
(* the EEPROM.                                                             *)
ValidMeansThere == ValidIsThere /\ NoTornValueSaved /\ StaleForOneRoundAtMost
=============================================================================
