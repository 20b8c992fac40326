------------------------------ MODULE Movement ------------------------------
(***************************************************************************)
(* Movements: move with its tasks, the backlash compensation and the       *)
(* segments it consists of, moveToHeight around it, the G-code modes, and  *)
(* the changes of the bed that M618 makes, with an emergency stop at any   *)
(* point.                                                                  *)
(*                                                                         *)
(* X stands for the horizontal axes, which have backlash and skew, and Z   *)
(* for the vertical one.  The bed's height and the skew are linear and all *)
(* lengths are whole, so that compensation is exact.  A movement without a *)
(* task (Stepping) arrives or is cut short by a stop.  Targets are inside  *)
(* the boundaries (Boundaries).                                            *)
(***************************************************************************)
EXTENDS Integers, FiniteSetsExt

CONSTANTS
    XS, ZS,                \* places that commands name
    BEDS,                  \* beds: [tilt, offset, skew]
    BACKLASH,              \* play of X
    SEGMENT_LENGTH,
    BIG,                   \* a distance with more steps than fit a counter
    COMMANDS               \* commands in all

MovementAssumption ==
    /\ \A p \in XS \cup ZS : p \in Int /\ COMMANDS \in Nat
    /\ BACKLASH \in Nat /\ SEGMENT_LENGTH \in Nat \ {0} /\ BIG \in Nat \ {0}
    /\ \A b \in BEDS : b \in [tilt : Int, offset : Int, skew : Int]

VARIABLES
    value, valid,          \* currentValues and currentStateOfValues
    direction,             \* currentMotorDirections[X]
    mode,
    bed,                   \* what updateBedChanges last read
    motor,                 \* where the motors are
    carriage,              \* where X is: within BACKLASH below its motor
    moving,                \* motors with motorsIsMoving set
    emergencyStopRequest,
    pc, tasks, start, end, segment, backlash,          \* move and splitUpMovement
    validValues, splitValid, savedMode,
    toHeight, validZ, heightMode,                      \* moveToHeight
    wanted,                \* mode the commands asked for
    target,                \* where the command was to end
    rejected,              \* the last movement was too big
    slip,                  \* how far the values name another place since changes of the bed
    commands

moveVars == <<tasks, start, end, segment, backlash, validValues, splitValid, savedMode>>
heightVars == <<toHeight, validZ, heightMode>>
machine == <<motor, carriage, moving>>
vars == <<value, valid, direction, mode, bed, machine, emergencyStopRequest, pc, moveVars,
          heightVars, wanted, target, rejected, slip, commands>>

None == [x |-> FALSE, z |-> FALSE]

-----------------------------------------------------------------------------
(* Compensation.                                                           *)

getHeightAdjustmentRequired(b, x) == b.tilt * x
getSkewAdjustmentRequired(b, height) == b.skew * height

\* A place in G-code coordinates, in motor coordinates.
Real(b, p) ==
    LET z == p.z + getHeightAdjustmentRequired(b, p.x)
    IN [x |-> p.x + getSkewAdjustmentRequired(b, z), z |-> z]

Abs(n) == IF n < 0 THEN -n ELSE n
Sign(n) == IF n < 0 THEN -1 ELSE IF n > 0 THEN 1 ELSE 0

Init ==
    /\ bed \in BEDS
    /\ value = [x |-> 0, z |-> 0] /\ valid = [x |-> TRUE, z |-> TRUE]
    /\ direction = 1 /\ mode = "ABSOLUTE"
    /\ motor = [Real(bed, value) EXCEPT !.x = @ + BACKLASH] /\ carriage = motor.x - BACKLASH
    /\ moving = {} /\ emergencyStopRequest = FALSE
    /\ pc = "idle" /\ tasks = {} /\ start = value /\ end = value /\ segment = 0 /\ backlash = 0
    /\ validValues = None /\ splitValid = None /\ savedMode = mode
    /\ toHeight = FALSE /\ validZ = FALSE /\ heightMode = mode
    /\ wanted = mode /\ target = value /\ rejected = FALSE
    /\ slip = [x |-> 0, z |-> 0] /\ commands = 0

-----------------------------------------------------------------------------
(* A movement without a task, from the current values to p.                *)

\* Where the carriage is once its motor is at m: the play is taken up first.
Dragged(m) == IF m > carriage + BACKLASH THEN m - BACKLASH ELSE IF m < carriage THEN m ELSE carriage

Between(a, b) == IF a < b THEN a .. b ELSE b .. a

Put(x, z) == motor' = [x |-> x, z |-> z] /\ carriage' = Dragged(x)

Drive(p) ==
    LET x == motor.x + p.x - value.x
        z == motor.z + p.z - value.z
    IN \/ /\ emergencyStopRequest
          /\ moving' = moving \cup {a \in {"x", "z"} : p[a] # value[a]}
          /\ UNCHANGED <<motor, carriage, emergencyStopRequest>>
       \/ ~emergencyStopRequest /\ Put(x, z) /\ moving' = {} /\ UNCHANGED emergencyStopRequest
       \/ /\ ~emergencyStopRequest /\ emergencyStopRequest' = TRUE /\ moving' = {}
          /\ \E i \in Between(motor.x, x), j \in Between(motor.z, z) : Put(i, j)

-----------------------------------------------------------------------------
(* move with a task.                                                       *)

\* Steps of each axis; a unit is a step.
Steps(p, a) == Abs(p[a] - value[a])

TooBig(p) == \E a \in {"x", "z"} : Steps(p, a) > BIG

\* Which way X must take up its play first, if it turns.
Turned(p) == IF Steps(p, "x") >= 1 /\ Sign(p.x - value.x) # direction THEN Sign(p.x - value.x) ELSE 0

\* The first half: new values, what becomes invalid, which way X turns.
Move(p, t) ==
    LET bedTask == "BED_LEVELING_AND_SKEW" \in t
    IN IF TooBig(p)
       THEN /\ rejected' = TRUE /\ pc' = IF toHeight' THEN "end height" ELSE "idle"
            /\ UNCHANGED <<value, valid, moveVars>>
       ELSE /\ rejected' = FALSE /\ pc' = "split"
            /\ tasks' = t /\ start' = value /\ end' = p /\ value' = p /\ backlash' = Turned(p)
            /\ valid' = IF bedTask THEN [a \in {"x", "z"} |-> valid[a] /\ Steps(p, a) < 1] ELSE None
            /\ validValues' = IF bedTask THEN valid ELSE None
            /\ UNCHANGED <<segment, splitValid, savedMode>>

\* compensateForBacklash moves X by the play and puts the values back, then
\* splitUpMovement goes to the start in motor coordinates.
Split ==
    /\ pc = "split" /\ pc' = "segment"
    /\ IF "BACKLASH" \in tasks /\ backlash # 0
       THEN Drive([value EXCEPT !.x = @ + backlash * BACKLASH])
       ELSE UNCHANGED <<motor, carriage, moving, emergencyStopRequest>>
    /\ splitValid' = valid
    /\ IF "BED_LEVELING_AND_SKEW" \in tasks
       THEN value' = Real(bed, start) /\ valid' = None
       ELSE value' = start /\ UNCHANGED valid
    /\ savedMode' = mode /\ mode' = "ABSOLUTE"
    /\ segment' = 1
    /\ UNCHANGED <<direction, bed, tasks, start, end, backlash, validValues, heightVars, wanted,
                   target, rejected, slip, commands>>

Distance == Abs(end.x - start.x)

Segments == Max({1, (Distance + SEGMENT_LENGTH - 1) \div SEGMENT_LENGTH})

SegmentEnd(k) ==
    IF k = Segments THEN end
    ELSE [x |-> start.x + k * SEGMENT_LENGTH * Sign(end.x - start.x),
          z |-> start.z + ((end.z - start.z) * k * SEGMENT_LENGTH) \div Distance]

Segment ==
    /\ pc = "segment"
    /\ LET p == IF "BED_LEVELING_AND_SKEW" \in tasks THEN Real(bed, SegmentEnd(segment))
                ELSE SegmentEnd(segment)
       IN Drive(p) /\ value' = p
    /\ IF segment = Segments THEN pc' = "end segments" /\ UNCHANGED segment
       ELSE segment' = segment + 1 /\ UNCHANGED pc
    /\ UNCHANGED <<valid, direction, mode, bed, tasks, start, end, backlash, validValues,
                   splitValid, savedMode, heightVars, wanted, target, rejected, slip, commands>>

\* The end of splitUpMovement.
EndSegments ==
    /\ pc = "end segments" /\ pc' = "end move"
    /\ value' = end
    /\ valid' = IF emergencyStopRequest THEN valid ELSE splitValid
    /\ mode' = savedMode
    /\ UNCHANGED <<direction, bed, machine, emergencyStopRequest, moveVars, heightVars, wanted,
                   target, rejected, slip, commands>>

\* Faulty: the validities are restored after a stop too.
EndMoveAlwaysValid ==
    /\ pc = "end move" /\ pc' = IF toHeight THEN "end height" ELSE "idle"
    /\ direction' = IF backlash = 0 THEN direction ELSE backlash
    /\ valid' = validValues
    /\ UNCHANGED <<value, mode, bed, machine, emergencyStopRequest, moveVars, heightVars,
                   wanted, target, rejected, slip, commands>>

\* The end of move.
EndMove ==
    /\ pc = "end move" /\ pc' = IF toHeight THEN "end height" ELSE "idle"
    /\ direction' = IF backlash = 0 THEN direction ELSE backlash
    /\ valid' = IF emergencyStopRequest THEN valid ELSE validValues
    /\ UNCHANGED <<value, mode, bed, machine, emergencyStopRequest, moveVars, heightVars,
                   wanted, target, rejected, slip, commands>>

-----------------------------------------------------------------------------
(* Commands.                                                               *)

Command == pc = "idle" /\ ~emergencyStopRequest /\ commands < COMMANDS /\ commands' = commands + 1

\* The values that a command's parameters stand for in the current mode.
NewValues(x, z, parameters) ==
    LET origin == IF mode = "RELATIVE" THEN value ELSE [x |-> 0, z |-> 0]
    IN [x |-> IF "x" \in parameters THEN x + origin.x ELSE value.x,
        z |-> IF "z" \in parameters THEN z + origin.z ELSE value.z]

\* G0 and G1 with an X, a Z or both.
G0(x, z, parameters) ==
    /\ Command
    /\ LET p == NewValues(x, z, parameters)
       IN /\ target' = p
          /\ toHeight' = FALSE /\ UNCHANGED <<validZ, heightMode>>
          /\ Move(p, {"BACKLASH", "BED_LEVELING_AND_SKEW"})
    /\ UNCHANGED <<direction, mode, bed, machine, emergencyStopRequest, wanted, slip>>

moveToHeight(z, apply) ==
    /\ Command
    /\ toHeight' = TRUE /\ validZ' = valid.z /\ heightMode' = mode
    /\ mode' = "ABSOLUTE"
    /\ LET p == [value EXCEPT !.z = z]
       IN target' = p
          /\ Move(p, {"BACKLASH"} \cup IF apply THEN {"BED_LEVELING_AND_SKEW"} ELSE {})
    /\ UNCHANGED <<direction, bed, machine, emergencyStopRequest, wanted, slip>>

EndHeight ==
    /\ pc = "end height" /\ pc' = "idle"
    /\ mode' = heightMode
    /\ valid' = IF emergencyStopRequest THEN valid ELSE [valid EXCEPT !.z = validZ]
    /\ UNCHANGED <<value, direction, bed, machine, emergencyStopRequest, moveVars, heightVars,
                   wanted, target, rejected, slip, commands>>

\* G90 and G91.
SetMode(m) ==
    /\ Command
    /\ mode' = m /\ wanted' = m
    /\ UNCHANGED <<value, valid, direction, bed, machine, emergencyStopRequest, pc, moveVars,
                   heightVars, target, rejected, slip>>

\* updateBedChanges: the values that name the same place on the new bed.
Adjusted(b) ==
    LET z == value.z + getHeightAdjustmentRequired(bed, value.x) + bed.offset
             - getHeightAdjustmentRequired(b, value.x) - b.offset
        height(c, v) == v + getHeightAdjustmentRequired(c, value.x)
    IN [x |-> value.x + getSkewAdjustmentRequired(bed, height(bed, value.z))
                      - getSkewAdjustmentRequired(b, height(b, z)), z |-> z]

\* The height is adjusted at the X from before X itself is, so that on a
\* tilted bed the values come to name a place this much higher.
Slip(b) == getHeightAdjustmentRequired(b, Adjusted(b).x) - getHeightAdjustmentRequired(b, value.x)

\* M618 changes one of the bed's values.
M618(b) ==
    /\ Command
    /\ Cardinality({f \in {"tilt", "offset", "skew"} : b[f] # bed[f]}) = 1
    /\ bed' = b /\ value' = Adjusted(b)
    \* The origin of the motors' height moves with the offset.
    /\ motor' = [motor EXCEPT !.z = @ + bed.offset - b.offset]
    /\ target' = value'
    /\ slip' = [x |-> slip.x + getSkewAdjustmentRequired(b, Slip(b)), z |-> slip.z + Slip(b)]
    /\ UNCHANGED <<valid, direction, mode, carriage, moving, emergencyStopRequest, pc, moveVars,
                   heightVars, wanted, rejected>>

-----------------------------------------------------------------------------
(* Emergency stops.                                                        *)

ReceiveStop ==
    /\ pc # "idle" /\ ~emergencyStopRequest
    /\ emergencyStopRequest' = TRUE
    /\ UNCHANGED <<value, valid, direction, mode, bed, machine, pc, moveVars, heightVars, wanted,
                   target, rejected, slip, commands>>

\* The main loop obeys a stop with motors.reset.
ObeyStop ==
    /\ pc = "idle" /\ emergencyStopRequest
    /\ emergencyStopRequest' = FALSE /\ moving' = {}
    /\ UNCHANGED <<value, valid, direction, mode, bed, motor, carriage, pc, moveVars, heightVars,
                   wanted, target, rejected, slip, commands>>

Next ==
    \/ \E x \in XS, z \in ZS, parameters \in SUBSET {"x", "z"} : G0(x, z, parameters)
    \/ \E z \in ZS, apply \in BOOLEAN : moveToHeight(z, apply)
    \/ \E m \in {"ABSOLUTE", "RELATIVE"} : SetMode(m)
    \/ \E b \in BEDS : M618(b)
    \/ Split \/ Segment \/ EndSegments \/ EndMove \/ EndHeight
    \/ ReceiveStop \/ ObeyStop

Spec == Init /\ [][Next]_vars

-----------------------------------------------------------------------------
AtRest == pc = "idle" /\ ~emergencyStopRequest

(* At rest, an axis that is called valid has its motor where its value,    *)
(* compensated for the bed, says, whatever movements were cut short before *)
(* and whichever changes of the bed came between.  One error adds up, the  *)
(* slip of updateBedChanges where the bed both tilts and skews; there is   *)
(* no other.                                                               *)
ValidMeansCompensatedPlace ==
    AtRest => LET real == Real(bed, value)
                  play == IF direction = 1 THEN BACKLASH ELSE 0
              IN /\ valid.z /\ valid.x => motor.z = real.z - slip.z
                 /\ valid.x /\ valid.z => motor.x - play = real.x - slip.x

(* At rest with a valid X, the play is taken up on the side that the       *)
(* recorded direction says: the carriage itself is at its place.           *)
BacklashTakenUp ==
    AtRest /\ valid.x /\ valid.z => carriage = motor.x - IF direction = 1 THEN BACKLASH ELSE 0

(* A movement that nothing stopped ends at its target with every value     *)
(* restored from the segments' motor coordinates.                          *)
EndsAtTarget == AtRest /\ ~rejected => value = target

(* The G-code mode is what the last G90 or G91 set, though moveToHeight    *)
(* and the segments change it and stops cut them short.                    *)
ModeKept == pc = "idle" => mode = wanted

(* No motor is left flagged as moving between commands; the next movement  *)
(* would move it too.                                                      *)
NoneLeftMoving == AtRest => moving = {}
=============================================================================
