------------------------------- MODULE Motion -------------------------------
(***************************************************************************)
(* The printer's movements: the parts that motors.cpp consists of, each    *)
(* with the instance that TLC explores.  The models of the parts share no  *)
(* variables, so that what one of them does says nothing about another;    *)
(* a behaviour is one of a single part, and the other parts stay as they   *)
(* begin.                                                                  *)
(***************************************************************************)
EXTENDS AxisState, Eeprom, Stepping, TLC

VARIABLES
    part,           \* the part that moves
    \* Movement
    moveValue, valid, moveDirection, mode, moveBed, motor, carriage, moving,
    emergencyStopRequest, movePc, tasks, start, end, segment, backlash,
    validValues, splitValid, savedMode, toHeight, validZ, heightMode,
    moveWanted, moveTarget, rejected, slip, commands,
    \* Boundaries
    boundsValue, boundsBed, moved

-----------------------------------------------------------------------------
(* The constants of the modules that this one extends.  X, whose direction *)
(* is saved, and Z, whose direction is not.                                *)

SavedAxes == <<"X", "Z">>
SavedValues == {<<0, 0>>, <<1, 1>>}
OnTheWay == <<2, 2>>

-----------------------------------------------------------------------------
(* The instances of the others.                                            *)

Level(t, o, s) == [tilt |-> t, offset |-> o, skew |-> s]

\* Two commands on beds that tilt, are offset, or both.
M == INSTANCE Movement WITH
    XS <- {-1, 2, 9}, ZS <- {1, 9}, BACKLASH <- 1, SEGMENT_LENGTH <- 2,
    BIG <- 5, COMMANDS <- 2, BEDS <- {Level(0, 0, 0), Level(1, 0, 0), Level(1, 1, 0)},
    value <- moveValue, direction <- moveDirection, bed <- moveBed, pc <- movePc,
    wanted <- moveWanted, target <- moveTarget

\* Three shorter ones on every combination, changes between them.
K == INSTANCE Movement WITH
    XS <- {-1, 3}, ZS <- {2}, BACKLASH <- 1, SEGMENT_LENGTH <- 2,
    BIG <- 9, COMMANDS <- 3, BEDS <- {Level(t, o, s) : t \in {0, 1}, o \in {0, 1}, s \in {0, 1}},
    value <- moveValue, direction <- moveDirection, bed <- moveBed, pc <- movePc,
    wanted <- moveWanted, target <- moveTarget

\* Two shorter movements, beside the single longer ones of the extended module.
S == INSTANCE Stepping WITH MAX_STEPS <- 3, MAX_CYCLES <- 5, MOVEMENTS <- 2

Corners(br, bl, fl, fr) ==
    <<1, 1>> :> br @@ <<-1, 1>> :> bl @@ <<-1, -1>> :> fl @@ <<1, -1>> :> fr

Bed(corners, offset, skew, external, expand) ==
    [corners |-> corners, offset |-> offset, skewX |-> skew, skewY |-> -skew,
     externalBedHeight |-> external, expandPrintableRegion |-> expand]

\* Level beds with every other setting at its limits; places beyond every
\* limit, at heights around the limits of the tiers.
B == INSTANCE Boundaries WITH
    XS <- {-40, 54, 140}, YS <- {-30, -9, 50, 130},
    ZS <- {180 * h : h \in {0, 5, 50, 73, 74}},
    BEDS <- {Bed(Corners(0, 0, 0, 0), 90, s, e, x) : s \in {-8, 8}, e \in {0, 50}, x \in BOOLEAN},
    value <- boundsValue, bed <- boundsBed

\* Beds whose front is low, and heights around the limit of the low tier.
T == INSTANCE Boundaries WITH
    XS <- {-40, 54, 140}, YS <- {-30, -9, 50, 130},
    ZS <- {90 * h : h \in 8 .. 18},
    BEDS <- {Bed(Corners(0, 0, -c, -c), 0, 0, 0, x) : c \in 0 .. 3, x \in BOOLEAN},
    value <- boundsValue, bed <- boundsBed

\* Beds with each corner, and more of them, off; places between the corners,
\* on the lines through them and on the diagonals.
P == INSTANCE Boundaries WITH
    XS <- {-2, 9, 24, 54, 63}, YS <- {20, 41, 50, 71, 105}, ZS <- {0, 180 * 50},
    BEDS <- {Bed(Corners(3, 0, 0, 0), 0, 0, 0, FALSE), Bed(Corners(-1, 2, 0, -3), 90, 0, 0, FALSE),
             Bed(Corners(2, 2, -2, -2), 0, 0, 50, TRUE), Bed(Corners(3, -3, 3, -3), 0, 0, 0, FALSE)},
    value <- boundsValue, bed <- boundsBed

ASSUME MotionAssumption ==
    /\ M!MovementAssumption /\ AxisAssumption /\ EepromAssumption
    /\ SteppingAssumption /\ S!SteppingAssumption

-----------------------------------------------------------------------------
movementVars == <<moveValue, valid, moveDirection, mode, moveBed, motor, carriage, moving,
    emergencyStopRequest, movePc, tasks, start, end, segment, backlash,
    validValues, splitValid, savedMode, toHeight, validZ, heightMode,
    moveWanted, moveTarget, rejected, slip, commands>>
boundaryVars == <<boundsValue, boundsBed, moved>>
motionVars == <<part, fractionVars, movementVars, axisVars, eepromVars, steppingVars, boundaryVars>>

MotionInit ==
    /\ part \in {"fractions", "movement", "skew", "axes", "eeprom", "steps", "times", "limits", "planes"}
    /\ FractionInit /\ (part # "fractions" => pin = 1)
    /\ IF part = "skew" THEN K!Init ELSE M!Init
    /\ part \notin {"movement", "skew"} => moveBed = Level(0, 0, 0)
    /\ AxisInit /\ EepromInit /\ SteppingInit
    /\ IF part = "planes" THEN P!Init ELSE B!Init
    /\ part \notin {"limits", "planes"} => boundsBed = Bed(Corners(0, 0, 0, 0), 90, 8, 0, FALSE)

\* No command is left and the last one has ended.
Finished ==
    /\ \/ part = "movement" /\ M!AtRest /\ commands = 2
       \/ part = "skew" /\ K!AtRest /\ commands = 3
       \/ part = "steps" /\ ~timer /\ movements = 2
       \/ part = "times" /\ ~timer /\ movements = 1
    /\ UNCHANGED motionVars

MotionNext ==
    \/ part = "fractions" /\ FractionNext /\ UNCHANGED <<part, movementVars, axisVars, eepromVars, steppingVars, boundaryVars>>
    \/ part = "movement" /\ M!Next /\ UNCHANGED <<part, fractionVars, axisVars, eepromVars, steppingVars, boundaryVars>>
    \/ part = "skew" /\ K!Next /\ UNCHANGED <<part, fractionVars, axisVars, eepromVars, steppingVars, boundaryVars>>
    \/ part = "axes" /\ AxisNext /\ UNCHANGED <<part, fractionVars, movementVars, eepromVars, steppingVars, boundaryVars>>
    \/ part = "eeprom" /\ EepromNext /\ UNCHANGED <<part, fractionVars, movementVars, axisVars, steppingVars, boundaryVars>>
    \/ part = "steps" /\ S!SteppingNext /\ UNCHANGED <<part, fractionVars, movementVars, axisVars, eepromVars, boundaryVars>>
    \/ part = "times" /\ SteppingNext /\ UNCHANGED <<part, fractionVars, movementVars, axisVars, eepromVars, boundaryVars>>
    \/ part = "limits" /\ B!Next /\ UNCHANGED <<part, fractionVars, movementVars, axisVars, eepromVars, steppingVars>>
    \/ part = "planes" /\ P!Next /\ UNCHANGED <<part, fractionVars, movementVars, axisVars, eepromVars, steppingVars>>
    \/ Finished

MotionSpec == MotionInit /\ [][MotionNext]_motionVars

\* Movements over beds that are not level, alone.
TiltedInit ==
    /\ part = "tilted" /\ FractionInit /\ pin = 1
    /\ M!Init /\ moveBed = Level(0, 0, 0)
    /\ AxisInit /\ EepromInit /\ SteppingInit /\ T!Init

TiltedNext == T!Next /\ UNCHANGED <<part, fractionVars, movementVars, axisVars, eepromVars, steppingVars>>

TiltedSpec == TiltedInit /\ [][TiltedNext]_motionVars

-----------------------------------------------------------------------------
\* At rest, an axis that is called valid has its motor where its value,
\* compensated for the bed, says, whatever movements were cut short before
\* and whichever changes of the bed came between, but for what such a change
\* slips by where the bed both tilts and skews (updateBedChanges takes the
\* height at the X before it shifts X); and with a valid X the play
\* is taken up on the side that the recorded direction says, so that the
\* carriage itself is at its place (motors.cpp, move and compensateForBacklash).
\* A movement that nothing stopped has ended at its target, no motor is left
\* marked as moving, and the G-code mode is what the last G90 or G91 set.
ValidMeansCompensatedPlace ==
    /\ part \in {"movement", "skew"} => M!ValidMeansCompensatedPlace
    /\ part = "movement" => M!BacklashTakenUp /\ M!EndsAtTarget /\ M!NoneLeftMoving /\ M!ModeKept

\* On a level bed, whatever its skew, its offset and what stands on it, a
\* received command ends inside the printable region at the height it ends
\* at (move).
EndInBounds == part = "limits" => B!EndInBounds

\* The same on a bed that is not level, as "Prevents moving the extruder out
\* of bounds in the X and Y directions" (README) has it.  It does not hold:
\* move finds the tier with the height at the limits of the tier below, and
\* then goes to a place where the bed is lower.
EndInBoundsOnAnyBed == part = "tilted" => T!EndInBounds

\* The compensation is the measured height at the corners and zero at the
\* centre, where the bed is homed, and between the corners it has no step:
\* over a millimetre it changes by no more than the steepest of its planes
\* (getHeightAdjustmentRequired).
CompensationMeasured == part = "planes" => P!MeasuredExact /\ P!Smooth
=============================================================================
