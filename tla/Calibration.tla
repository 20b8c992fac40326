----------------------------- MODULE Calibration -----------------------------
(***************************************************************************)
(* Homing and calibration (motors.cpp: homeXY, moveToZ0,                   *)
(* saveZAsBedCenterZ0, calibrateBedCenterZ0, calibrateBedOrientation), as   *)
(* the main loop runs them for G28, G30, G32 and G33.  One action is one    *)
(* movement or one decision between two movements; an emergency stop may    *)
(* arrive between any two of them or in the middle of a movement, the       *)
(* accelerometer may fail, the extruder may feel a contact that is not the  *)
(* bed, and the power may go.                                               *)
(*                                                                          *)
(* Heights are whole millimetres.  'height' is where the extruder is, 'z'   *)
(* is currentValues[Z].  The places are the centre of the bed, the position *)
(* left of it that the orientation calibration passes through, and the four *)
(* corners.  What X and Y are worth is one of three words: "true" (the head *)
(* is where the value and the skew compensation say), "raw" (it is where    *)
(* the value says, without compensation) and "off".                         *)
(***************************************************************************)
EXTENDS Integers, FiniteSetsExt

CONSTANTS
  BED,         \* height of the bed at each place
  CORRECTION,  \* calibrate Z0 correction of the EEPROM
  HEIGHTS,     \* heights a G0 moves to
  TOO_HIGH,    \* BED_MEDIUM_MAX_Z
  SPOTS,       \* places a G0 moves to
  COMMANDS,    \* commands the host sends
  ISSUED,      \* bound on commands
  STOPS,       \* bound on emergency stops
  FALSES,      \* bound on contacts that are not the bed
  CRASHES,     \* bound on power losses
  MISHAPS,     \* bound on all of these together
  SILENCES     \* whether the accelerometer may stop measuring

Centre == 5
Corners == 1 .. 4
Places == 0 .. Centre
Axes == {"X", "Y", "Z"}

CalibrationAssumption ==
  /\ DOMAIN BED = Places
  /\ \A p \in Places : BED[p] \in Int
  /\ CORRECTION \in Int
  /\ HEIGHTS \subseteq 1 .. TOO_HIGH
  /\ SPOTS \subseteq Places /\ SILENCES \in BOOLEAN
  /\ COMMANDS \subseteq {"G0", "G28", "G30", "G32", "G33"}

VARIABLES
  cmd,          \* command being executed
  pc,           \* where in it the main loop is
  answer,       \* last response
  corner,       \* i of calibrateBedOrientation, Centre before it
  z,            \* currentValues[Z]
  height,       \* height of the extruder
  place,        \* currentValues[X], currentValues[Y]
  real,         \* what X and Y are worth
  origin,       \* height that Z = 0 stands for at the centre (history)
  drift,        \* movement by the correction that Z does not have (history)
  planes,       \* corner heights of the loaded bed vectors
  orientation,  \* corner heights of the EEPROM
  round,        \* command that measured each corner (history)
  version,      \* the EEPROM's orientation version is BED_ORIENTATION_VERSION
  valid,        \* axes that are VALID in currentStateOfValues
  validZ,       \* the saved validity of homeXY and of moveToZ0
  maxZ, lastZ0, matchCounter,
  moving,       \* motors marked in motorsIsMoving
  working,      \* accelerometer.isWorking
  failed,       \* the accelerometer failed during this command (history)
  silent,       \* the accelerometer answers but never has data
  saveOn,       \* the save timer's interrupt is enabled
  mode, savedMode,
  stop,         \* emergencyStopRequest
  issued, stops, falses, crashes

program == <<cmd, pc, answer, corner, issued>>
head == <<z, height, place, real>>
bed == <<origin, drift, planes, orientation, round, version>>
probe == <<maxZ, lastZ0, matchCounter>>
sensor == <<working, failed, silent>>
modes == <<mode, savedMode>>
stopping == <<stop, stops>>
vars == <<program, head, bed, probe, sensor, modes, stopping, valid, validZ,
          moving, saveOn, falses, crashes>>

-----------------------------------------------------------------------------
\* What getHeightAdjustmentRequired returns at a place.
Adjustment(p) == IF p \in Corners THEN planes[p] ELSE 0

Between(a, b) == Min({a, b}) .. Max({a, b})

Mishap == stops + falses + crashes < MISHAPS

\* An emergency stop that has arrived or arrives now.
Stopped ==
  /\ stop \/ (stops < STOPS /\ Mishap)
  /\ stop' = TRUE
  /\ stops' = IF stop THEN stops ELSE stops + 1

\* What an axis is worth after a movement without compensation; the skew
\* compensation is nothing at height 0.
Raw(w) == IF w = "raw" \/ (w = "true" /\ z = 0) THEN "raw" ELSE "off"
RawXY == [a \in {"X", "Y"} |-> Raw(real[a])]
OffXY == [a \in {"X", "Y"} |-> "off"]

\* Faulty: an uncompensated movement leaves X and Y VALID.
SurviveAll(compensated) == valid

\* The validities after a movement along Z that was not stopped.
Survive(compensated) == IF compensated THEN valid ELSE valid \cap {"Z"}

\* moveToHeight: without compensation only the validity of Z survives, after
\* a stop none does, wherever the extruder came to rest.
MoveToHeight(target, compensated) ==
  /\ z' = target
  /\ UNCHANGED place
  /\ \/ /\ ~stop
        /\ height' = height + target - z
        /\ valid' = Survive(compensated)
        /\ real' = IF compensated THEN real ELSE RawXY
        /\ UNCHANGED stopping
     \/ /\ Stopped
        /\ height' \in Between(height, height + target - z)
        /\ valid' = {}
        /\ real' = IF compensated THEN OffXY ELSE RawXY

\* move with BACKLASH_TASK alone, across the bed: X, Y and Z become INVALID
\* and stay so.
MoveAcross(p) ==
  /\ place' = p
  /\ valid' = {}
  /\ UNCHANGED <<z, height>>
  /\ \/ ~stop /\ real' = RawXY /\ UNCHANGED stopping
     \/ Stopped /\ real' = OffXY

\* The main loop's answer; a stopped command is not answered.
Finish(result) ==
  /\ cmd' = "idle" /\ pc' = "idle"
  /\ answer' = IF stop' THEN "none" ELSE result
  /\ corner' = Centre
  /\ UNCHANGED issued

\* "Extruder is too high" and "Accelerometer isn't working" are told apart by
\* the accelerometer's last transfer.
Failure == IF working' THEN "too high" ELSE "accelerometer"

\* Return of homeXY to G28, of calibrateBedCenterZ0 to G30 or to
\* calibrateBedOrientation.
Return(result) ==
  IF ~result THEN Finish(Failure)
  ELSE IF cmd = "G32" THEN pc' = "orient" /\ UNCHANGED <<cmd, answer, corner, issued>>
  ELSE Finish("ok")

Goto(label) == pc' = label /\ UNCHANGED <<cmd, answer, corner, issued>>

Init ==
  /\ cmd = "idle" /\ pc = "idle" /\ answer = "none" /\ corner = Centre
  /\ z \in HEIGHTS /\ height = z /\ place = Centre
  /\ real = [a \in {"X", "Y"} |-> "true"]
  /\ origin = 0 /\ drift = 0
  /\ planes = [c \in Corners |-> 0] /\ orientation = planes /\ round = planes
  /\ version = FALSE
  /\ valid = Axes /\ validZ = FALSE
  /\ maxZ = 0 /\ lastZ0 = 0 /\ matchCounter = 0
  /\ moving = {} /\ working = TRUE /\ failed = FALSE /\ silent = FALSE
  /\ saveOn = TRUE
  /\ mode \in {"absolute", "relative"} /\ savedMode = mode
  /\ stop = FALSE /\ issued = 0 /\ stops = 0 /\ falses = 0 /\ crashes = 0

-----------------------------------------------------------------------------
\* The commands.

\* What a command does while a motor is still marked from before is not explored.
Taken == pc = "idle" /\ ~stop /\ moving = {} /\ issued < ISSUED /\ issued' = issued + 1

\* G28, G30 and G32 are taken from the request ring.
Start(c) ==
  /\ Taken
  /\ cmd' = c
  /\ pc' = IF c = "G28" THEN "home" ELSE "lift"
  /\ failed' = FALSE
  /\ UNCHANGED <<answer, corner, head, bed, probe, working, silent, modes,
                 stopping, valid, validZ, moving, saveOn, falses, crashes>>

\* A G0 with compensation: the extruder follows the loaded planes.
Jog(p, h) ==
  /\ Taken
  /\ place' = p /\ z' = h
  /\ LET there == height + (h + Adjustment(p)) - (z + Adjustment(place))
     IN  \/ /\ height' = there
            /\ real' = [a \in {"X", "Y"} |->
                          IF real[a] = "true" THEN "true" ELSE "off"]
            /\ UNCHANGED <<valid, stopping>>
         \/ /\ Stopped
            /\ height' \in Between(height, there)
            /\ real' = OffXY
            /\ valid' = {}
  /\ UNCHANGED <<cmd, pc, answer, corner, bed, probe, sensor, modes, validZ,
                 moving, saveOn, falses, crashes>>

\* saveZAsBedCenterZ0: the bed vectors are loaded, Z is 0 here from now on.
SaveZAsBedCenterZ0 ==
  /\ planes' = orientation
  /\ z' = 0
  /\ drift' = 0
  /\ origin' = height - (IF place \in Corners THEN orientation[place] ELSE 0)
  /\ UNCHANGED <<height, place, orientation, round, version>>

\* G33.
SaveZ0 ==
  /\ Taken
  /\ SaveZAsBedCenterZ0
  /\ valid' = valid \cup {"Z"}
  /\ answer' = "ok"
  /\ UNCHANGED <<cmd, pc, corner, real, probe, sensor, modes, stopping, validZ,
                 moving, saveOn, falses, crashes>>

-----------------------------------------------------------------------------
\* homeXY.

\* Too high an extruder is not homed; nothing has changed by then.
Home ==
  /\ pc = "home"
  /\ IF z + Adjustment(place) >= TOO_HIGH
     THEN UNCHANGED validZ /\ working' = working /\ UNCHANGED stop
          /\ Return(FALSE)
     ELSE validZ' = ("Z" \in valid) /\ UNCHANGED <<working, stop>>
          /\ Goto("homeY")
  /\ UNCHANGED <<head, bed, probe, failed, silent, modes, stops, valid, moving,
                 saveOn, falses, crashes>>

\* One axis drives to the corner until two readings in a row jerk, the steps
\* run out, a stop arrives or a reading fails.
HomeAxis(a, label, next) ==
  /\ pc = label /\ ~silent
  /\ valid' = valid \ {a, "Z"}
  /\ real' = [real EXCEPT ![a] = "off"]
  /\ \/ ~stop /\ working' = TRUE /\ UNCHANGED <<failed, stopping>> /\ Goto(next)
     \/ Stopped /\ UNCHANGED <<working, failed>> /\ Return(working)
     \/ /\ ~stop /\ working' = FALSE /\ failed' = TRUE
        /\ UNCHANGED stopping
        /\ Return(FALSE)
  /\ validZ' = (validZ /\ pc' \in {"homeX", "centre"})
  /\ UNCHANGED <<z, height, place, bed, probe, silent, modes, moving, saveOn,
                 falses, crashes>>

HomeY == HomeAxis("Y", "homeY", "homeX")
HomeX == HomeAxis("X", "homeX", "centre")

\* From the corner to the centre, with the compensation of the centre for
\* G28; the validities are set only if no stop came.
ToCentre ==
  /\ pc = "centre"
  /\ place' = Centre /\ validZ' = FALSE
  /\ LET apply == cmd = "G28"
         there == height + (IF apply THEN -Adjustment(place) ELSE 0)
     IN  \/ /\ ~stop
            /\ height' = there
            /\ real' = [a \in {"X", "Y"} |-> IF apply THEN "true" ELSE "raw"]
            /\ valid' = IF apply THEN {"X", "Y"} \cup
                                      (IF validZ THEN {"Z"} ELSE {})
                        ELSE {}
            /\ UNCHANGED stopping
            /\ IF apply THEN Return(TRUE) ELSE Goto("z0")
         \/ /\ Stopped
            /\ height' \in Between(height, there)
            /\ real' = OffXY
            /\ valid' = {}
            /\ Return(TRUE)
  /\ UNCHANGED <<z, bed, probe, sensor, modes, moving, saveOn, falses, crashes>>

-----------------------------------------------------------------------------
\* moveToZ0.

EnterZ0 ==
  /\ pc = "z0"
  /\ validZ' = ("Z" \in valid) /\ valid' = valid \ {"Z"}
  /\ maxZ' = z /\ lastZ0' = z /\ matchCounter' = 0
  /\ Goto("down")
  /\ UNCHANGED <<head, bed, sensor, modes, stopping, moving, saveOn, falses,
                 crashes>>

\* The loop's head: the motor is set up, 100 ms pass before the still reading.
SetUp ==
  /\ pc = "down"
  /\ IF stop THEN Goto("leave") /\ UNCHANGED moving
     ELSE Goto("still") /\ moving' = moving \cup {"Z"}
  /\ UNCHANGED <<head, bed, probe, sensor, modes, stopping, valid, validZ,
                 saveOn, falses, crashes>>

\* A stop skips the descent and leaves the motor marked for the main loop's
\* reset.
Still ==
  /\ pc = "still" /\ ~silent
  /\ IF stop THEN UNCHANGED working /\ Goto("reckon")
     ELSE working' = TRUE /\ Goto("lower")
  /\ UNCHANGED <<head, bed, probe, failed, silent, modes, stopping, valid,
                 validZ, moving, saveOn, falses, crashes>>

\* The still reading fails and leaves the motor marked.
StillFails ==
  /\ pc = "still" /\ ~silent /\ ~stop
  /\ working' = FALSE /\ failed' = TRUE
  /\ Goto("reckon")
  /\ UNCHANGED <<head, bed, probe, silent, modes, stopping, valid, validZ,
                 moving, saveOn, falses, crashes>>

\* The extruder goes down until it tilts, on the bed or before it, a stop
\* arrives or a reading fails; the value follows the steps made.
Lower ==
  /\ pc = "lower" /\ ~silent
  /\ height' \in Between(height, BED[place])
  /\ z' = z - (height - height')
  /\ moving' = {}
  /\ \/ /\ ~stop
        /\ \/ height' = BED[place] /\ UNCHANGED falses
           \/ height' # BED[place] /\ falses < FALSES /\ Mishap /\ falses' = falses + 1
        /\ UNCHANGED <<working, failed, stopping>>
     \/ Stopped /\ UNCHANGED <<working, failed, falses>>
     \/ /\ ~stop /\ working' = FALSE /\ failed' = TRUE
        /\ UNCHANGED <<stopping, falses>>
  /\ Goto("reckon")
  /\ UNCHANGED <<place, real, bed, probe, silent, modes, valid, validZ, saveOn,
                 crashes>>

EnoughMatches(n) == n >= 2

Matches == IF lastZ0 - z \in -1 .. 1 THEN matchCounter + 1 ELSE 0

\* Two contacts in a row within 1 mm of the contact before them are the bed.
Reckon ==
  /\ pc = "reckon"
  /\ UNCHANGED <<head, bed, sensor, modes, stopping, valid, validZ, moving,
                 falses, crashes, maxZ>>
  /\ IF stop \/ ~working
     THEN saveOn' = FALSE /\ Goto("leave") /\ UNCHANGED <<lastZ0, matchCounter>>
     ELSE /\ lastZ0' = z
          /\ matchCounter' = Matches
          /\ IF EnoughMatches(matchCounter')
             THEN saveOn' = FALSE /\ Goto("correct")
             ELSE saveOn' = TRUE /\ Goto("raise")

RaiseTo == Min({z + 2, maxZ})

Raise ==
  /\ pc = "raise"
  /\ MoveToHeight(RaiseTo, FALSE)
  /\ Goto("down")
  /\ UNCHANGED <<bed, probe, sensor, modes, validZ, moving, saveOn, falses, crashes>>

\* The movement by the correction, taken back from the value: moveToHeight's
\* target is z + CORRECTION, and CORRECTION is then subtracted.
Correct ==
  /\ pc = "correct"
  /\ \/ /\ ~stop
        /\ height' = height + CORRECTION
        /\ UNCHANGED stopping
     \/ /\ Stopped
        /\ height' \in Between(height, height + CORRECTION)
  /\ drift' = drift + height' - height
  /\ valid' = {}
  /\ real' = RawXY
  /\ saveOn' = FALSE
  /\ Goto("leave")
  /\ UNCHANGED <<z, place, origin, planes, orientation, round, version, probe, sensor, modes, validZ, moving, falses,
                 crashes>>

\* The end of moveToZ0, where its locals go, and what its callers do with its
\* result.
LeaveZ0 ==
  /\ pc = "leave"
  /\ saveOn' = TRUE
  /\ valid' = IF validZ /\ ~stop THEN valid \cup {"Z"} ELSE valid
  /\ validZ' = FALSE /\ maxZ' = 0 /\ lastZ0' = 0 /\ matchCounter' = 0
  /\ UNCHANGED <<working, stop>>
  /\ IF corner = Centre
     THEN IF stop \/ ~working THEN Return(working) ELSE Goto("zero")
     ELSE IF stop \/ ~working THEN Goto("update") ELSE Goto("save")
  /\ UNCHANGED <<head, bed, failed, silent, modes, stops, moving, falses, crashes>>

-----------------------------------------------------------------------------
\* calibrateBedCenterZ0.

\* Up by 3 mm before homing.
Lift ==
  /\ pc = "lift"
  /\ MoveToHeight(z + 3, FALSE)
  /\ UNCHANGED <<bed, probe, sensor, modes, validZ, moving, saveOn, falses, crashes>>
  /\ IF stop' THEN Return(TRUE) ELSE Goto("home")

\* The bed is found: all three axes are VALID.
Zero ==
  /\ pc = "zero"
  /\ UNCHANGED <<probe, sensor, modes, stopping, validZ, moving, saveOn, falses,
                 crashes>>
  /\ SaveZAsBedCenterZ0
  /\ valid' = Axes
  /\ real' = [a \in {"X", "Y"} |-> IF real[a] = "raw" THEN "true" ELSE real[a]]
  /\ Goto("three")

Three ==
  /\ pc = "three"
  /\ MoveToHeight(3, cmd = "G30")
  /\ UNCHANGED <<bed, probe, sensor, modes, validZ, moving, saveOn, falses, crashes>>
  /\ Return(TRUE)

-----------------------------------------------------------------------------
\* calibrateBedOrientation, after calibrateBedCenterZ0.

\* The orientation is made invalid before the first corner.
VersionInvalidated == stop /\ version

Orient ==
  /\ pc = "orient"
  /\ version' = VersionInvalidated
  /\ savedMode' = mode /\ mode' = "absolute"
  /\ corner' = 0
  /\ pc' = IF stop THEN "update" ELSE "travel"
  /\ UNCHANGED <<cmd, answer, issued, head, origin, drift, planes, orientation, round, probe, sensor,
                 stopping, valid, validZ, moving, saveOn, falses, crashes>>

\* To the next position; the first one is only passed through.
Travel ==
  /\ pc = "travel"
  /\ MoveAcross(corner)
  /\ Goto(IF stop' THEN "update" ELSE IF corner \in Corners THEN "z0" ELSE "above")
  /\ UNCHANGED <<bed, probe, sensor, modes, validZ, moving, saveOn, falses, crashes>>

\* The corner's offset is erased, its orientation saved.
SaveCorner ==
  /\ pc = "save"
  /\ orientation' = [orientation EXCEPT ![corner] = z]
  /\ round' = [round EXCEPT ![corner] = issued]
  /\ Goto("above")
  /\ UNCHANGED <<head, origin, drift, planes, version, probe, sensor, modes, stopping,
                 valid, validZ, moving, saveOn, falses, crashes>>

Above ==
  /\ pc = "above"
  /\ MoveToHeight(3, FALSE)
  /\ IF corner = 4 \/ stop' THEN Goto("update")
     ELSE corner' = corner + 1 /\ pc' = "travel" /\ UNCHANGED <<cmd, answer, issued>>
  /\ UNCHANGED <<bed, probe, sensor, modes, validZ, moving, saveOn, falses, crashes>>

\* Restores the mode and returns whether the accelerometer works.
EndOrientation ==
  /\ mode' = savedMode
  /\ Finish(IF working THEN "ok" ELSE "accelerometer")

UpdateBed ==
  /\ pc = "update"
  /\ planes' = orientation
  /\ UNCHANGED <<head, origin, drift, orientation, round, version, probe, sensor, savedMode,
                 stopping, valid, validZ, moving, saveOn, falses, crashes>>
  /\ IF stop \/ ~working THEN EndOrientation
     ELSE Goto("back") /\ UNCHANGED mode

\* The two movements back to the centre, with the skew of this height.
Back ==
  /\ pc = "back"
  /\ MoveAcross(Centre)
  /\ Goto("settle")
  /\ UNCHANGED <<bed, probe, sensor, modes, validZ, moving, saveOn, falses, crashes>>

\* X and Y are set to the centre; without a stop everything is VALID.
Settle ==
  /\ pc = "settle"
  /\ UNCHANGED <<z, height, place, origin, drift, planes, orientation, round, probe, sensor,
                 savedMode, stopping, validZ, moving, saveOn, falses, crashes>>
  /\ real' = [a \in {"X", "Y"} |-> IF real[a] = "raw" THEN "true" ELSE "off"]
  /\ IF stop THEN UNCHANGED <<valid, version>> ELSE valid' = Axes /\ version' = TRUE
  /\ EndOrientation

-----------------------------------------------------------------------------
\* The emergency stop, the main loop's reset after it, and the power.

StopArrives ==
  /\ ~stop /\ Stopped
  /\ UNCHANGED <<program, head, bed, probe, sensor, modes, valid, validZ, moving,
                 saveOn, falses, crashes>>

Reset ==
  /\ pc = "idle" /\ stop
  /\ stop' = FALSE /\ moving' = {} /\ answer' = "ok"
  /\ UNCHANGED <<cmd, pc, corner, issued, head, bed, probe, sensor, modes, stops,
                 valid, validZ, saveOn, falses, crashes>>

\* What the axis values are restored to is the subject of AxisState; here
\* nothing of them is valid after it.
PowerLoss ==
  /\ crashes < CRASHES /\ Mishap /\ crashes' = crashes + 1
  /\ cmd' = "idle" /\ pc' = "idle" /\ answer' = "none" /\ corner' = Centre
  /\ valid' = {} /\ real' = OffXY /\ planes' = orientation
  /\ moving' = {} /\ saveOn' = TRUE /\ stop' = FALSE
  /\ working' = TRUE /\ failed' = FALSE /\ silent' = FALSE
  /\ mode' = "absolute" /\ savedMode' = "absolute"
  /\ validZ' = FALSE /\ maxZ' = 0 /\ lastZ0' = 0 /\ matchCounter' = 0
  /\ UNCHANGED <<z, height, place, origin, drift, orientation, round, version, issued, stops,
                 falses>>

\* The accelerometer answers on the bus and never has data ready.
GoesSilent ==
  /\ SILENCES /\ ~silent /\ silent' = TRUE
  /\ UNCHANGED <<program, head, bed, probe, working, failed, modes, stopping,
                 valid, validZ, moving, saveOn, falses, crashes>>

\* The main loop inside a command.
Step ==
  \/ Home \/ HomeY \/ HomeX \/ ToCentre
  \/ EnterZ0 \/ SetUp \/ Still \/ Lower \/ Reckon \/ Raise \/ Correct \/ LeaveZ0
  \/ Lift \/ Zero \/ Three
  \/ Orient \/ Travel \/ SaveCorner \/ Above \/ UpdateBed \/ Back \/ Settle

Begin ==
  \/ \E c \in COMMANDS \cap {"G28", "G30", "G32"} : Start(c)
  \/ "G0" \in COMMANDS /\ \E p \in SPOTS, h \in HEIGHTS : Jog(p, h)
  \/ "G33" \in COMMANDS /\ SaveZ0

Next == Step \/ StillFails \/ Begin \/ StopArrives \/ Reset \/ PowerLoss \/ GoesSilent

Spec == Init /\ [][Next]_vars

-----------------------------------------------------------------------------
\* An axis is VALID only while its value is right: X and Y are where the value
\* and the skew compensation put them, the extruder is at the height that Z
\* and the loaded planes stand for, but for the movements by the calibrate Z0
\* correction since Z was last set to 0: calibrateBedOrientation makes one at
\* every corner, takes each back from the value (motors.cpp:1875, 1881), and
\* calls Z VALID at the end.  (move, moveToHeight, homeXY, moveToZ0 and
\* the calibrations save, clear and restore currentStateOfValues around every
\* movement; see motors.cpp:1583, 1751, 1780, 1910, 1946, 2138.)
ValidIsTrue ==
  /\ \A a \in {"X", "Y"} : a \in valid => real[a] = "true"
  /\ "Z" \in valid => height = z + origin + drift + Adjustment(place)

\* The orientation's version is valid only if one and the same calibration
\* measured all four corners: a stop, a failing accelerometer or a power loss
\* in the middle of a G32 leaves it invalid (the version byte is cleared before
\* the first corner and written after the last; Changelog:7, Changelog:64).
VersionMeansMeasured == version => \A c, d \in Corners : round[c] = round[d]

\* The measured corners are the bed's shape: a contact that was not the bed
\* moves a corner by at most 1 mm, because two matches in a row are asked for
\* (matchCounter).  A calibrate Z0 correction adds up: it is in the first
\* corner once and in the last four times.
ShapeMeasured ==
  version => \A c \in Corners :
               orientation[c] + c * CORRECTION - (BED[c] - BED[Centre]) \in -FALSES .. FALSES

\* Probing never goes above the height it started from (Changelog:45).
NotAboveStart ==
  pc \in {"down", "still", "lower", "reckon", "correct"} => z <= maxZ

\* Between commands, and with no stop to be obeyed, the save interrupt is on,
\* and no motor is marked as moving unless the accelerometer failed in the
\* command before: moveToZ0 marks the Z motor before the still reading and
\* leaves the mark when that reading fails (motors.cpp:1800, 1822).
AtRest ==
  pc = "idle" /\ ~stop => saveOn /\ (moving = {} \/ failed)
=============================================================================
