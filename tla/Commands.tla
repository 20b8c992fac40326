------------------------------ MODULE Commands ------------------------------
(***************************************************************************)
(* What the main loop does with a command once it is its turn (main.cpp):   *)
(* the M, G and T commands, the state they read and write, and the answers. *)
(* The ring the commands wait in is RequestQueue, their line numbers are    *)
(* LineNumbers, the movements are Movement and Calibration.                 *)
(*                                                                          *)
(* A command runs in one step, unless it leaves EEPROM and RAM apart in     *)
(* between or an interrupt may test the heater in the middle of it; 'task'  *)
(* is then what is left to do.                                              *)
(*                                                                          *)
(* A command is a letter, a number as the host wrote it and the parameters  *)
(* it has.  Parsing narrows numbers to the widths of the request's fields   *)
(* and leaves the fields of parameters a command does not have as they are, *)
(* so 'slot' keeps what earlier commands put there.                         *)
(***************************************************************************)
EXTENDS Integers

CONSTANTS
  COMMANDS,   \* commands the host sends
  WIDTH,      \* 256: what an 8-bit field holds, and a byte of the EEPROM
  REGIONS,    \* EEPROM addresses of what RAM also holds: serial, bed, heater
  TABLE,      \* EEPROM_DECRYPTION_TABLE_OFFSET
  SIZE,       \* EEPROM_SIZE
  INCH,       \* INCHES_TO_MILLIMETERS_SCALAR
  FAN_MAX,    \* FAN_MAX_SPEED
  ALNUM,      \* bytes that are letters or digits
  UNDERSCORE, \* the byte of '_'
  MODES,      \* heater calibration modes that are supported
  POSITIONS,  \* values of X that homing, calibrating and a new bed may leave
  BEDS        \* what a corner's orientation may be measured as

Addresses == 0 .. SIZE - 1
Fields == {"S", "P", "T", "X", "E"}

\* A sum of valueS and valueT that does not fit 32 bits is not defined in the
\* code; such addresses are left out.
CommandsAssumption ==
  /\ WIDTH \in Nat \ {0} /\ INCH \in Nat \ {0} /\ FAN_MAX < WIDTH
  /\ SIZE \in Nat /\ TABLE \in 1 .. SIZE
  /\ REGIONS \in [{"serial", "bed", "heater"} -> 0 .. TABLE - 1]
  /\ \A p, q \in DOMAIN REGIONS : REGIONS[p] = REGIONS[q] => p = q
  /\ BEDS \subseteq 0 .. WIDTH - 1
  /\ \A c \in COMMANDS : \A f \in DOMAIN c.params : c.params[f] \in Int
  /\ \A c \in COMMANDS : "S" \in DOMAIN c.params => c.params["S"] < 2147483644

VARIABLES
  slot,          \* values of the request's fields
  motorsOn, mode, extruderMode,
  units,         \* motors.units
  position,      \* motors.currentValues[X], in millimetres
  fan,           \* speed the fan's timer channel stands for
  led,
  heater,        \* the heater is on
  working,       \* heater.isWorking
  eeprom,
  cached,        \* what RAM holds of the regions
  task,          \* what the main loop has still to do for its command
  target,        \* newValues[X] of a movement
  response

motors == <<motorsOn, mode, extruderMode, units, position>>
peripherals == <<fan, led, heater, working>>
memory == <<eeprom, cached>>
commandVars == <<slot, motors, peripherals, memory, task, target, response>>

\* A character of the serial number as the USB descriptor and M115 show it.
Shown(b) == IF b \in ALNUM THEN b ELSE UNDERSCORE

\* What RAM holds of an EEPROM once it was read.
Copies(e) ==
  [r \in DOMAIN REGIONS |->
     IF r = "serial" THEN Shown(e[REGIONS[r]]) ELSE e[REGIONS[r]]]

CommandsInit ==
  /\ slot = [f \in Fields |-> 0]
  /\ motorsOn = FALSE /\ mode = "absolute" /\ extruderMode = "absolute"
  /\ units = "millimetres" /\ position = 0
  /\ fan = 0 /\ led = 100 /\ heater = FALSE /\ working = TRUE
  /\ eeprom = [a \in Addresses |-> IF a = REGIONS["heater"] THEN CHOOSE m \in MODES : TRUE
                                  ELSE UNDERSCORE]
  /\ cached = Copies(eeprom)
  /\ task = "none" /\ target = 0 /\ response = [kind |-> "none", value |-> 0]

-----------------------------------------------------------------------------
\* Parsing: the fields of the parameters the command has, valueT in 8 bits.
Parsed(c) ==
  [f \in Fields |->
     IF f \notin DOMAIN c.params THEN slot[f]
     ELSE IF f = "T" THEN c.params[f] % WIDTH ELSE c.params[f]]

\* valueG is 8 bits wide, valueM holds every M command there is.
Number(c) == IF c.letter = "G" THEN c.number % WIDTH ELSE c.number

Has(c, f) == f \in DOMAIN c.params

Answer(kind) == response' = [kind |-> kind, value |-> 0]
Ok == Answer("ok")
Error(why) == Answer(why)

\* A copy is read again.
Reread(r) == cached' = [cached EXCEPT ![r] = Copies(eeprom)[r]]

\* A number in the units the host uses, and back.
Scale == IF units = "inches" THEN INCH ELSE 1

-----------------------------------------------------------------------------
\* The M commands.  v is the slot after parsing.

\* M17, M18 and M84.
Motors(c) ==
  /\ c.letter = "M" /\ c.number \in {17, 18, 84}
  /\ motorsOn' = (c.number = 17)
  /\ Ok
  /\ UNCHANGED <<mode, extruderMode, units, position, peripherals, memory, task, target>>

\* M82 and M83.
ExtruderMode(c) ==
  /\ c.letter = "M" /\ c.number \in {82, 83}
  /\ extruderMode' = IF c.number = 82 THEN "absolute" ELSE "relative"
  /\ Ok
  /\ UNCHANGED <<motorsOn, mode, units, position, peripherals, memory, task, target>>

Supported(m) == m \in MODES

\* M104 and M109: the heater is tested and its constants are read again first;
\* a calibration mode that is not supported turns it off.
Temperature(c, v) ==
  /\ c.letter = "M" /\ c.number \in {104, 109}
  /\ LET t == IF Has(c, "S") THEN v["S"] ELSE 0
     IN  IF ~(t = 0 \/ t \in 100 .. 285)
         THEN Error("range") /\ UNCHANGED <<heater, working, cached>>
         ELSE \E w \in BOOLEAN :
                /\ Reread("heater")
                /\ working' = w
                /\ heater' = (t # 0 /\ w /\ Supported(eeprom[REGIONS["heater"]]))
                /\ IF ~w THEN Error("heater")
                   ELSE IF Supported(eeprom[REGIONS["heater"]]) THEN Ok ELSE Error("mode")
  /\ UNCHANGED <<motors, fan, led, eeprom, task, target>>

\* M105: the heater is tested here too.
ReadTemperature(c) ==
  /\ c.letter = "M" /\ c.number = 105
  /\ \E w \in BOOLEAN :
       /\ working' = w /\ heater' = (heater /\ w)
       /\ IF w THEN Answer("temperature") ELSE Error("heater")
  /\ UNCHANGED <<motors, fan, led, memory, task, target>>

\* What fan.setSpeed makes of a speed: its parameter has 8 bits.
FanSpeed(s) == LET n == s % WIDTH IN IF n > FAN_MAX THEN FAN_MAX ELSE n

\* M106 and M107.
SetFan(c, v) ==
  /\ c.letter = "M" /\ c.number \in {106, 107}
  /\ fan' = FanSpeed(IF c.number = 106 /\ Has(c, "S") THEN v["S"] ELSE 0)
  /\ Ok
  /\ UNCHANGED <<motors, led, heater, working, memory, task, target>>

\* What led.setBrightness makes of a brightness.
Brightness(t) == IF t < 100 THEN t ELSE 100

\* M420.
SetLed(c, v) ==
  /\ c.letter = "M" /\ c.number = 420
  /\ led' = Brightness(IF Has(c, "T") THEN v["T"] ELSE 100)
  /\ Ok
  /\ UNCHANGED <<motors, fan, heater, working, memory, task, target>>

InUnits(x) == x \div Scale

\* M114.
Position(c) ==
  /\ c.letter = "M" /\ c.number = 114
  /\ response' = [kind |-> "position", value |-> InUnits(position), units |-> units]
  /\ UNCHANGED <<motors, peripherals, memory, task, target>>

\* M115 without S628, which AxisState models, and M117.
Details(c) ==
  /\ c.letter = "M" /\ c.number \in {115, 117}
  /\ Answer("details")
  /\ UNCHANGED <<motors, peripherals, memory, task, target>>

InRange(v) == v["S"] >= 0 /\ v["T"] \in 1 .. 4 /\ v["S"] + v["T"] <= TABLE

\* The EEPROM with the low bytes of valueP written, the lowest first.
Written(v) ==
  [a \in Addresses |->
     IF a \in v["S"] .. v["S"] + v["T"] - 1
     THEN (v["P"] \div WIDTH ^ (a - v["S"])) % WIDTH ELSE eeprom[a]]

\* M618 and M619: one of the parameters is enough to be taken for all.
AccessEeprom(c, v) ==
  /\ c.letter = "M" /\ c.number \in {618, 619}
  /\ LET wanted == {"S", "T"} \cup (IF c.number = 618 THEN {"P"} ELSE {})
     IN  IF wanted \cap DOMAIN c.params = {}
         THEN Error("unknown") /\ UNCHANGED <<eeprom, task>>
         ELSE IF ~InRange(v)
         THEN Error("address") /\ UNCHANGED <<eeprom, task>>
         ELSE IF c.number = 619
         THEN /\ response' = [kind |-> "value", value |-> eeprom[v["S"]]]
              /\ UNCHANGED <<eeprom, task>>
         ELSE /\ eeprom' = Written(v) /\ task' = "serial"
              /\ Ok
  /\ UNCHANGED <<motors, peripherals, cached, target>>

UpdateSerialNumber ==
  /\ task = "serial" /\ task' = "bed"
  /\ Reread("serial")
  /\ UNCHANGED <<slot, motors, peripherals, eeprom, target, response>>

\* After M618 the values are adjusted: the extruder is where it was, over
\* another bed.
UpdateBedChanges ==
  /\ task = "bed" /\ task' = "heater"
  /\ Reread("bed")
  /\ IF cached' = cached THEN UNCHANGED position ELSE position' \in POSITIONS
  /\ UNCHANGED <<slot, motorsOn, mode, extruderMode, units, peripherals, eeprom, target,
                 response>>

\* A mode that is not supported turns the heater off.
UpdateHeaterChanges ==
  /\ task = "heater" /\ task' = "none"
  /\ Reread("heater")
  /\ heater' = (heater /\ Supported(eeprom[REGIONS["heater"]]))
  /\ UNCHANGED <<slot, motors, fan, led, working, eeprom, target, response>>

\* M20, M21, M22, M80, M81, M110, M111, M400 and M999, and T.
Nothing(c) ==
  /\ \/ c.letter = "T"
     \/ c.letter = "M" /\ c.number \in {20, 21, 22, 80, 81, 110, 111, 400, 999}
  /\ Ok
  /\ UNCHANGED <<motors, peripherals, memory, task, target>>

-----------------------------------------------------------------------------
\* The G commands.

Target(c, v) ==
  IF ~Has(c, "X") THEN position
  ELSE v["X"] * Scale + (IF mode = "relative" THEN position ELSE 0)

\* X is kept on the bed, whose edges are the smallest and largest position.
Kept(x) ==
  LET low == CHOOSE p \in POSITIONS : \A q \in POSITIONS : p <= q
      high == CHOOSE p \in POSITIONS : \A q \in POSITIONS : q <= p
  IN  IF x < low THEN low ELSE IF x > high THEN high ELSE x

\* G0 and G1: a movement with filament needs the heater, which is tested.
Move(c, v) ==
  /\ c.letter = "G" /\ Number(c) \in {0, 1}
  /\ \E w \in (IF Has(c, "E") THEN BOOLEAN ELSE {working}) :
       /\ working' = w
       /\ heater' = (heater /\ w)
       /\ IF Has(c, "E") /\ ~heater'
          THEN Error(IF w THEN "cold" ELSE "heater") /\ UNCHANGED <<task, target>>
          ELSE /\ task' = IF Has(c, "E") THEN "extrude" ELSE "move"
               /\ target' = Kept(Target(c, v))
               /\ UNCHANGED response
  /\ UNCHANGED <<motors, fan, led, memory>>

\* The movement.  The heater is not looked at again.
Travel ==
  /\ task \in {"move", "extrude"} /\ task' = "none" /\ target' = 0
  /\ motorsOn' = TRUE /\ position' = target
  /\ Ok
  /\ UNCHANGED <<slot, mode, extruderMode, units, peripherals, memory>>

\* More filament than a motor's counter has steps for (its value is not
\* modelled): nothing moves.
TooBig ==
  /\ task = "extrude" /\ task' = "none" /\ target' = 0
  /\ Error("too big")
  /\ UNCHANGED <<slot, motors, peripherals, memory>>

\* G4: neither a parameter nor its value changes anything.
Delay(c) ==
  /\ c.letter = "G" /\ Number(c) = 4
  /\ Ok
  /\ UNCHANGED <<motors, peripherals, memory, task, target>>

\* Homing and calibrating; what they do to the axes is Calibration's subject.
Homed == motorsOn' = TRUE /\ position' \in POSITIONS /\ UNCHANGED <<mode, extruderMode, units>>

\* G28.
HomeXY(c) ==
  /\ c.letter = "G" /\ Number(c) = 28
  /\ Homed
  /\ Ok \/ Error("calibration")
  /\ UNCHANGED <<peripherals, memory, task, target>>

\* The bed's height offset is erased.
EraseOffset == eeprom' = [eeprom EXCEPT ![REGIONS["bed"]] = 0]

\* G30 and G32 turn fan and heater off, which tests the heater and reads its
\* constants again, and look for the bed's centre.  A stop or a failure ends
\* them there.
Calibrate(c) ==
  /\ c.letter = "G" /\ Number(c) \in {30, 32}
  /\ fan' = 0 /\ heater' = FALSE /\ working' \in BOOLEAN
  /\ Reread("heater")
  /\ Homed
  /\ \/ (Ok \/ Error("calibration")) /\ UNCHANGED <<eeprom, task>>
     \/ Ok /\ EraseOffset /\ task' = IF Number(c) = 30 THEN "saved" ELSE "centred"
  /\ UNCHANGED <<led, target>>

\* G33.
SaveZ0(c) ==
  /\ c.letter = "G" /\ Number(c) = 33
  /\ EraseOffset /\ task' = "saved"
  /\ Ok
  /\ UNCHANGED <<motors, peripherals, cached, target>>

\* saveZAsBedCenterZ0 after the offset; G32 goes on to the corners.
LoadBed ==
  /\ task \in {"saved", "centred"}
  /\ task' = IF task = "saved" THEN "none" ELSE "corners"
  /\ Reread("bed")
  /\ UNCHANGED <<slot, motors, peripherals, eeprom, target, response>>

\* G32 writes a corner.  The movements between corners do not look at the copy.
SaveCorner ==
  /\ task = "corners"
  /\ \E b \in BEDS : eeprom' = [eeprom EXCEPT ![REGIONS["bed"]] = b]
  /\ UNCHANGED <<slot, motors, peripherals, cached, task, target, response>>

\* Faulty: a stop or a failure leaves G32 without loading what was measured.
EndCornersUnloaded ==
  /\ task = "corners" /\ task' = "none"
  /\ Ok \/ Error("calibration")
  /\ Reread("bed") \/ UNCHANGED cached
  /\ UNCHANGED <<slot, motors, peripherals, eeprom, target>>

\* After the last corner, or the one at which a stop or a failure came.
EndCorners ==
  /\ task = "corners" /\ task' = "none"
  /\ Ok \/ Error("calibration")
  /\ Reread("bed")
  /\ UNCHANGED <<slot, motors, peripherals, eeprom, target>>

\* G90 and G91.
Mode(c) ==
  /\ c.letter = "G" /\ Number(c) \in {90, 91}
  /\ mode' = (IF Number(c) = 90 THEN "absolute" ELSE "relative")
  /\ extruderMode' = mode'
  /\ Ok
  /\ UNCHANGED <<motorsOn, units, position, peripherals, memory, task, target>>

\* G92: without an axis every axis is zero; the slot's values become zero too.
SetPosition(c, v) ==
  /\ c.letter = "G" /\ Number(c) = 92
  /\ LET all == ~Has(c, "X") /\ ~Has(c, "E")
     IN  position' = IF all THEN 0 ELSE IF Has(c, "X") THEN v["X"] * Scale ELSE position
  /\ Ok
  /\ UNCHANGED <<motorsOn, mode, extruderMode, units, peripherals, memory, task, target>>

\* G20 and G21.
Units(c) ==
  /\ c.letter = "G" /\ Number(c) \in {20, 21}
  /\ units' = IF Number(c) = 20 THEN "inches" ELSE "millimetres"
  /\ Ok
  /\ UNCHANGED <<motorsOn, mode, extruderMode, position, peripherals, memory, task, target>>

MNumbers == {17, 18, 20, 21, 22, 80, 81, 82, 83, 84, 104, 105, 106, 107, 109, 110,
             111, 114, 115, 117, 400, 420, 618, 619, 999}
GNumbers == {0, 1, 4, 20, 21, 28, 30, 32, 33, 90, 91, 92}

\* Anything else.
Unknown(c) ==
  /\ \/ c.letter = "M" /\ c.number \notin MNumbers
     \/ c.letter = "G" /\ Number(c) \notin GNumbers
  /\ Error("unknown")
  /\ UNCHANGED <<motors, peripherals, memory, task, target>>

-----------------------------------------------------------------------------
\* The one of the commands that c is.
Execute(c, v) ==
  \/ Motors(c) \/ ExtruderMode(c) \/ Temperature(c, v)
  \/ ReadTemperature(c) \/ SetFan(c, v) \/ SetLed(c, v) \/ Position(c)
  \/ Details(c) \/ AccessEeprom(c, v) \/ Nothing(c) \/ Move(c, v)
  \/ Delay(c) \/ HomeXY(c) \/ Calibrate(c) \/ SaveZ0(c) \/ Mode(c)
  \/ SetPosition(c, v) \/ Units(c) \/ Unknown(c)

\* The main loop takes a command once the one before is done.
Obey(c) ==
  /\ task = "none"
  /\ LET v == Parsed(c)
     IN  /\ slot' = IF c.letter = "G" /\ Number(c) = 92 /\ ~Has(c, "X") /\ ~Has(c, "E")
                    THEN [v EXCEPT !["X"] = 0, !["E"] = 0] ELSE v
         /\ Execute(c, v)

\* The steps that are left of a command.
Continue ==
  \/ UpdateSerialNumber \/ UpdateBedChanges \/ UpdateHeaterChanges
  \/ Travel \/ TooBig \/ LoadBed \/ SaveCorner \/ EndCorners

\* The temperature or the wait timer tests the heater: a broken one is cleared.
HeaterTested ==
  /\ working' = ~working /\ heater' = (heater /\ working')
  /\ UNCHANGED <<slot, motors, fan, led, memory, task, target, response>>

\* fan.isOn, led.isOn, heater.isOn and motors.isOn.
AnythingOn == fan # 0 \/ led # 100 \/ heater \/ motorsOn

\* Nothing was asked for INACTIVITY_TIMEOUT_SECONDS: resetPeripherals.
Inactive ==
  /\ task = "none"
  /\ AnythingOn
  /\ fan' = 0 /\ led' = 100 /\ heater' = FALSE /\ motorsOn' = FALSE
  /\ UNCHANGED <<slot, mode, extruderMode, units, position, working, memory, task,
                 target, response>>

CommandsNext == (\E c \in COMMANDS : Obey(c)) \/ Continue \/ HeaterTested \/ Inactive

CommandsSpec == CommandsInit /\ [][CommandsNext]_commandVars

-----------------------------------------------------------------------------
\* What RAM holds of the serial number, the bed and the heater is what the
\* EEPROM holds.
CopiesFresh == cached = Copies(eeprom)

\* The heater is only on while its calibration mode in the EEPROM is one the
\* code supports.
HeaterCalibrated == heater => Supported(eeprom[REGIONS["heater"]])

\* Whenever a command is taken, a movement uses the bed or nothing is left to
\* do, the copies are those of the EEPROM and the heater is only on in a
\* mode the code supports: whichever of M618, G30, G32 and G33 wrote what
\* (main.cpp 1592-1601, motors.cpp 1761, 2087), after whichever corner a stop
\* or a failure ended G32, and however M618 changes the heater's mode after
\* M104 turned it on.
CachesFresh ==
  task \in {"none", "move", "extrude"} => CopiesFresh /\ HeaterCalibrated
=============================================================================
