---------------------------- MODULE SharingProofs ----------------------------
(***************************************************************************)
(* The converter is shared without harm, for every clock, every rate of    *)
(* conversion and every number of samples: whoever takes a result takes    *)
(* the one of the conversion it started, with its own configuration; the   *)
(* command register of the NVM controller is what its user put there; and  *)
(* a heater that heats is watched by its interrupt.                        *)
(***************************************************************************)
EXTENDS AdcSharing, TLAPS

-----------------------------------------------------------------------------
(* The converter.                                                          *)

Reading == {"read 1", "read 0"}
Converting == {"start", "wait", "take"}
MeasureStep ==
    {"save 1", "load 1", "save 0", "load 0", "configure", "channel", "measured"}
        \cup Reading \cup Converting

CommandStep == {"idle", "command", "set", "finish", "load", "exec", "restore", "wrote"}

Frame ==
    [at : MeasureStep \cup CommandStep, which : {"heater", "resistance"}, left : Int,
     saved : {NO_OPERATION, READ_CALIB_ROW, ERASE_WRITE_EEPROM_PAGE}, cal : {"calibration"},
     taken : SUBSET {Wanted("heater"), Wanted("resistance")},
     caller : {"none", "tick", "resistance", "voltage", "wait", "working", "ask", "set"}]

Measures(a) == frame[a].at \in MeasureStep

FrameType ==
    /\ frame \in [Actor -> Frame]
    /\ frame["interrupt"].at \in MeasureStep \cup {"idle"}
    /\ CMD \in {NO_OPERATION, READ_CALIB_ROW, ERASE_WRITE_EEPROM_PAGE}

\* While the main loop measures no interrupt comes: the temperature interrupt is
\* off for the test, the wait interrupt for the command.
ExclusionInv ==
    /\ waiting = TRUE => frame["main"].at = "idle"
    /\ Measures("main") => frame["interrupt"].at = "idle" /\ updating = FALSE

\* The command that the main loop last loaded: it is in the register, or the
\* interrupt saved it.
LoadedCommand == IF frame["interrupt"].at \in Reading THEN frame["interrupt"].saved ELSE CMD

CommandInv ==
    /\ frame["main"].at = "exec" => LoadedCommand = ERASE_WRITE_EEPROM_PAGE
    /\ \A a \in Actor : frame[a].at \in Reading => CMD = READ_CALIB_ROW
    /\ frame["interrupt"].at \in {"load 1", "load 0"} => frame["interrupt"].saved = CMD
    /\ OwnCommand

\* The converter holds what the one that measures wrote, and a conversion or its
\* flag is that of the one that waits for it.
ReadsOwn(f) ==
    /\ f.at \in {"channel"} \cup Converting =>
           ADC.conf = Configuration(f.which).controller /\ ADC.cal = "calibration"
    /\ f.at \in Converting => ADC.channel = Configuration(f.which).channel
    /\ f.at = "wait" /\ converting # Nothing => converting = Wanted(f.which)
    /\ f.at = "wait" /\ interruptFlag = TRUE => RES = Wanted(f.which)
    /\ f.at = "take" => RES = Wanted(f.which)

ReadingInv ==
    /\ \A a \in Actor : ReadsOwn(frame[a])
    /\ converting # Nothing => interruptFlag = FALSE
    /\ converting # Nothing \/ interruptFlag = TRUE => \E a \in Actor : frame[a].at = "wait"
    /\ OwnReading

\* A heater that heats without its interrupt is being tested.
WatchInv ==
    heating = TRUE /\ updating = FALSE =>
        \/ Measures("main")
        \/ Measures("interrupt") /\ frame["interrupt"].caller \in {"tick", "wait"}

ConverterType ==
    /\ ADC = [enabled |-> ADC.enabled, conf |-> ADC.conf, cal |-> ADC.cal, channel |-> ADC.channel]
    /\ interruptFlag \in BOOLEAN /\ heating \in BOOLEAN /\ updating \in BOOLEAN
    /\ waiting \in BOOLEAN /\ connected \in BOOLEAN

SharingInv ==
    FrameType /\ ConverterType /\ ExclusionInv /\ CommandInv /\ ReadingInv /\ WatchInv

\* One frame becomes f and the other stays.
Becomes(a, f) ==
    /\ frame' \in [Actor -> Frame]
    /\ frame'[a] = f
    /\ \A b \in Actor \ {a} : frame'[b] = frame[b]

LEMMA FrameBecomes ==
    ASSUME frame \in [Actor -> Frame], NEW a \in Actor, NEW f \in Frame,
           frame' = [frame EXCEPT ![a] = f]
    PROVE  Becomes(a, f)
BY DEF Becomes

\* f is as frame g but for its place.
MovedFrom(g, f, place) ==
    /\ f \in Frame /\ f.at = place
    /\ f.which = g.which /\ f.saved = g.saved /\ f.taken = g.taken /\ f.caller = g.caller

LEMMA FrameMoved ==
    ASSUME NEW g \in Frame, NEW place \in MeasureStep \cup CommandStep
    PROVE  MovedFrom(g, [g EXCEPT !.at = place], place)
BY DEF MovedFrom, Frame

LEMMA GoMoves ==
    ASSUME frame \in [Actor -> Frame], NEW a \in Actor, NEW place \in MeasureStep \cup CommandStep,
           Go(a, place)
    PROVE  \E f : Becomes(a, f) /\ MovedFrom(frame[a], f, place)
<1> PICK f : f = [frame[a] EXCEPT !.at = place]
  OBVIOUS
<1>1. MovedFrom(frame[a], f, place)
  BY FrameMoved
<1>2. frame' = [frame EXCEPT ![a] = f]
  BY DEF Go
<1> QED
  BY <1>1, <1>2, FrameBecomes DEF MovedFrom

\* A fresh frame.
Fresh(f, which, caller) ==
    /\ f \in Frame /\ f.at = "save 1" /\ f.which = which /\ f.taken = {} /\ f.caller = caller

LEMMA IdleFrame == Idle \in Frame /\ Idle.at = "idle" /\ Idle.taken = {}
<1>1. 0 \in Int /\ {} \in SUBSET {Wanted("heater"), Wanted("resistance")}
  OBVIOUS
<1>2. Idle \in Frame
  BY <1>1, Zenon DEF Idle, Frame, CommandStep
<1> QED
  BY <1>2, Zenon DEF Idle

LEMMA MeasuringFrame ==
    ASSUME NEW which \in {"heater", "resistance"}, NEW n \in Int,
           NEW caller \in {"tick", "resistance", "voltage", "wait", "working", "ask", "set"}
    PROVE  Fresh(Measuring(which, n, caller), which, caller)
<1> PICK place : place = "save 1"
  OBVIOUS
<1>1. Measuring(which, n, caller) =
        [Idle EXCEPT !.at = place, !.which = which, !.left = n, !.caller = caller]
  BY DEF Measuring
<1>2. place \in MeasureStep
  BY DEF MeasureStep
<1> QED
  BY <1>1, <1>2, IdleFrame DEF Fresh, Frame

-----------------------------------------------------------------------------
(* The steps of a measurement.                                             *)

\* Who measures and runs does so alone.
LEMMA OnlyOne ==
    ASSUME ExclusionInv, FrameType, NEW a \in Actor, Running(a), Measures(a)
    PROVE  \A b \in Actor \ {a} : ~Measures(b)
BY DEF ExclusionInv, FrameType, Actor, Running, Measures, MeasureStep, Reading, Converting

\* The register's command as the frame g of the interrupt leaves it.
Loaded(g, command) == IF g.at \in Reading THEN g.saved ELSE command

LEMMA ReadingMove ==
    ASSUME OwnReading, NEW a \in Actor, NEW f \in Frame, Becomes(a, f),
           \A b \in Actor \ {a} : ~Measures(b),
           f.taken \subseteq {Wanted(f.which)}, ReadsOwn(f)',
           converting' # Nothing => interruptFlag' = FALSE,
           converting' # Nothing \/ interruptFlag' = TRUE => f.at = "wait"
    PROVE  ReadingInv'
<1>1. OwnReading'
  BY DEF OwnReading, Becomes
<1>2. ASSUME NEW b \in Actor PROVE ReadsOwn(frame[b])'
  <2>1. CASE b = a
    BY <2>1 DEF Becomes, ReadsOwn
  <2>2. CASE b # a
    <3>1. frame'[b] = frame[b] /\ frame[b].at \notin MeasureStep
      BY <2>2 DEF Becomes, Measures
    <3> QED
      BY <3>1 DEF ReadsOwn, MeasureStep, Converting
  <2> QED
    BY <2>1, <2>2
<1> QED
  BY <1>1, <1>2 DEF ReadingInv, Becomes

LEMMA CommandMove ==
    ASSUME CommandInv, ExclusionInv, FrameType, NEW a \in Actor, NEW f \in Frame, Becomes(a, f),
           Running(a), Measures(a), f.at \in MeasureStep,
           CMD' \in {NO_OPERATION, READ_CALIB_ROW, ERASE_WRITE_EEPROM_PAGE},
           f.at \in Reading => CMD' = READ_CALIB_ROW,
           f.at \in {"load 1", "load 0"} => f.saved = CMD',
           Loaded(f, CMD') = Loaded(frame[a], CMD), executed' = executed
    PROVE  CommandInv' /\ FrameType'
<1>1. \A b \in Actor \ {a} : frame'[b] = frame[b] /\ frame[b].at \notin MeasureStep
  BY OnlyOne DEF Becomes, Measures
<1>2. frame'[a] = f /\ f.at # "exec" /\ f.at # "idle"
  BY DEF Becomes, MeasureStep, Reading, Converting
<1>3. OwnCommand'
  BY DEF CommandInv, OwnCommand
<1>4. ASSUME NEW b \in Actor, frame'[b].at \in Reading PROVE CMD' = READ_CALIB_ROW
  BY <1>1, <1>2, <1>4 DEF MeasureStep
<1>5. CASE a = "main"
  <2>1. frame'["interrupt"] = frame["interrupt"] /\ frame["interrupt"].at = "idle"
    BY <1>5, <1>1 DEF Running, Actor
  <2> QED
    BY <1>2, <1>3, <1>4, <1>5, <2>1 DEF CommandInv, FrameType, Becomes
<1>6. CASE a = "interrupt"
  <2>1. frame'["main"] = frame["main"]
    BY <1>1, <1>6 DEF Actor
  <2>2. LoadedCommand' = LoadedCommand
    BY <1>2, <1>6 DEF Loaded, LoadedCommand
  <2> QED
    BY <1>2, <1>3, <1>4, <1>6, <2>1, <2>2 DEF CommandInv, FrameType, Becomes
<1> QED
  BY <1>5, <1>6 DEF Actor

\* What every step of a measurement keeps, as long as it keeps its own readings.
LEMMA MeasureMove ==
    ASSUME SharingInv, NEW a \in Actor, NEW f \in Frame, Becomes(a, f),
           Running(a), Measures(a), f.at \in MeasureStep, f.caller = frame[a].caller,
           UNCHANGED <<executed, heating, updating, waiting, connected>>,
           ConverterType', CommandInv', FrameType',
           f.taken \subseteq {Wanted(f.which)}, ReadsOwn(f)',
           converting' # Nothing => interruptFlag' = FALSE,
           converting' # Nothing \/ interruptFlag' = TRUE => f.at = "wait"
    PROVE  SharingInv'
<1>1. \A b \in Actor \ {a} : ~Measures(b)
  BY OnlyOne DEF SharingInv
<1>2. ReadingInv'
  BY <1>1, ReadingMove DEF SharingInv, ReadingInv
<1>3. frame'[a] = f /\ \A b \in Actor \ {a} : frame'[b] = frame[b]
  BY DEF Becomes
<1>4. ExclusionInv'
  BY <1>3 DEF SharingInv, ExclusionInv, Actor, Measures, MeasureStep, Reading, Converting, Running
<1>5. WatchInv'
  BY <1>3 DEF SharingInv, WatchInv, Actor, Measures
<1> QED
  BY <1>2, <1>4, <1>5 DEF SharingInv

\* The places of a measurement's six accesses to the command register.
LEMMA CalibrationPlaces ==
    /\ Calibration[1] = "save 1" /\ Calibration[2] = "load 1" /\ Calibration[3] = "read 1"
    /\ Calibration[4] = "save 0" /\ Calibration[5] = "load 0" /\ Calibration[6] = "read 0"
    /\ \A n \in {1, 4} : Calibration[n] \in {"save 1", "save 0"}
                         /\ Calibration[n + 1] \in {"load 1", "load 0"}
    /\ \A n \in {2, 5} : Calibration[n] \in {"load 1", "load 0"} /\ Calibration[n + 1] \in Reading
<1>1. /\ Calibration[1] = "save 1" /\ Calibration[2] = "load 1" /\ Calibration[3] = "read 1"
      /\ Calibration[4] = "save 0" /\ Calibration[5] = "load 0" /\ Calibration[6] = "read 0"
  BY DEF Calibration
<1>2. 1 + 1 = 2 /\ 2 + 1 = 3 /\ 4 + 1 = 5 /\ 5 + 1 = 6
  OBVIOUS
<1> QED
  BY <1>1, <1>2, Zenon DEF Reading

\* Before the converter is configured nothing is converted.
LEMMA NotConverting ==
    ASSUME SharingInv, NEW a \in Actor, Running(a), Measures(a), frame[a].at # "wait"
    PROVE  converting = Nothing /\ interruptFlag = FALSE
<1>1. \A b \in Actor : frame[b].at # "wait"
  BY OnlyOne DEF SharingInv, Measures, MeasureStep, Converting
<1> QED
  BY <1>1 DEF SharingInv, ReadingInv, ConverterType

LEMMA TakenOwn ==
    ASSUME SharingInv, NEW a \in Actor
    PROVE  /\ frame[a] \in Frame /\ frame[a].taken \subseteq {Wanted(frame[a].which)}
           /\ frame \in [Actor -> Frame] /\ ReadsOwn(frame[a])
BY DEF SharingInv, ReadingInv, OwnReading, FrameType

LEMMA SaveCommandStep ==
    ASSUME SharingInv, NEW a \in Actor, NEW n \in {1, 4}, SaveCommand(a, n)
    PROVE  SharingInv'
<1> PICK place : place = Calibration[n + 1]
  OBVIOUS
<1> PICK f : f = [frame[a] EXCEPT !.saved = CMD, !.at = place]
  OBVIOUS
<1>1. place \in {"load 1", "load 0"} /\ Calibration[n] \in {"save 1", "save 0"}
  BY CalibrationPlaces
<1>2. place \in MeasureStep /\ Calibration[n] \in MeasureStep \ (Reading \cup Converting)
  BY <1>1 DEF MeasureStep, Reading, Converting
<1>3. /\ f \in Frame /\ f.at = place /\ f.saved = CMD /\ f.which = frame[a].which
      /\ f.taken = frame[a].taken /\ f.caller = frame[a].caller
  <2>1. CMD \in {NO_OPERATION, READ_CALIB_ROW, ERASE_WRITE_EEPROM_PAGE}
    BY DEF SharingInv, FrameType
  <2>2. frame[a] \in Frame
    BY TakenOwn
  <2>3. place \in MeasureStep
    BY <1>2
  <2> QED
    BY <2>1, <2>2, <2>3 DEF Frame
<1>4. Becomes(a, f)
  BY <1>3, FrameBecomes, TakenOwn DEF SaveCommand
<1>5. /\ Running(a) /\ frame[a].at = Calibration[n]
      /\ UNCHANGED <<ADC, converting, interruptFlag, RES, CMD, executed, heating, updating,
                     waiting, connected>>
  BY DEF SaveCommand, Here, hardware, heater
<1>6. Measures(a) /\ converting = Nothing /\ interruptFlag = FALSE
  BY <1>1, <1>2, <1>5, NotConverting DEF Measures
<1>7. CommandInv' /\ FrameType'
  BY <1>1, <1>2, <1>3, <1>4, <1>5, <1>6, CommandMove DEF SharingInv, FrameType, Loaded, Reading
<1>8. ConverterType'
  BY <1>5 DEF SharingInv, ConverterType
<1>9. ReadsOwn(f)'
  BY <1>1, <1>3 DEF ReadsOwn, Converting
<1> QED
  BY <1>2, <1>3, <1>4, <1>5, <1>6, <1>7, <1>8, <1>9, TakenOwn, MeasureMove

LEMMA LoadCommandStep ==
    ASSUME SharingInv, NEW a \in Actor, NEW n \in {2, 5}, LoadCommand(a, n)
    PROVE  SharingInv'
<1>1. Calibration[n + 1] \in Reading /\ Calibration[n] \in {"load 1", "load 0"}
  BY CalibrationPlaces DEF Reading
<1>2. Calibration[n + 1] \in MeasureStep /\ Calibration[n] \in MeasureStep \ (Reading \cup Converting)
  BY <1>1 DEF MeasureStep, Reading, Converting
<1> PICK f : Becomes(a, f) /\ MovedFrom(frame[a], f, Calibration[n + 1])
  BY <1>2, GoMoves, TakenOwn DEF LoadCommand
<1>3. /\ f \in Frame /\ f.at = Calibration[n + 1] /\ f.saved = frame[a].saved
      /\ f.which = frame[a].which /\ f.taken = frame[a].taken /\ f.caller = frame[a].caller
  BY DEF MovedFrom
<1>5. /\ Running(a) /\ frame[a].at = Calibration[n] /\ CMD' = READ_CALIB_ROW
      /\ UNCHANGED <<ADC, converting, interruptFlag, RES, executed, heating, updating,
                     waiting, connected>>
  BY DEF LoadCommand, Here, hardware, heater
<1>6. Measures(a) /\ converting = Nothing /\ interruptFlag = FALSE
  BY <1>1, <1>2, <1>5, NotConverting DEF Measures
<1>7. CommandInv' /\ FrameType'
  <2>1. CASE a = "interrupt"
    <3>1. Loaded(f, CMD') = Loaded(frame[a], CMD)
      BY <2>1, <1>1, <1>2, <1>3, <1>5 DEF SharingInv, CommandInv, Loaded
    <3> QED
      BY <3>1, <1>1, <1>2, <1>3, <1>5, <1>6, CommandMove DEF SharingInv, Reading
  <2>2. CASE a = "main"
    <3>1. frame'["interrupt"].at = "idle" /\ frame'["main"] = f
      BY <2>2, <1>5 DEF Becomes, Running, Actor
    <3>2. f.at \notin {"exec", "idle"} /\ "idle" \notin Reading
      BY <1>1, <1>3 DEF Reading
    <3>3. OwnCommand'
      BY <1>5 DEF SharingInv, CommandInv, OwnCommand
    <3>4. CommandInv'
      BY <3>1, <3>2, <3>3, <1>5 DEF CommandInv, Actor
    <3> QED
      BY <3>1, <3>4, <1>5 DEF FrameType, Becomes
  <2> QED
    BY <2>1, <2>2 DEF Actor
<1>8. ConverterType'
  BY <1>5 DEF SharingInv, ConverterType
<1>9. ReadsOwn(f)'
  BY <1>1, <1>3 DEF ReadsOwn, Converting, Reading
<1> QED
  BY <1>2, <1>3, <1>5, <1>6, <1>7, <1>8, <1>9, TakenOwn, MeasureMove

LEMMA FrameRead ==
    ASSUME NEW g \in Frame, NEW place \in MeasureStep, NEW cal, cal = g.cal,
           NEW f, f = [g EXCEPT !.cal = cal, !.at = place]
    PROVE  MovedFrom(g, f, place)
BY DEF Frame, MovedFrom

LEMMA ReadByteStep ==
    ASSUME SharingInv, NEW a \in Actor, NEW n \in {3, 6}, ReadByte(a, n)
    PROVE  SharingInv'
<1> PICK place : place = IF n = 6 THEN "configure" ELSE Calibration[n + 1]
  OBVIOUS
<1>1. place \in {"save 0", "configure"} /\ Calibration[n] \in Reading
  <2>1. 3 + 1 = 4 /\ 3 # 6
    OBVIOUS
  <2>2. CASE n = 3
    BY <2>1, <2>2, CalibrationPlaces, Zenon DEF Reading
  <2>3. CASE n = 6
    BY <2>3, CalibrationPlaces, Zenon DEF Reading
  <2> QED
    BY <2>2, <2>3
<1>2. place \in MeasureStep /\ place \notin Reading /\ Calibration[n] \in MeasureStep \ Converting
  BY <1>1 DEF MeasureStep, Reading, Converting
<1>3. /\ Running(a) /\ frame[a].at = Calibration[n] /\ CMD' = frame[a].saved
      /\ UNCHANGED <<ADC, converting, interruptFlag, RES, executed, heating, updating,
                     waiting, connected>>
  BY DEF ReadByte, Here, hardware, heater, Restored
<1>4. CMD = READ_CALIB_ROW
  BY <1>1, <1>3 DEF SharingInv, CommandInv
<1> PICK f : f = [frame[a] EXCEPT !.cal = frame[a].cal, !.at = place]
  OBVIOUS
<1>5. frame' = [frame EXCEPT ![a] = f]
  BY <1>4 DEF ReadByte
<1>6. MovedFrom(frame[a], f, place)
  BY <1>2, TakenOwn, FrameRead
<1>7. Becomes(a, f)
  BY <1>5, <1>6, FrameBecomes, TakenOwn DEF MovedFrom
<1>8. /\ f \in Frame /\ f.at = place /\ f.saved = frame[a].saved
      /\ f.which = frame[a].which /\ f.taken = frame[a].taken /\ f.caller = frame[a].caller
  BY <1>6 DEF MovedFrom
<1>9. Measures(a) /\ converting = Nothing /\ interruptFlag = FALSE
  BY <1>1, <1>2, <1>3, NotConverting DEF Measures, Reading
<1>10. CMD' \in {NO_OPERATION, READ_CALIB_ROW, ERASE_WRITE_EEPROM_PAGE}
  BY <1>3, TakenOwn DEF Frame
<1>11. Loaded(f, CMD') = Loaded(frame[a], CMD)
  BY <1>1, <1>2, <1>3, <1>8 DEF Loaded
<1>12. CommandInv' /\ FrameType'
  BY <1>1, <1>2, <1>3, <1>7, <1>8, <1>9, <1>10, <1>11, CommandMove DEF SharingInv
<1>13. ConverterType'
  BY <1>3 DEF SharingInv, ConverterType
<1>14. ReadsOwn(f)'
  BY <1>1, <1>8 DEF ReadsOwn, Converting
<1> QED
  BY <1>2, <1>3, <1>7, <1>8, <1>9, <1>12, <1>13, <1>14, TakenOwn, MeasureMove

\* A step that moves on a measurement without touching the command register.
LEMMA ConverterMove ==
    ASSUME SharingInv, NEW a \in Actor, NEW f \in Frame, Becomes(a, f),
           Running(a), Measures(a), frame[a].at \notin Reading,
           f.at \in MeasureStep, f.at \notin Reading \cup {"load 1", "load 0"},
           f.caller = frame[a].caller,
           UNCHANGED <<CMD, executed, heating, updating, waiting, connected>>,
           ConverterType', f.taken \subseteq {Wanted(f.which)}, ReadsOwn(f)',
           converting' # Nothing => interruptFlag' = FALSE,
           converting' # Nothing \/ interruptFlag' = TRUE => f.at = "wait"
    PROVE  SharingInv'
<1>1. Loaded(f, CMD') = Loaded(frame[a], CMD)
  BY DEF Loaded
<1>2. CommandInv' /\ FrameType'
  BY <1>1, CommandMove DEF SharingInv, FrameType
<1> QED
  BY <1>2, MeasureMove

LEMMA WriteConfigurationStep ==
    ASSUME SharingInv, NEW a \in Actor, adc_write_configuration(a)
    PROVE  SharingInv'
<1>1. /\ Running(a) /\ frame[a].at = "configure"
      /\ UNCHANGED <<interruptFlag, RES, CMD, executed, heating, updating, waiting, connected>>
  BY DEF adc_write_configuration, Here, heater
<1>2. Measures(a) /\ frame[a].at \notin Reading
  BY <1>1 DEF Measures, MeasureStep, Reading, Converting
<1>3. "channel" \in MeasureStep /\ "channel" \notin Reading \cup {"load 1", "load 0"}
  BY DEF MeasureStep, Reading, Converting
<1> PICK f : Becomes(a, f) /\ MovedFrom(frame[a], f, "channel")
  BY <1>3, GoMoves, TakenOwn DEF adc_write_configuration
<1>4. /\ f \in Frame /\ f.at = "channel" /\ f.which = frame[a].which
      /\ f.taken = frame[a].taken /\ f.caller = frame[a].caller
  BY DEF MovedFrom
<1>5. converting' = Nothing /\ interruptFlag = FALSE
  BY <1>1, <1>2, NotConverting DEF adc_write_configuration, Flushed
<1> PICK conf : conf = Configuration(frame[a].which).controller
  OBVIOUS
<1> PICK cal : cal = frame[a].cal
  OBVIOUS
<1>6. ADC' = [enabled |-> ADC.enabled, conf |-> conf, cal |-> cal, channel |-> ADC.channel]
  <2>1. ADC = [enabled |-> ADC.enabled, conf |-> ADC.conf, cal |-> ADC.cal, channel |-> ADC.channel]
    BY DEF SharingInv, ConverterType
  <2>2. ADC' = [ADC EXCEPT !.conf = conf, !.cal = cal, !.enabled = EnableAgain(@)]
    BY DEF adc_write_configuration
  <2> QED
    BY <2>1, <2>2 DEF EnableAgain
<1>7. cal = "calibration"
  BY TakenOwn DEF Frame
<1>8. ConverterType'
  BY <1>1, <1>6 DEF SharingInv, ConverterType
<1>9. ReadsOwn(f)'
  BY <1>4, <1>6, <1>7 DEF ReadsOwn, Converting
<1> QED
  BY <1>1, <1>2, <1>3, <1>4, <1>5, <1>8, <1>9, TakenOwn, ConverterMove

LEMMA WriteChannelStep ==
    ASSUME SharingInv, NEW a \in Actor, adcch_write_configuration(a)
    PROVE  SharingInv'
<1>1. /\ Running(a) /\ frame[a].at = "channel"
      /\ UNCHANGED <<converting, interruptFlag, RES, CMD, executed, heating, updating, waiting, connected>>
  BY DEF adcch_write_configuration, Here, heater
<1>2. Measures(a) /\ frame[a].at \notin Reading
  BY <1>1 DEF Measures, MeasureStep, Reading, Converting
<1>3. "start" \in MeasureStep /\ "start" \notin Reading \cup {"load 1", "load 0"}
  BY DEF MeasureStep, Reading, Converting
<1> PICK f : Becomes(a, f) /\ MovedFrom(frame[a], f, "start")
  BY <1>3, GoMoves, TakenOwn DEF adcch_write_configuration
<1>4. /\ f \in Frame /\ f.at = "start" /\ f.which = frame[a].which
      /\ f.taken = frame[a].taken /\ f.caller = frame[a].caller
  BY DEF MovedFrom
<1>5. converting = Nothing /\ interruptFlag = FALSE
  BY <1>1, <1>2, NotConverting
<1> PICK channel : channel = Configuration(frame[a].which).channel
  OBVIOUS
<1>6. ADC' = [enabled |-> ADC.enabled, conf |-> ADC.conf, cal |-> ADC.cal, channel |-> channel]
  BY DEF adcch_write_configuration, SharingInv, ConverterType
<1>7. ADC.conf = Configuration(frame[a].which).controller /\ ADC.cal = "calibration"
  BY <1>1, TakenOwn DEF ReadsOwn
<1>8. ConverterType'
  BY <1>1, <1>6 DEF SharingInv, ConverterType
<1>9. ReadsOwn(f)'
  BY <1>4, <1>6, <1>7 DEF ReadsOwn, Converting
<1> QED
  BY <1>1, <1>2, <1>3, <1>4, <1>5, <1>8, <1>9, TakenOwn, ConverterMove

LEMMA StartConversionStep ==
    ASSUME SharingInv, NEW a \in Actor, adc_start_conversion(a)
    PROVE  SharingInv'
<1>1. /\ Running(a) /\ frame[a].at = "start"
      /\ UNCHANGED <<ADC, interruptFlag, RES, CMD, executed, heating, updating, waiting, connected>>
  BY DEF adc_start_conversion, Here, heater
<1>2. Measures(a) /\ frame[a].at \notin Reading
  BY <1>1 DEF Measures, MeasureStep, Reading, Converting
<1>3. "wait" \in MeasureStep /\ "wait" \notin Reading \cup {"load 1", "load 0"}
  BY DEF MeasureStep, Reading, Converting
<1> PICK f : Becomes(a, f) /\ MovedFrom(frame[a], f, "wait")
  BY <1>3, GoMoves, TakenOwn DEF adc_start_conversion
<1>4. /\ f \in Frame /\ f.at = "wait" /\ f.which = frame[a].which
      /\ f.taken = frame[a].taken /\ f.caller = frame[a].caller
  BY DEF MovedFrom
<1>5. converting = Nothing /\ interruptFlag = FALSE
  BY <1>1, <1>2, NotConverting
<1>6. ReadsOwn(frame[a])
  BY TakenOwn
<1>7. Written = Wanted(frame[a].which)
  BY <1>1, <1>6 DEF ReadsOwn, Converting, Written, Wanted
<1>8. converting' \in {Nothing, Wanted(f.which)}
  BY <1>4, <1>5, <1>7 DEF adc_start_conversion
<1>9. ConverterType'
  BY <1>1 DEF SharingInv, ConverterType
<1>10. ReadsOwn(f)'
  BY <1>1, <1>4, <1>5, <1>6, <1>8 DEF ReadsOwn, Converting
<1> QED
  BY <1>1, <1>2, <1>3, <1>4, <1>5, <1>9, <1>10, TakenOwn, ConverterMove

LEMMA WaitForFlagStep ==
    ASSUME SharingInv, NEW a \in Actor, adc_wait_for_interrupt_flag(a)
    PROVE  SharingInv'
<1>1. /\ Running(a) /\ frame[a].at = "wait"
      /\ UNCHANGED <<ADC, converting, RES, CMD, executed, heating, updating, waiting, connected>>
  BY DEF adc_wait_for_interrupt_flag, Here, heater
<1>2. Measures(a) /\ frame[a].at \notin Reading
  BY <1>1 DEF Measures, MeasureStep, Reading, Converting
<1>3. "take" \in MeasureStep /\ "take" \notin Reading \cup {"load 1", "load 0"}
  BY DEF MeasureStep, Reading, Converting
<1> PICK f : Becomes(a, f) /\ MovedFrom(frame[a], f, "take")
  BY <1>3, GoMoves, TakenOwn DEF adc_wait_for_interrupt_flag
<1>4. /\ f \in Frame /\ f.at = "take" /\ f.which = frame[a].which
      /\ f.taken = frame[a].taken /\ f.caller = frame[a].caller
  BY DEF MovedFrom
<1>5. interruptFlag = TRUE /\ interruptFlag' = FALSE
  BY DEF adc_wait_for_interrupt_flag, SharingInv, ConverterType
<1>6. converting = Nothing
  BY <1>5 DEF SharingInv, ReadingInv
<1>7. ReadsOwn(frame[a])
  BY TakenOwn
<1>8. ConverterType'
  BY <1>1, <1>5 DEF SharingInv, ConverterType
<1>9. ReadsOwn(f)'
  BY <1>1, <1>4, <1>5, <1>7 DEF ReadsOwn, Converting
<1> QED
  BY <1>1, <1>2, <1>3, <1>4, <1>5, <1>6, <1>8, <1>9, TakenOwn, ConverterMove

LEMMA GetResultStep ==
    ASSUME SharingInv, NEW a \in Actor, adc_get_result(a)
    PROVE  SharingInv'
<1>1. /\ Running(a) /\ frame[a].at = "take"
      /\ UNCHANGED <<ADC, converting, interruptFlag, RES, CMD, executed, heating, updating,
                     waiting, connected>>
  BY DEF adc_get_result, Here, hardware, heater
<1>2. Measures(a) /\ frame[a].at \notin Reading
  BY <1>1 DEF Measures, MeasureStep, Reading, Converting
<1> PICK place : place = IF frame[a].left > 1 THEN "start" ELSE "measured"
  OBVIOUS
<1>3. /\ place \in {"start", "measured"} /\ place \in MeasureStep
      /\ place \notin Reading \cup {"load 1", "load 0"}
  BY DEF MeasureStep, Reading, Converting
<1> PICK f : f = [frame[a] EXCEPT !.taken = @ \cup {RES}, !.left = @ - 1, !.at = place]
  OBVIOUS
<1>4. ReadsOwn(frame[a]) /\ frame[a] \in Frame /\ frame[a].taken \subseteq {Wanted(frame[a].which)}
  BY TakenOwn
<1>5. RES = Wanted(frame[a].which)
  BY <1>1, <1>4 DEF ReadsOwn
<1>6. /\ f \in Frame /\ f.at = place /\ f.which = frame[a].which /\ f.caller = frame[a].caller
      /\ f.taken \subseteq {Wanted(f.which)}
  <2>1. frame[a].taken \cup {RES} \in SUBSET {Wanted("heater"), Wanted("resistance")}
    BY <1>4, <1>5 DEF Frame
  <2>2. frame[a].left - 1 \in Int
    BY <1>4 DEF Frame
  <2> PICK taken : taken = frame[a].taken \cup {RES}
    OBVIOUS
  <2> PICK left : left = frame[a].left - 1
    OBVIOUS
  <2>3. f = [frame[a] EXCEPT !.taken = taken, !.left = left, !.at = place]
    OBVIOUS
  <2>4. f \in Frame /\ f.at = place /\ f.which = frame[a].which /\ f.caller = frame[a].caller
        /\ f.taken = taken
    BY <1>3, <1>4, <2>1, <2>2, <2>3 DEF Frame
  <2> QED
    BY <1>4, <1>5, <2>4
<1>7. Becomes(a, f)
  <2>1. frame' = [frame EXCEPT ![a] = f]
    BY DEF adc_get_result
  <2> QED
    BY <1>6, <2>1, FrameBecomes, TakenOwn
<1>8. converting = Nothing /\ interruptFlag = FALSE
  BY <1>1, <1>2, NotConverting
<1>9. ConverterType'
  BY <1>1 DEF SharingInv, ConverterType
<1>10. ReadsOwn(f)'
  BY <1>1, <1>3, <1>4, <1>6 DEF ReadsOwn, Converting
<1> QED
  BY <1>1, <1>2, <1>3, <1>6, <1>7, <1>8, <1>9, <1>10, ConverterMove

\* The converter completes the conversion of the one that waits.
LEMMA ConvertStep ==
    ASSUME SharingInv, Convert
    PROVE  SharingInv'
<1>1. /\ UNCHANGED <<ADC, CMD, executed, frame, heating, updating, waiting, connected>>
      /\ converting # Nothing /\ converting' = Nothing /\ RES' = converting /\ interruptFlag' = TRUE
  BY DEF Convert, heater
<1>2. PICK a \in Actor : frame[a].at = "wait"
  BY <1>1 DEF SharingInv, ReadingInv
<1>3. ASSUME NEW b \in Actor PROVE frame[b].at # "take"
  BY <1>2 DEF SharingInv, ExclusionInv, Actor, Measures, MeasureStep, Converting
<1>4. ASSUME NEW b \in Actor PROVE ReadsOwn(frame[b])'
  BY <1>1, <1>3, TakenOwn DEF ReadsOwn
<1>5. ReadingInv'
  BY <1>1, <1>2, <1>4 DEF SharingInv, ReadingInv, OwnReading
<1>6. FrameType' /\ ExclusionInv' /\ WatchInv'
  BY <1>1 DEF SharingInv, FrameType, ExclusionInv, WatchInv, Measures
<1>7. CommandInv'
  BY <1>1 DEF SharingInv, CommandInv, LoadedCommand, OwnCommand
<1>8. ConverterType'
  BY <1>1 DEF SharingInv, ConverterType
<1> QED
  BY <1>5, <1>6, <1>7, <1>8 DEF SharingInv

-----------------------------------------------------------------------------
(* The steps of the heater and of the main loop.                           *)

Flags ==
    /\ heating \in BOOLEAN /\ updating \in BOOLEAN /\ waiting \in BOOLEAN /\ connected \in BOOLEAN

\* Between measurements nothing is converted, and the converter stays as it is.
LEMMA RestingMove ==
    ASSUME SharingInv, NEW a \in Actor, NEW f \in Frame, Becomes(a, f),
           \A b \in Actor \ {a} : ~Measures(b),
           frame[a].at \in CommandStep \cup {"measured"}, f.at \in CommandStep \cup {"save 1"},
           f.taken \subseteq {Wanted(f.which)},
           UNCHANGED <<ADC, converting, interruptFlag, RES>>
    PROVE  ReadingInv'
<1>1. \A b \in Actor : frame[b].at # "wait"
  BY DEF Measures, MeasureStep, Converting, CommandStep
<1>2. converting = Nothing /\ interruptFlag = FALSE
  BY <1>1 DEF SharingInv, ReadingInv, ConverterType
<1>3. ReadsOwn(f)'
  BY DEF ReadsOwn, CommandStep, Converting
<1> QED
  BY <1>2, <1>3, ReadingMove DEF SharingInv, ReadingInv

LEMMA MainMove ==
    ASSUME SharingInv, NEW f \in Frame, Becomes("main", f), frame["interrupt"].at = "idle",
           frame["main"].at \in CommandStep \cup {"measured"}, f.at \in CommandStep \cup {"save 1"},
           f.taken \subseteq {Wanted(f.which)},
           UNCHANGED <<ADC, converting, interruptFlag, RES>>, Flags',
           CMD' \in {NO_OPERATION, READ_CALIB_ROW, ERASE_WRITE_EEPROM_PAGE},
           f.at = "exec" => CMD' = ERASE_WRITE_EEPROM_PAGE,
           executed' \subseteq {ERASE_WRITE_EEPROM_PAGE},
           waiting' = TRUE => f.at = "idle",
           f.at = "save 1" => updating' = FALSE,
           heating' = TRUE /\ updating' = FALSE => f.at = "save 1"
    PROVE  SharingInv'
<1>1. /\ "main" \in Actor /\ frame'["main"] = f
      /\ frame'["interrupt"] = frame["interrupt"] /\ frame' \in [Actor -> Frame]
  BY DEF Becomes, Actor
<1>2. \A b \in Actor \ {"main"} : ~Measures(b)
  BY DEF Actor, Measures, MeasureStep, Reading, Converting
<1>3. ReadingInv'
  BY <1>1, <1>2, RestingMove
<1>4. FrameType'
  BY <1>1 DEF FrameType
<1>5. ConverterType'
  BY DEF SharingInv, ConverterType, Flags
<1>6. f.at \in MeasureStep => f.at = "save 1"
  BY DEF MeasureStep, Reading, Converting, CommandStep
<1>7. ExclusionInv'
  BY <1>1, <1>6 DEF ExclusionInv, Measures, MeasureStep
<1>8. CommandInv'
  <2>1. LoadedCommand' = CMD'
    BY <1>1 DEF LoadedCommand, Reading
  <2>2. OwnCommand'
    BY DEF OwnCommand
  <2>3. \A a \in Actor : frame'[a].at \notin Reading
    BY <1>1 DEF Actor, Reading, CommandStep
  <2> QED
    BY <1>1, <2>1, <2>2, <2>3 DEF CommandInv
<1>9. WatchInv'
  BY <1>1 DEF WatchInv, Measures, MeasureStep
<1> QED
  BY <1>3, <1>4, <1>5, <1>7, <1>8, <1>9 DEF SharingInv

LEMMA InterruptMove ==
    ASSUME SharingInv, NEW f \in Frame, Becomes("interrupt", f), ~Measures("main"),
           frame["interrupt"].at \in {"idle", "measured"}, f.at \in {"idle", "save 1"},
           f.taken \subseteq {Wanted(f.which)},
           UNCHANGED <<ADC, converting, interruptFlag, RES, CMD, executed, waiting>>, Flags',
           heating' = TRUE /\ updating' = FALSE => f.at = "save 1" /\ f.caller \in {"tick", "wait"}
    PROVE  SharingInv'
<1>1. /\ "interrupt" \in Actor /\ frame'["interrupt"] = f
      /\ frame'["main"] = frame["main"] /\ frame' \in [Actor -> Frame]
  BY DEF Becomes, Actor
<1>2. \A b \in Actor \ {"interrupt"} : ~Measures(b)
  BY DEF Actor
<1>3. ReadingInv'
  BY <1>1, <1>2, RestingMove DEF CommandStep
<1>4. FrameType'
  BY <1>1 DEF SharingInv, FrameType, MeasureStep
<1>5. ConverterType'
  BY DEF SharingInv, ConverterType, Flags
<1>6. ExclusionInv'
  BY <1>1 DEF SharingInv, ExclusionInv, Measures
<1>7. CommandInv'
  <2>1. LoadedCommand' = CMD /\ LoadedCommand = CMD
    BY <1>1 DEF LoadedCommand, Reading
  <2>2. OwnCommand'
    BY DEF SharingInv, CommandInv, OwnCommand
  <2>3. \A a \in Actor : frame'[a].at \notin Reading
    BY <1>1 DEF Actor, Reading, Measures, MeasureStep
  <2> QED
    BY <1>1, <2>1, <2>2, <2>3 DEF SharingInv, CommandInv
<1>8. WatchInv'
  BY <1>1 DEF WatchInv, Measures, MeasureStep
<1> QED
  BY <1>3, <1>4, <1>5, <1>6, <1>7, <1>8 DEF SharingInv

\* Who is neither measuring nor tested is watched.
LEMMA RestingWatched ==
    ASSUME SharingInv, ~Measures("main"),
           frame["interrupt"].at = "idle" \/ frame["interrupt"].caller \notin {"tick", "wait"}
    PROVE  ~(heating = TRUE /\ updating = FALSE)
BY DEF SharingInv, WatchInv, Measures, MeasureStep, Reading, Converting

\* A place of the main loop outside of measurements.
LEMMA MainRests ==
    ASSUME SharingInv, NEW place \in CommandStep, Here("main", place)
    PROVE  /\ frame["interrupt"].at = "idle" /\ frame["main"].at = place /\ ~Measures("main")
           /\ "main" \in Actor /\ frame \in [Actor -> Frame] /\ frame["main"] \in Frame
           /\ frame["main"].taken \subseteq {Wanted(frame["main"].which)} /\ Flags
           /\ ~(heating = TRUE /\ updating = FALSE)
<1>1. frame["interrupt"].at = "idle" /\ frame["main"].at = place
  BY DEF Here, Running
<1>2. ~Measures("main")
  BY <1>1 DEF Measures, MeasureStep, CommandStep, Reading, Converting
<1>3. "main" \in Actor
  BY DEF Actor
<1>4. Flags
  BY DEF SharingInv, ConverterType, Flags
<1> QED
  BY <1>1, <1>2, <1>3, <1>4, TakenOwn, RestingWatched

\* The same for the interrupt.
LEMMA InterruptRests ==
    ASSUME SharingInv
    PROVE  /\ "interrupt" \in Actor /\ frame \in [Actor -> Frame] /\ frame["interrupt"] \in Frame
           /\ Flags
<1>1. "interrupt" \in Actor
  BY DEF Actor
<1> QED
  BY <1>1, TakenOwn DEF SharingInv, ConverterType, Flags

\* A test of the connection begins.
LEMMA TestBegins ==
    ASSUME SharingInv, NEW a \in Actor, NEW n \in Int, NEW which \in {"heater", "resistance"},
           NEW caller \in {"tick", "resistance", "voltage", "wait", "working", "ask", "set"},
           frame' = [frame EXCEPT ![a] = Measuring(which, n, caller)]
    PROVE  \E f \in Frame : Becomes(a, f) /\ Fresh(f, which, caller)
<1>1. Fresh(Measuring(which, n, caller), which, caller)
  BY MeasuringFrame
<1> QED
  BY <1>1, FrameBecomes, TakenOwn DEF Fresh

LEMMA ConnectionTestBegins ==
    ASSUME SharingInv, NEW a \in Actor, NEW caller \in {"tick", "wait", "working", "ask", "set"},
           frame' = [frame EXCEPT ![a] = Measuring("heater", 1, caller)]
    PROVE  \E f \in Frame : Becomes(a, f) /\ Fresh(f, "heater", caller)
<1>1. PICK n \in Int : n = 1
  OBVIOUS
<1>2. PICK which \in {"heater", "resistance"} : which = "heater"
  OBVIOUS
<1>3. frame' = [frame EXCEPT ![a] = Measuring(which, n, caller)]
  BY <1>1, <1>2
<1>4. \E f \in Frame : Becomes(a, f) /\ Fresh(f, which, caller)
  BY <1>3, TestBegins
<1> QED
  BY <1>2, <1>4

LEMMA Rests ==
    ASSUME SharingInv, NEW a \in Actor, frame' = [frame EXCEPT ![a] = Idle]
    PROVE  \E f \in Frame : Becomes(a, f) /\ f.at = "idle" /\ f.taken = {}
BY IdleFrame, FrameBecomes, TakenOwn

LEMMA TickStep ==
    ASSUME SharingInv, Tick
    PROVE  SharingInv'
<1>0. /\ UNCHANGED <<ADC, converting, interruptFlag, RES, CMD, executed, heating, waiting, connected>>
      /\ updating = TRUE /\ frame["interrupt"].at = "idle"
  BY DEF Tick, hardware, SharingInv, ConverterType
<1>1. CASE heating
  <2>1. frame' = [frame EXCEPT !["interrupt"] = Measuring("heater", 1, "tick")] /\ updating' = FALSE
    BY <1>1 DEF Tick, UpdatingInTest
  <2>2. PICK f \in Frame : Becomes("interrupt", f) /\ Fresh(f, "heater", "tick")
    BY <2>1, ConnectionTestBegins, InterruptRests
  <2>3. Flags' /\ ~Measures("main")
    BY <1>0, <2>1, InterruptRests DEF Flags, SharingInv, ExclusionInv
  <2> QED
    BY <1>0, <2>1, <2>2, <2>3, InterruptMove DEF Fresh
<1>2. CASE ~heating
  <2>1. UNCHANGED <<frame, updating>>
    BY <1>2 DEF Tick
  <2> QED
    BY <1>0, <2>1 DEF SharingInv, FrameType, ConverterType, ExclusionInv, CommandInv, ReadingInv,
       WatchInv, Measures, LoadedCommand, OwnCommand, ReadsOwn, OwnReading
<1> QED
  BY <1>1, <1>2

\* The interrupt has measured.
LEMMA InterruptMeasured ==
    ASSUME SharingInv, Here("interrupt", "measured")
    PROVE  frame["interrupt"].at = "measured" /\ ~Measures("main")
BY DEF Here, SharingInv, ExclusionInv

LEMMA TickTestedStep ==
    ASSUME SharingInv, HEATER_READ_ADC_SAMPLE_SIZE \in Int, TickTested
    PROVE  SharingInv'
<1>1. /\ UNCHANGED <<ADC, converting, interruptFlag, RES, CMD, executed, waiting, connected>>
      /\ heating' = (heating /\ connected) /\ updating' = TRUE
      /\ frame["interrupt"].at = "measured" /\ ~Measures("main")
  BY InterruptMeasured DEF TickTested, hardware, EndTest, UpdatingAfterTest
<1>2. Flags'
  BY <1>1, InterruptRests DEF Flags
<1>3. CASE connected
  <2>1. frame' = [frame EXCEPT !["interrupt"] =
                    Measuring("resistance", HEATER_READ_ADC_SAMPLE_SIZE, "resistance")]
    BY <1>3 DEF TickTested
  <2>2. PICK f \in Frame : Becomes("interrupt", f) /\ Fresh(f, "resistance", "resistance")
    BY <2>1, TestBegins, InterruptRests
  <2> QED
    BY <1>1, <1>2, <2>2, InterruptMove DEF Fresh
<1>4. CASE ~connected
  <2>1. PICK f \in Frame : Becomes("interrupt", f) /\ f.at = "idle" /\ f.taken = {}
    BY <1>4, Rests, InterruptRests DEF TickTested
  <2> QED
    BY <1>1, <1>2, <2>1, InterruptMove
<1> QED
  BY <1>3, <1>4

LEMMA TickMeasuredStep ==
    ASSUME SharingInv, HEATER_READ_ADC_SAMPLE_SIZE \in Int, TickMeasured
    PROVE  SharingInv'
<1>1. /\ UNCHANGED <<ADC, converting, interruptFlag, RES, CMD, executed, heating, updating,
                     waiting, connected>>
      /\ frame["interrupt"].caller \in {"resistance", "voltage"}
      /\ frame["interrupt"].at = "measured" /\ ~Measures("main")
  BY InterruptMeasured DEF TickMeasured, hardware, heater
<1>2. Flags' /\ ~(heating = TRUE /\ updating = FALSE)
  BY <1>1, InterruptRests, RestingWatched DEF Flags
<1>3. CASE frame["interrupt"].caller = "resistance"
  <2>1. frame' = [frame EXCEPT !["interrupt"] =
                    Measuring("heater", HEATER_READ_ADC_SAMPLE_SIZE, "voltage")]
    BY <1>3 DEF TickMeasured
  <2>2. PICK f \in Frame : Becomes("interrupt", f) /\ Fresh(f, "heater", "voltage")
    BY <2>1, TestBegins, InterruptRests
  <2> QED
    BY <1>1, <1>2, <2>2, InterruptMove DEF Fresh
<1>4. CASE frame["interrupt"].caller # "resistance"
  <2>1. PICK f \in Frame : Becomes("interrupt", f) /\ f.at = "idle" /\ f.taken = {}
    BY <1>4, Rests, InterruptRests DEF TickMeasured
  <2> QED
    BY <1>1, <1>2, <2>1, InterruptMove
<1> QED
  BY <1>3, <1>4

LEMMA WaitInterruptStep ==
    ASSUME SharingInv, WaitInterrupt
    PROVE  SharingInv'
<1>1. /\ UNCHANGED <<ADC, converting, interruptFlag, RES, CMD, executed, heating, waiting, connected>>
      /\ waiting = TRUE /\ frame["interrupt"].at = "idle" /\ updating' = FALSE
  BY DEF WaitInterrupt, hardware, SharingInv, ConverterType, UpdatingInTest
<1>2. PICK f \in Frame : Becomes("interrupt", f) /\ Fresh(f, "heater", "wait")
  BY ConnectionTestBegins, InterruptRests DEF WaitInterrupt
<1>3. Flags' /\ ~Measures("main")
  BY <1>1, InterruptRests DEF Flags, SharingInv, ExclusionInv, Measures, MeasureStep, Reading, Converting
<1> QED
  BY <1>1, <1>2, <1>3, InterruptMove DEF Fresh

LEMMA WaitInterruptEndsStep ==
    ASSUME SharingInv, WaitInterruptEnds
    PROVE  SharingInv'
<1>1. /\ UNCHANGED <<ADC, converting, interruptFlag, RES, CMD, executed, waiting, connected>>
      /\ heating' = (heating /\ connected) /\ updating' = TRUE
      /\ frame["interrupt"].at = "measured" /\ ~Measures("main")
  BY InterruptMeasured DEF WaitInterruptEnds, hardware, EndTest, UpdatingAfterTest
<1>2. Flags'
  BY <1>1, InterruptRests DEF Flags
<1>3. PICK f \in Frame : Becomes("interrupt", f) /\ f.at = "idle" /\ f.taken = {}
  BY Rests, InterruptRests DEF WaitInterruptEnds
<1> QED
  BY <1>1, <1>2, <1>3, InterruptMove

\* Steps that leave both frames alone.
LEMMA FlagStep ==
    ASSUME SharingInv, Flags', ~Measures("main") \/ updating' = updating,
           UNCHANGED <<ADC, converting, interruptFlag, RES, CMD, executed, frame, waiting>>,
           heating' = TRUE /\ updating' = FALSE => heating = TRUE /\ updating = FALSE
    PROVE  SharingInv'
<1>1. FrameType' /\ ConverterType' /\ ExclusionInv' /\ WatchInv'
  BY DEF SharingInv, FrameType, ConverterType, Flags, ExclusionInv, WatchInv, Measures
<1>2. CommandInv' /\ ReadingInv'
  BY DEF SharingInv, CommandInv, ReadingInv, LoadedCommand, OwnCommand, ReadsOwn, OwnReading
<1> QED
  BY <1>1, <1>2 DEF SharingInv

LEMMA InactiveStep ==
    ASSUME SharingInv, Inactive
    PROVE  SharingInv'
<1>1. /\ UNCHANGED <<ADC, converting, interruptFlag, RES, CMD, executed, frame, waiting, connected>>
      /\ waiting = TRUE /\ heating' = FALSE /\ updating' = TRUE
  BY DEF Inactive, hardware, Cleared, SharingInv, ConverterType
<1>2. Flags' /\ ~Measures("main")
  BY <1>1, InterruptRests DEF Flags, SharingInv, ExclusionInv, Measures, MeasureStep, Reading, Converting
<1> QED
  BY <1>1, <1>2, FlagStep

LEMMA PlugStep ==
    ASSUME SharingInv, Plug
    PROVE  SharingInv'
<1>1. /\ UNCHANGED <<ADC, converting, interruptFlag, RES, CMD, executed, frame, heating, updating, waiting>>
      /\ connected' = ~connected
  BY DEF Plug, hardware, heater
<1>2. Flags'
  BY <1>1, InterruptRests DEF Flags
<1> QED
  BY <1>1, <1>2, FlagStep

LEMMA LoadWriteStep ==
    ASSUME SharingInv, LoadWrite
    PROVE  SharingInv'
<1>1. Here("main", "load") /\ UNCHANGED <<ADC, converting, interruptFlag, RES>>
      /\ UNCHANGED <<executed, heating, updating, waiting, connected>>
      /\ CMD' = ERASE_WRITE_EEPROM_PAGE
  BY DEF LoadWrite, hardware, heater
<1>2. "load" \in CommandStep /\ "exec" \in CommandStep
  BY DEF CommandStep
<1>3. /\ frame["interrupt"].at = "idle" /\ frame["main"].at = "load" /\ "main" \in Actor
      /\ frame["main"] \in Frame /\ frame \in [Actor -> Frame]
      /\ frame["main"].taken \subseteq {Wanted(frame["main"].which)} /\ Flags
      /\ ~(heating = TRUE /\ updating = FALSE)
  BY <1>1, <1>2, MainRests
<1>4. PICK f : Becomes("main", f) /\ MovedFrom(frame["main"], f, "exec")
  BY <1>2, <1>3, GoMoves DEF LoadWrite
<1>5. f \in Frame /\ f.at = "exec" /\ f.taken \subseteq {Wanted(f.which)}
  BY <1>3, <1>4 DEF MovedFrom
<1>6. waiting = FALSE
  BY <1>3 DEF SharingInv, ExclusionInv, ConverterType
<1> QED
  BY <1>1, <1>2, <1>3, <1>4, <1>5, <1>6, MainMove DEF Flags, SharingInv, CommandInv, OwnCommand

LEMMA ExecStep ==
    ASSUME SharingInv, nvm_exec
    PROVE  SharingInv'
<1>1. Here("main", "exec") /\ UNCHANGED <<ADC, converting, interruptFlag, RES>>
      /\ UNCHANGED <<CMD, heating, updating, waiting, connected>>
      /\ executed' = executed \cup {CMD}
  BY DEF nvm_exec, hardware, heater
<1>2. "exec" \in CommandStep /\ "restore" \in CommandStep
  BY DEF CommandStep
<1>3. /\ frame["interrupt"].at = "idle" /\ frame["main"].at = "exec" /\ "main" \in Actor
      /\ frame["main"] \in Frame /\ frame \in [Actor -> Frame]
      /\ frame["main"].taken \subseteq {Wanted(frame["main"].which)} /\ Flags
      /\ ~(heating = TRUE /\ updating = FALSE)
  BY <1>1, <1>2, MainRests
<1>4. PICK f : Becomes("main", f) /\ MovedFrom(frame["main"], f, "restore")
  BY <1>2, <1>3, GoMoves DEF nvm_exec
<1>5. f \in Frame /\ f.at = "restore" /\ f.taken \subseteq {Wanted(f.which)}
  BY <1>3, <1>4 DEF MovedFrom
<1>6. waiting = FALSE
  BY <1>3 DEF SharingInv, ExclusionInv, ConverterType
<1>7. CMD = ERASE_WRITE_EEPROM_PAGE /\ executed \subseteq {ERASE_WRITE_EEPROM_PAGE}
  BY <1>3 DEF SharingInv, CommandInv, OwnCommand, LoadedCommand, Reading
<1> QED
  BY <1>1, <1>2, <1>3, <1>4, <1>5, <1>6, <1>7, MainMove DEF Flags

LEMMA RestoreStep ==
    ASSUME SharingInv, RestoreCommand
    PROVE  SharingInv'
<1>1. Here("main", "restore") /\ UNCHANGED <<ADC, converting, interruptFlag, RES>>
      /\ UNCHANGED <<executed, heating, updating, waiting, connected>>
      /\ CMD' = frame["main"].saved
  BY DEF RestoreCommand, hardware, heater
<1>2. "restore" \in CommandStep /\ "wrote" \in CommandStep
  BY DEF CommandStep
<1>3. /\ frame["interrupt"].at = "idle" /\ frame["main"].at = "restore" /\ "main" \in Actor
      /\ frame["main"] \in Frame /\ frame \in [Actor -> Frame]
      /\ frame["main"].taken \subseteq {Wanted(frame["main"].which)} /\ Flags
      /\ ~(heating = TRUE /\ updating = FALSE)
  BY <1>1, <1>2, MainRests
<1>4. PICK f : Becomes("main", f) /\ MovedFrom(frame["main"], f, "wrote")
  BY <1>2, <1>3, GoMoves DEF RestoreCommand
<1>5. f \in Frame /\ f.at = "wrote" /\ f.taken \subseteq {Wanted(f.which)}
  BY <1>3, <1>4 DEF MovedFrom
<1>6. waiting = FALSE
  BY <1>3 DEF SharingInv, ExclusionInv, ConverterType
<1>7. /\ CMD' \in {NO_OPERATION, READ_CALIB_ROW, ERASE_WRITE_EEPROM_PAGE}
      /\ executed \subseteq {ERASE_WRITE_EEPROM_PAGE}
  BY <1>1, <1>3 DEF SharingInv, CommandInv, OwnCommand, Frame
<1> QED
  BY <1>1, <1>2, <1>3, <1>4, <1>5, <1>6, <1>7, MainMove DEF Flags

LEMMA WroteStep ==
    ASSUME SharingInv, Wrote
    PROVE  SharingInv'
<1>1. Here("main", "wrote") /\ UNCHANGED <<ADC, converting, interruptFlag, RES>>
      /\ UNCHANGED <<CMD, executed, waiting, connected>>
      /\ \/ UNCHANGED <<heating, updating>>
         \/ heating' \in {heating, FALSE} /\ updating' = TRUE
  BY DEF Wrote, hardware, heater
<1>2. "wrote" \in CommandStep /\ "finish" \in CommandStep
  BY DEF CommandStep
<1>3. /\ frame["interrupt"].at = "idle" /\ frame["main"].at = "wrote" /\ "main" \in Actor
      /\ frame["main"] \in Frame /\ frame \in [Actor -> Frame]
      /\ frame["main"].taken \subseteq {Wanted(frame["main"].which)} /\ Flags
      /\ ~(heating = TRUE /\ updating = FALSE)
  BY <1>1, <1>2, MainRests
<1>4. PICK f : Becomes("main", f) /\ MovedFrom(frame["main"], f, "finish")
  BY <1>2, <1>3, GoMoves DEF Wrote
<1>5. f \in Frame /\ f.at = "finish" /\ f.taken \subseteq {Wanted(f.which)}
  BY <1>3, <1>4 DEF MovedFrom
<1>6. waiting = FALSE
  BY <1>3 DEF SharingInv, ExclusionInv, ConverterType
<1>7. CMD \in {NO_OPERATION, READ_CALIB_ROW, ERASE_WRITE_EEPROM_PAGE} /\ OwnCommand
  BY DEF SharingInv, CommandInv, FrameType
<1>8. Flags'
  BY <1>1, <1>3 DEF Flags
<1>9. heating' = TRUE /\ updating' = FALSE => heating = TRUE /\ updating = FALSE
  BY <1>1
<1> QED
  BY <1>1, <1>2, <1>3, <1>4, <1>5, <1>6, <1>7, <1>8, <1>9, MainMove DEF OwnCommand

LEMMA RequestStep ==
    ASSUME SharingInv, Request
    PROVE  SharingInv'
<1>1. /\ Here("main", "idle") /\ waiting' = FALSE
      /\ UNCHANGED <<ADC, converting, interruptFlag, RES, CMD, executed, heating, connected>>
  BY DEF Request, hardware
<1>2. "idle" \in CommandStep
  BY DEF CommandStep
<1>3. /\ frame["interrupt"].at = "idle" /\ frame["main"].at = "idle" /\ "main" \in Actor
      /\ frame["main"] \in Frame /\ frame \in [Actor -> Frame]
      /\ frame["main"].taken \subseteq {Wanted(frame["main"].which)} /\ Flags
      /\ ~(heating = TRUE /\ updating = FALSE)
  BY <1>1, <1>2, MainRests
<1>4. /\ CMD \in {NO_OPERATION, READ_CALIB_ROW, ERASE_WRITE_EEPROM_PAGE}
      /\ executed \subseteq {ERASE_WRITE_EEPROM_PAGE}
  BY DEF SharingInv, CommandInv, FrameType, OwnCommand
<1>5. CASE isWorking
  <2>1. Go("main", "command") /\ UNCHANGED updating
    BY <1>5 DEF Request
  <2>2. "command" \in CommandStep
    BY DEF CommandStep
  <2>3. PICK f : Becomes("main", f) /\ MovedFrom(frame["main"], f, "command")
    BY <1>3, <2>1, <2>2, GoMoves
  <2>4. f \in Frame /\ f.at = "command" /\ f.taken \subseteq {Wanted(f.which)}
    BY <1>3, <2>3 DEF MovedFrom
  <2> QED
    BY <1>1, <1>2, <1>3, <1>4, <2>1, <2>2, <2>3, <2>4, MainMove DEF Flags
<1>6. CASE ~isWorking
  <2>1. frame' = [frame EXCEPT !["main"] = Measuring("heater", 1, "working")] /\ updating' = FALSE
    BY <1>6 DEF Request, UpdatingInTest
  <2>2. PICK f \in Frame : Becomes("main", f) /\ Fresh(f, "heater", "working")
    BY <1>3, <2>1, ConnectionTestBegins
  <2>3. f.at = "save 1" /\ f.taken = {}
    BY <2>2 DEF Fresh
  <2> QED
    BY <1>1, <1>2, <1>3, <1>4, <2>1, <2>2, <2>3, MainMove DEF Flags
<1> QED
  BY <1>5, <1>6

LEMMA StopStep ==
    ASSUME SharingInv, Stop
    PROVE  SharingInv'
<1>1. /\ Here("main", "idle") /\ waiting' = FALSE /\ heating' = FALSE /\ updating' = TRUE
      /\ UNCHANGED <<ADC, converting, interruptFlag, RES, CMD, executed, connected>>
  BY DEF Stop, hardware, Cleared
<1>2. "idle" \in CommandStep
  BY DEF CommandStep
<1>3. /\ frame["interrupt"].at = "idle" /\ frame["main"].at = "idle" /\ "main" \in Actor
      /\ frame["main"] \in Frame /\ frame \in [Actor -> Frame]
      /\ frame["main"].taken \subseteq {Wanted(frame["main"].which)} /\ Flags
      /\ ~(heating = TRUE /\ updating = FALSE)
  BY <1>1, <1>2, MainRests
<1>4. /\ CMD \in {NO_OPERATION, READ_CALIB_ROW, ERASE_WRITE_EEPROM_PAGE}
      /\ executed \subseteq {ERASE_WRITE_EEPROM_PAGE}
  BY DEF SharingInv, CommandInv, FrameType, OwnCommand
<1>5. "finish" \in CommandStep
  BY DEF CommandStep
<1>6. PICK f : Becomes("main", f) /\ MovedFrom(frame["main"], f, "finish")
  BY <1>3, <1>5, GoMoves DEF Stop
<1>7. f \in Frame /\ f.at = "finish" /\ f.taken \subseteq {Wanted(f.which)}
  BY <1>3, <1>6 DEF MovedFrom
<1> QED
  BY <1>1, <1>2, <1>3, <1>4, <1>5, <1>6, <1>7, MainMove DEF Flags

LEMMA TestConnectionStep ==
    ASSUME SharingInv, NEW caller \in {"ask", "set"}, TestConnection(caller)
    PROVE  SharingInv'
<1>1. /\ Here("main", "command") /\ updating' = FALSE
      /\ UNCHANGED <<ADC, converting, interruptFlag, RES, CMD, executed, heating, waiting, connected>>
  BY DEF TestConnection, hardware, UpdatingInTest
<1>2. "command" \in CommandStep
  BY DEF CommandStep
<1>3. /\ frame["interrupt"].at = "idle" /\ frame["main"].at = "command" /\ "main" \in Actor
      /\ frame["main"] \in Frame /\ frame \in [Actor -> Frame]
      /\ frame["main"].taken \subseteq {Wanted(frame["main"].which)} /\ Flags
      /\ ~(heating = TRUE /\ updating = FALSE)
  BY <1>1, <1>2, MainRests
<1>4. /\ CMD \in {NO_OPERATION, READ_CALIB_ROW, ERASE_WRITE_EEPROM_PAGE}
      /\ executed \subseteq {ERASE_WRITE_EEPROM_PAGE}
  BY DEF SharingInv, CommandInv, FrameType, OwnCommand
<1>5. PICK f \in Frame : Becomes("main", f) /\ Fresh(f, "heater", caller)
  BY <1>3, ConnectionTestBegins DEF TestConnection
<1>6. f.at = "save 1" /\ f.taken = {}
  BY <1>5 DEF Fresh
<1>7. waiting = FALSE
  BY <1>3 DEF SharingInv, ExclusionInv, ConverterType
<1> QED
  BY <1>1, <1>2, <1>3, <1>4, <1>5, <1>6, <1>7, MainMove DEF Flags

LEMMA MainTestedStep ==
    ASSUME SharingInv, MainTested
    PROVE  SharingInv'
<1>1. /\ frame["interrupt"].at = "idle" /\ frame["main"].at = "measured"
      /\ UNCHANGED <<ADC, converting, interruptFlag, RES, CMD, executed, waiting, connected>>
      /\ heating' = (heating /\ connected) /\ updating' = TRUE
  BY DEF MainTested, hardware, EndTest, UpdatingAfterTest, Here, Running
<1>2. waiting = FALSE
  BY <1>1 DEF SharingInv, ExclusionInv, ConverterType
<1>3. Flags'
  BY <1>1, InterruptRests DEF Flags
<1>4. /\ CMD \in {NO_OPERATION, READ_CALIB_ROW, ERASE_WRITE_EEPROM_PAGE}
      /\ executed \subseteq {ERASE_WRITE_EEPROM_PAGE}
  BY DEF SharingInv, CommandInv, FrameType, OwnCommand
<1> PICK place : place = CASE frame["main"].caller = "set" -> "set"
                        [] frame["main"].caller = "working" /\ connected -> "command"
                        [] OTHER -> "finish"
  OBVIOUS
<1>5. place \in {"set", "command", "finish"}
  OBVIOUS
<1>6. place \in CommandStep
  BY <1>5 DEF CommandStep
<1> PICK f : f = [Idle EXCEPT !.at = place]
  OBVIOUS
<1>7. f \in Frame /\ f.at = place /\ f.taken = {}
  BY <1>6, IdleFrame, FrameMoved DEF MovedFrom
<1>8. Becomes("main", f)
  <2>1. frame' = [frame EXCEPT !["main"] = f]
    BY DEF MainTested
  <2>2. "main" \in Actor
    BY DEF Actor
  <2> QED
    BY <1>7, <2>1, <2>2, FrameBecomes, TakenOwn
<1> QED
  BY <1>1, <1>2, <1>3, <1>4, <1>5, <1>6, <1>7, <1>8, MainMove

LEMMA SetTemperatureStep ==
    ASSUME SharingInv, NEW on \in BOOLEAN, SetTemperature(on)
    PROVE  SharingInv'
<1>1. /\ Here("main", "set")
      /\ UNCHANGED <<ADC, converting, interruptFlag, RES, CMD, executed, waiting, connected>>
  BY DEF SetTemperature, hardware
<1>2. "set" \in CommandStep
  BY DEF CommandStep
<1>3. /\ frame["interrupt"].at = "idle" /\ frame["main"].at = "set" /\ "main" \in Actor
      /\ frame["main"] \in Frame /\ frame \in [Actor -> Frame]
      /\ frame["main"].taken \subseteq {Wanted(frame["main"].which)} /\ Flags
      /\ ~(heating = TRUE /\ updating = FALSE)
  BY <1>1, <1>2, MainRests
<1>4. /\ CMD \in {NO_OPERATION, READ_CALIB_ROW, ERASE_WRITE_EEPROM_PAGE}
      /\ executed \subseteq {ERASE_WRITE_EEPROM_PAGE}
  BY DEF SharingInv, CommandInv, FrameType, OwnCommand
<1>5. waiting = FALSE
  BY <1>3 DEF SharingInv, ExclusionInv, ConverterType
<1>6. CASE on
  <2>1. /\ frame' = [frame EXCEPT !["main"] = Measuring("heater", 1, "ask")]
        /\ heating' = TRUE /\ updating' = FALSE
    BY <1>6 DEF SetTemperature
  <2>2. PICK f \in Frame : Becomes("main", f) /\ Fresh(f, "heater", "ask")
    BY <1>3, <2>1, ConnectionTestBegins
  <2>3. f.at = "save 1" /\ f.taken = {}
    BY <2>2 DEF Fresh
  <2> QED
    BY <1>1, <1>2, <1>3, <1>4, <1>5, <2>1, <2>2, <2>3, MainMove DEF Flags
<1>7. CASE ~on
  <2>1. Go("main", "finish") /\ heating' = FALSE /\ updating' = TRUE
    BY <1>7 DEF SetTemperature, Cleared
  <2>2. "finish" \in CommandStep
    BY DEF CommandStep
  <2>3. PICK f : Becomes("main", f) /\ MovedFrom(frame["main"], f, "finish")
    BY <1>3, <2>1, <2>2, GoMoves
  <2>4. f \in Frame /\ f.at = "finish" /\ f.taken \subseteq {Wanted(f.which)}
    BY <1>3, <2>3 DEF MovedFrom
  <2> QED
    BY <1>1, <1>2, <1>3, <1>4, <1>5, <2>1, <2>2, <2>3, <2>4, MainMove DEF Flags
<1> QED
  BY <1>6, <1>7

LEMMA EepromCommandStep ==
    ASSUME SharingInv, EepromCommand
    PROVE  SharingInv'
<1>1. PICK place \in {"command", "wrote"} : Here("main", place)
  BY DEF EepromCommand
<1>2. place \in CommandStep /\ "load" \in CommandStep
  BY <1>1 DEF CommandStep
<1>3. /\ frame["interrupt"].at = "idle" /\ frame["main"].at = place /\ "main" \in Actor
      /\ frame["main"] \in Frame /\ frame \in [Actor -> Frame]
      /\ frame["main"].taken \subseteq {Wanted(frame["main"].which)} /\ Flags
      /\ ~(heating = TRUE /\ updating = FALSE)
  BY <1>1, <1>2, MainRests
<1>4. /\ CMD \in {NO_OPERATION, READ_CALIB_ROW, ERASE_WRITE_EEPROM_PAGE}
      /\ executed \subseteq {ERASE_WRITE_EEPROM_PAGE}
  BY DEF SharingInv, CommandInv, FrameType, OwnCommand
<1>5. UNCHANGED <<ADC, converting, interruptFlag, RES, CMD, executed, heating, updating, waiting,
                  connected>>
  BY DEF EepromCommand, hardware, heater
<1> PICK there : there = "load"
  OBVIOUS
<1> PICK f : f = [frame["main"] EXCEPT !.saved = CMD, !.at = there]
  OBVIOUS
<1>6. there \in MeasureStep \cup CommandStep
  BY <1>2
<1>7. /\ f \in Frame /\ f.at = there /\ f.which = frame["main"].which
      /\ f.taken = frame["main"].taken
  BY <1>3, <1>4, <1>6 DEF Frame
<1>8. Becomes("main", f)
  <2>1. frame' = [frame EXCEPT !["main"] = f]
    BY DEF EepromCommand
  <2> QED
    BY <1>3, <1>7, <2>1, FrameBecomes
<1>9. waiting = FALSE
  BY <1>1, <1>3 DEF SharingInv, ExclusionInv, ConverterType
<1> QED
  BY <1>2, <1>3, <1>4, <1>5, <1>7, <1>8, <1>9, MainMove DEF Flags

LEMMA FinishStep ==
    ASSUME SharingInv, Finish
    PROVE  SharingInv'
<1>1. /\ Here("main", "finish") /\ waiting' = TRUE
      /\ UNCHANGED <<ADC, converting, interruptFlag, RES, CMD, executed, heating, updating, connected>>
  BY DEF Finish, hardware, heater
<1>2. "finish" \in CommandStep
  BY DEF CommandStep
<1>3. /\ frame["interrupt"].at = "idle" /\ frame["main"].at = "finish" /\ "main" \in Actor
      /\ frame["main"] \in Frame /\ frame \in [Actor -> Frame]
      /\ frame["main"].taken \subseteq {Wanted(frame["main"].which)} /\ Flags
      /\ ~(heating = TRUE /\ updating = FALSE)
  BY <1>1, <1>2, MainRests
<1>4. /\ CMD \in {NO_OPERATION, READ_CALIB_ROW, ERASE_WRITE_EEPROM_PAGE}
      /\ executed \subseteq {ERASE_WRITE_EEPROM_PAGE}
  BY DEF SharingInv, CommandInv, FrameType, OwnCommand
<1>5. PICK f \in Frame : Becomes("main", f) /\ f.at = "idle" /\ f.taken = {}
  BY <1>3, Rests DEF Finish
<1>6. "idle" \in CommandStep
  BY DEF CommandStep
<1> QED
  BY <1>1, <1>2, <1>3, <1>4, <1>5, <1>6, MainMove DEF Flags

LEMMA SharingInvariance ==
    ASSUME SharingAssumption
    PROVE  SharingSpec => []SharingInv
<1>1. SharingInit => SharingInv
  <2> SUFFICES ASSUME SharingInit PROVE SharingInv
    OBVIOUS
  <2>1. /\ ADC = [enabled |-> TRUE, conf |-> PowerUp, cal |-> "none", channel |-> Nothing.channel]
        /\ converting = Nothing /\ interruptFlag = FALSE /\ CMD = NO_OPERATION /\ executed = {}
        /\ frame = [a \in Actor |-> Idle] /\ heating = FALSE /\ updating \in BOOLEAN
        /\ waiting = TRUE /\ connected = TRUE
    BY DEF SharingInit
  <2>2. /\ frame \in [Actor -> Frame]
        /\ \A a \in Actor : frame[a].at = "idle" /\ frame[a].taken = {}
    BY <2>1, IdleFrame
  <2>3. frame["main"].at = "idle" /\ frame["interrupt"].at = "idle"
    BY <2>2 DEF Actor
  <2>4. ConverterType
    BY <2>1 DEF ConverterType
  <2>5. FrameType /\ ExclusionInv /\ WatchInv
    BY <2>1, <2>2, <2>3 DEF FrameType, ExclusionInv, WatchInv, Measures, MeasureStep, Reading, Converting
  <2>6. CommandInv
    BY <2>1, <2>2, <2>3 DEF CommandInv, OwnCommand, Reading
  <2>7. ReadingInv
    BY <2>1, <2>2 DEF ReadingInv, ReadsOwn, OwnReading, Converting
  <2> QED
    BY <2>4, <2>5, <2>6, <2>7 DEF SharingInv
<1>2. SharingInv /\ [SharingNext]_sharingVars => SharingInv'
  <2> SUFFICES ASSUME SharingInv, [SharingNext]_sharingVars PROVE SharingInv'
    OBVIOUS
  <2>1. HEATER_READ_ADC_SAMPLE_SIZE \in Int
    BY DEF SharingAssumption
  <2>2. ASSUME NEW a \in Actor, Measure(a) PROVE SharingInv'
    BY <2>2, SaveCommandStep, LoadCommandStep, ReadByteStep, WriteConfigurationStep, WriteChannelStep,
       StartConversionStep, WaitForFlagStep, GetResultStep DEF Measure
  <2>3. CASE Main
    BY <2>3, RequestStep, StopStep, MainTestedStep, FinishStep, EepromCommandStep, LoadWriteStep,
       ExecStep, RestoreStep, WroteStep, TestConnectionStep, SetTemperatureStep DEF Main
  <2>4. CASE Interrupt
    BY <2>1, <2>4, TickTestedStep, TickMeasuredStep, WaitInterruptEndsStep, InactiveStep DEF Interrupt
  <2>5. CASE UNCHANGED sharingVars
    <3>1. UNCHANGED <<ADC, converting, interruptFlag, RES, CMD, executed, frame, heating, updating,
                      waiting, connected>>
      BY <2>5 DEF sharingVars, hardware, heater
    <3>2. Flags'
      BY <3>1, InterruptRests DEF Flags
    <3> QED
      BY <3>1, <3>2, FlagStep
  <2> QED
    BY <2>2, <2>3, <2>4, <2>5, ConvertStep, TickStep, WaitInterruptStep, PlugStep DEF SharingNext
<1> QED
  BY <1>1, <1>2, PTL DEF SharingSpec

\* However the main loop's commands and the two interrupts interleave, and however
\* many samples a measurement takes, the converter is read with the configuration
\* of whoever reads it, the page write executes its own command, and a heater that
\* heats is watched between commands (adc_*, nvm_*, Heater::testConnection and the
\* interrupts of heater.cpp and main.cpp).
THEOREM SharingCorrect ==
    ASSUME SharingAssumption
    PROVE  SharingSpec => []SharedUndisturbed
<1>1. SharingInv => SharedUndisturbed
  <2> SUFFICES ASSUME SharingInv PROVE SharedUndisturbed
    OBVIOUS
  <2>1. OwnReading /\ OwnCommand
    BY DEF SharingInv, ReadingInv, CommandInv
  <2>2. HeatingWatched
    <3> SUFFICES ASSUME frame["main"].at = "idle", frame["interrupt"].at = "idle", heating
                 PROVE  updating
      BY DEF HeatingWatched
    <3>1. ~Measures("main")
      BY DEF Measures, MeasureStep, Reading, Converting
    <3> QED
      BY <3>1, RestingWatched DEF SharingInv, ConverterType
  <2> QED
    BY <2>1, <2>2 DEF SharedUndisturbed
<1> QED
  BY <1>1, SharingInvariance, PTL
=============================================================================
