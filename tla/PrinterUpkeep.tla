--------------------------- MODULE PrinterUpkeep ----------------------------
(***************************************************************************)
(* What M33 Manager does to keep a printer usable (printer.cpp).  The two  *)
(* parts share no variables; each has its own specification.               *)
(*                                                                         *)
(* Printer::installFirmware of M33 Manager: the chip is erased and written *)
(* page by page, its CRC is compared with the ROM's, and then the EEPROM   *)
(* is brought into the form the new firmware expects, its version and its  *)
(* CRC last.  The installation may be cut off at any point and begun again *)
(* with any ROM; between installations the chip's firmware may run.  What  *)
(* is shown is claimed to be right after one that was cut off, not after   *)
(* two: the property says so.                                              *)
(*                                                                         *)
(* The recorded Z is known by the form in which it tells the true height:  *)
(* an integer for M3D firmware, a float for the others, or not at all.     *)
(*                                                                         *)
(* How M33 Manager takes stock of a printer when it connects:              *)
(* Printer::collectPrinterInformation reads the EEPROM, repairs the fan,   *)
(* the extruder current and every setting that is out of range, and reads  *)
(* the EEPROM again.  Printer::connect repeats this for a given port.      *)
(*                                                                         *)
(* A value is known by where it lies in its range; "default" lies in it,   *)
(* and is 0 for a corner of the bed.  All decisions are made on the copy   *)
(* of the EEPROM that was read at the start.                               *)
(***************************************************************************)
EXTENDS Naturals, Sequences

-----------------------------------------------------------------------------
(* The installation of firmware.                                           *)

CONSTANTS
    M3DROMS,         \* ROMs of M3D and M3D Mod firmware
    OTHERROMS,       \* ROMs of iMe
    PAGES,           \* pages of a ROM
    CUTS             \* bound on installations cut off between two that are finished

RomsAssumption == M3DROMS \cap OTHERROMS = {} /\ PAGES \in Nat \ {0} /\ CUTS \in Nat

ROMS == M3DROMS \cup OTHERROMS

VARIABLES
    chip,            \* the ROM in the chip, "blank" or "part" of one
    page,            \* pages written so far
    version, crc,    \* EEPROM: version and CRC of the firmware, or "torn"
    z,               \* EEPROM: the recorded Z: "int", "float" or "bad"
    zValid,          \* EEPROM: the recorded Z is valid
    settings,        \* EEPROM: steps/mm and others of iMe: "good", "clear", "lowest" in
                     \* range, or in "part" saved or cleared
    rom,             \* the ROM being installed
    copy,            \* Manager's copy of version and zValid
    stage,           \* step of the installation
    shown,           \* what collectPrinterInformation found: valid, version
    cuts             \* installations cut off since one was finished

installVars == <<chip, page, version, crc, z, zValid, settings, rom, copy, stage, shown, cuts>>
flash == <<chip, page>>
record == <<version, crc>>
height == <<z, zValid>>

FormOf(r) == IF r \in M3DROMS THEN "int" ELSE "float"

InstallInit ==
    /\ chip \in ROMS /\ page = PAGES
    /\ version = chip /\ crc = chip
    /\ z = FormOf(chip) /\ zValid \in BOOLEAN
    /\ settings = IF chip \in M3DROMS THEN "clear" ELSE "good"
    /\ rom = chip /\ copy = [version |-> chip, zValid |-> zValid]
    /\ stage = "idle" /\ shown = [valid |-> TRUE, version |-> chip] /\ cuts = 0

-----------------------------------------------------------------------------
Cut == cuts < CUTS /\ cuts' = cuts + 1
GoOn(step) == stage' = step /\ UNCHANGED <<rom, shown, cuts>>

\* A file is chosen.  One whose name, existence or size is wrong changes
\* nothing.
Start(r) ==
    /\ stage = "idle"
    /\ rom' = r /\ stage' = "erase"
    /\ UNCHANGED <<flash, record, height, settings, copy, shown, cuts>>

Erase ==
    /\ stage = "erase"
    /\ chip' = "blank" /\ page' = 0
    /\ GoOn("write")
    /\ UNCHANGED <<record, height, settings, copy>>

\* The pages of the ROM, each acknowledged.
WritePage ==
    /\ stage = "write"
    /\ page' = page + 1
    /\ chip' = IF page + 1 = PAGES THEN rom ELSE "part"
    /\ GoOn(IF page + 1 = PAGES THEN "verify" ELSE "write")
    /\ UNCHANGED <<record, height, settings, copy>>

\* A byte of the last page arrives wrong; the bootloader does not notice.
WriteWrong ==
    /\ stage = "write" /\ page + 1 = PAGES
    /\ page' = PAGES /\ chip' = "part"
    /\ Cut /\ stage' = "verify"
    /\ UNCHANGED <<record, height, settings, copy, rom, shown>>

\* The chip's CRC must be the ROM's; then the EEPROM is read.
Verify ==
    /\ stage = "verify"
    /\ IF chip = rom
       THEN copy' = [version |-> version, zValid |-> zValid] /\ GoOn("clear")
       ELSE UNCHANGED copy /\ GoOn("idle")
    /\ UNCHANGED <<flash, record, height, settings>>

\* A recorded Z that is not valid is cleared.
ClearZ ==
    /\ stage = "clear"
    /\ z' = IF copy.zValid THEN z ELSE "bad"
    /\ GoOn("convert")
    /\ UNCHANGED <<flash, record, zValid, settings, copy>>

\* The type of a version that does not name a known firmware is unknown.
ToOther == copy.version \in M3DROMS /\ rom \in OTHERROMS
ToM3D == copy.version \notin M3DROMS /\ rom \in M3DROMS

\* What the recorded Z says after a conversion from one form to the other.
Converted(form) == IF z = form THEN (IF form = "int" THEN "float" ELSE "int") ELSE "bad"

\* From M3D firmware to another: the recorded Z becomes a float and the
\* settings of iMe get their defaults, if the recorded Z is valid.
ConvertToFloat ==
    /\ stage = "convert" /\ ToOther
    /\ z' = IF copy.zValid THEN Converted("int") ELSE z
    /\ GoOn(IF copy.zValid THEN "settings" ELSE "version")
    /\ UNCHANGED <<flash, record, zValid, settings, copy>>

SaveDefaults ==
    /\ stage = "settings"
    /\ settings' = "good"
    /\ GoOn("version")
    /\ UNCHANGED <<flash, record, height, copy>>

\* From another firmware to M3D: the recorded Z becomes an integer.
ConvertToInt ==
    /\ stage = "convert" /\ ToM3D
    /\ z' = IF copy.zValid THEN Converted("float") ELSE z
    /\ GoOn("cleared")
    /\ UNCHANGED <<flash, record, zValid, settings, copy>>

\* The settings of iMe, and the steps/mm, are cleared.
ClearSettings ==
    /\ stage = "cleared"
    /\ settings' = "clear"
    /\ GoOn("version")
    /\ UNCHANGED <<flash, record, height, copy>>

KeepForm ==
    /\ stage = "convert" /\ ~ToOther /\ ~ToM3D
    /\ GoOn("version")
    /\ UNCHANGED <<flash, record, height, settings, copy>>

\* Faulty: only the CRC is recorded.
WriteVersionNever ==
    /\ stage = "version"
    /\ GoOn("crc")
    /\ UNCHANGED <<flash, record, height, settings, copy>>

WriteVersion ==
    /\ stage = "version"
    /\ version' = rom
    /\ GoOn("crc")
    /\ UNCHANGED <<flash, crc, height, settings, copy>>

WriteCrc ==
    /\ stage = "crc"
    /\ crc' = rom
    /\ GoOn("collect")
    /\ UNCHANGED <<flash, version, height, settings, copy>>

\* collectPrinterInformation: a chip whose CRC is not the recorded one is
\* corrupt; settings below their range get their lowest value.
Found == [valid |-> chip = crc, version |-> version]
KeptSettings ==
    IF version \notin M3DROMS /\ settings \in {"clear", "part"} THEN "lowest" ELSE settings

Collect ==
    /\ stage = "collect"
    /\ settings' = KeptSettings
    /\ shown' = Found
    /\ stage' = "done" /\ cuts' = 0
    /\ UNCHANGED <<flash, record, height, copy, rom>>

Finish == stage = "done" /\ GoOn("idle") /\ UNCHANGED <<flash, record, height, settings, copy>>

-----------------------------------------------------------------------------
\* The connection is lost, or the answer to a request: installFirmware returns
\* and leaves things as they are; a value being written byte by byte is torn,
\* and of the settings some are saved or cleared.
CutOff ==
    /\ stage \notin {"idle", "done"} /\ Cut
    /\ stage' = "idle"
    /\ version' \in {version} \cup (IF stage = "version" /\ version # rom THEN {rom, "torn"} ELSE {})
    /\ crc' \in {crc} \cup (IF stage = "crc" /\ crc # rom THEN {rom, "torn"} ELSE {})
    /\ z' \in {z} \cup (IF stage = "convert" /\ copy.zValid /\ (ToOther \/ ToM3D) THEN {"bad"} ELSE {})
    /\ settings' \in {settings} \cup (CASE stage = "settings" -> {"part", "good"}
                                       [] stage = "cleared" -> {"part", "clear"}
                                       [] OTHER -> {})
    /\ UNCHANGED <<flash, zValid, rom, copy, shown>>

\* M33 Manager connects again: what it shows is collected anew.
Reconnect ==
    /\ stage = "idle"
    /\ settings' = KeptSettings
    /\ shown' = Found
    /\ UNCHANGED <<flash, record, height, rom, copy, stage, cuts>>

\* The firmware in the chip runs: it is calibrated, loses its place, or goes
\* on from the recorded Z, which it takes for its own form.
RunFirmware ==
    /\ stage = "idle" /\ chip \in ROMS
    /\ \/ zValid' = TRUE /\ z' = FormOf(chip)
       \/ zValid' = FALSE /\ z' = "bad"
       \/ zValid /\ zValid' = TRUE /\ z' = IF z = FormOf(chip) THEN z ELSE "bad"
    /\ UNCHANGED <<flash, record, settings, rom, copy, stage, shown, cuts>>

Step ==
    \/ Erase \/ WritePage \/ Verify \/ ClearZ \/ ConvertToFloat \/ SaveDefaults
    \/ ConvertToInt \/ ClearSettings \/ KeepForm \/ WriteVersion \/ WriteCrc
    \/ Collect \/ Finish

InstallNext ==
    \/ \E r \in ROMS : Start(r)
    \/ Step \/ WriteWrong \/ CutOff \/ Reconnect \/ RunFirmware

InstallSpec == InstallInit /\ [][InstallNext]_installVars

-----------------------------------------------------------------------------
\* Firmware that is shown as valid is the one whose version is shown, as long
\* as nothing was installed since and at most one installation was cut off
\* since one was finished.  (The version is recorded before the CRC: after two
\* that were cut off, the chip may have the firmware of the CRC with the version
\* of the other.)
VersionShown ==
    shown.valid /\ stage \in {"idle", "done"} /\ shown = Found /\ cuts <= 1 => chip = shown.version

\* After an installation of iMe over M3D firmware the settings that only iMe has
\* are usable, if the recorded Z was valid (installFirmware saves their defaults
\* only then).
DefaultsSaved ==
    stage = "done" /\ copy.version \in M3DROMS /\ chip \in OTHERROMS /\ copy.zValid =>
        settings = "good"

\* Firmware that M33 Manager shows as valid is the one whose version it shows,
\* as long as nothing was installed since, wherever an installation was cut off,
\* if at most one was since one was finished; and after an installation of iMe
\* over M3D firmware the settings that only iMe has are usable, if the recorded
\* Z was valid.
ValidMeansRecordedVersion == VersionShown /\ DefaultsSaved

-----------------------------------------------------------------------------
(* The printer's information.                                              *)

CONSTANTS
    FIELDS,          \* the settings in the order they are checked: kind, imeOnly, role
    ATTEMPTS,        \* tries of connect() at a given port (5)
    FAULTS           \* bound on writes whose answer gets lost

FieldsAssumption ==
    /\ FIELDS \in Seq([kind : {"int", "float"}, imeOnly : BOOLEAN,
                       role : {"corner", "offset", "speed", "other"}])
    /\ FIELDS # <<>>
    /\ ATTEMPTS \in Nat /\ FAULTS \in Nat

FloatValues == {"nan", "low", "min", "default", "max", "high"}
IntValues == FloatValues \ {"nan"}
InRange == {"min", "default", "max"}

Settings == 1 .. Len(FIELDS)
FieldValues(i) == IF FIELDS[i].kind = "float" THEN FloatValues ELSE IntValues

VARIABLES
    memory,      \* the printer's EEPROM: [field |-> value]
    fan,         \* EEPROM: scale, offset and type of the fan, right or not
    current,     \* EEPROM: the extruder current is the one this printer needs
    old,         \* M3D firmware from before the new bed orientation
    ime,         \* the firmware is neither M3D nor M3D Mod
    dated,       \* the serial number holds a production date
    marked,      \* EEPROM: the version of the bed orientation is set
    eeprom,      \* Manager's copy: memory, fan and current as last read
    at,          \* place in collectPrinterInformation
    setting,     \* the setting being checked
    attempt,     \* tries left to connect()
    accepted,    \* information was collected at least once
    oriented,    \* validBedOrientation
    zeroed,      \* a corner that was no number was repaired in this collection
    lost         \* lost answers so far

informationVars ==
    <<memory, fan, current, old, ime, dated, marked, eeprom, at, setting, attempt, accepted,
      oriented, zeroed, lost>>
printer == <<old, ime, dated, marked>>
orientation == <<oriented, zeroed>>

Fans == [scale: BOOLEAN, offset: BOOLEAN, type: {"unset", "known", "custom"}]

InformationInit ==
    /\ memory \in {m \in [Settings -> FloatValues] : \A i \in Settings : m[i] \in FieldValues(i)}
    /\ fan \in {f \in Fans : f.type = "known" \/ (~f.scale /\ ~f.offset)}
    /\ current \in BOOLEAN
    /\ old \in BOOLEAN /\ ime \in BOOLEAN /\ dated \in BOOLEAN /\ marked \in BOOLEAN
    /\ old => ~ime
    /\ eeprom = [memory |-> memory, fan |-> fan, current |-> current]
    /\ at = "start" /\ setting = 1 /\ attempt = ATTEMPTS
    /\ accepted = FALSE /\ oriented = FALSE /\ zeroed = FALSE /\ lost = 0

-----------------------------------------------------------------------------
\* connect(): a collection that fails is followed by a disconnection and, for
\* a given port, by the next try.
Return(success) ==
    /\ setting' = 1
    /\ IF success
       THEN at' = "accepted" /\ attempt' = attempt /\ accepted' = TRUE
       ELSE /\ attempt' = attempt - 1
            /\ at' = IF attempt > 1 THEN "start" ELSE "failed"
            /\ accepted' = accepted

Go(place) == at' = place /\ UNCHANGED <<setting, attempt, accepted>>

\* refreshEeprom at the start: all checks below look at this copy.
Read ==
    /\ at = "start"
    /\ eeprom' = [memory |-> memory, fan |-> fan, current |-> current]
    /\ Go("scale") /\ zeroed' = FALSE
    /\ UNCHANGED <<memory, fan, current, printer, oriented, lost>>

\* A write of the EEPROM succeeds, or its answer is lost and it may or may
\* not have been stored.
Stored == UNCHANGED lost
LostAnswer == lost < FAULTS /\ lost' = lost + 1

\* The fan's type as set by the printer's date when there is none.
FanToSet == IF eeprom.fan.type = "unset" /\ dated THEN "known" ELSE eeprom.fan.type

\* setFanType: the scale.
SetFanScale ==
    /\ at = "scale"
    /\ UNCHANGED <<memory, current, printer, eeprom, orientation>>
    /\ IF FanToSet # "known" THEN Go("current") /\ UNCHANGED <<fan, lost>>
       ELSE IF eeprom.fan.scale THEN Go("offset") /\ UNCHANGED <<fan, lost>>
       ELSE \/ Stored /\ fan' = [fan EXCEPT !.scale = TRUE] /\ Go("offset")
            \/ LostAnswer /\ Return(FALSE) /\ fan' \in {fan, [fan EXCEPT !.scale = TRUE]}

\* setFanType: the offset.  The test of the write is the wrong way round: a
\* write that succeeded ends the collection, one that failed does not.
SetFanOffset ==
    /\ at = "offset"
    /\ UNCHANGED <<memory, current, printer, eeprom, orientation>>
    /\ IF eeprom.fan.offset THEN Go("type") /\ UNCHANGED <<fan, lost>>
       ELSE \/ Stored /\ fan' = [fan EXCEPT !.offset = TRUE] /\ Return(FALSE)
            \/ LostAnswer /\ Go("type") /\ fan' \in {fan, [fan EXCEPT !.offset = TRUE]}

\* setFanType: the type, tested the same way.
SetFanType ==
    /\ at = "type"
    /\ UNCHANGED <<memory, current, printer, eeprom, orientation>>
    /\ IF eeprom.fan.type = FanToSet THEN Go("current") /\ UNCHANGED <<fan, lost>>
       ELSE \/ Stored /\ fan' = [fan EXCEPT !.type = FanToSet] /\ Return(FALSE)
            \/ LostAnswer /\ Go("current") /\ fan' \in {fan, [fan EXCEPT !.type = FanToSet]}

\* setExtruderCurrent, tested the same way.
SetExtruderCurrent ==
    /\ at = "current"
    /\ UNCHANGED <<memory, fan, printer, eeprom, orientation>>
    /\ IF eeprom.current THEN Go("offsets") /\ UNCHANGED <<current, lost>>
       ELSE \/ Stored /\ current' = TRUE /\ Return(FALSE)
            \/ LostAnswer /\ Go("offsets") /\ current' \in BOOLEAN

\* The EEPROM with the settings of a role written to their default, and what it
\* may be when the answer to one of the bytes got lost.
Reset(role) == [i \in Settings |-> IF FIELDS[i].role = role THEN "default" ELSE memory[i]]
HalfReset(role) ==
    {m \in [Settings -> FloatValues] :
        \A i \in Settings : m[i] \in IF FIELDS[i].role = role THEN FieldValues(i) ELSE {memory[i]}}

\* The bed offsets of old firmware are cleared, then the backlash speed is set,
\* whatever they are.
ResetOld ==
    LET role == IF at = "offsets" THEN "offset" ELSE "speed"
    IN /\ at \in {"offsets", "speed"}
       /\ UNCHANGED <<fan, current, printer, eeprom, orientation>>
       /\ IF ~old THEN Go("keep") /\ UNCHANGED <<memory, lost>>
          ELSE \/ Stored /\ memory' = Reset(role) /\ Go(IF at = "offsets" THEN "speed" ELSE "keep")
               \/ LostAnswer /\ Return(FALSE) /\ memory' \in HalfReset(role)

\* Faulty: a value below its range is left alone.
KeepWithinRangeAbove(kind, v) ==
    CASE kind = "float" /\ v = "nan" -> "default"
      [] v = "high" -> "max"
      [] OTHER -> v

\* eepromKeepFloatWithinRange and eepromKeepIntWithinRange.
KeepWithinRange(kind, v) ==
    CASE kind = "float" /\ v = "nan" -> "default"
      [] v = "low" -> "min"
      [] v = "high" -> "max"
      [] OTHER -> v

Applies(i) == ime \/ ~FIELDS[i].imeOnly

\* The orientation of the bed is valid if its version is set and a corner is
\* not 0, as a value that is no number is not either.
Corner(i) == FIELDS[i].role = "corner"
Leveled(values) == marked /\ \E i \in Settings : Corner(i) /\ values[i] # "default"

\* After the last setting the values to show are taken from the copy.  (The
\* positions' validity is too; no collection writes it.)
NextSetting ==
    /\ IF setting = Len(FIELDS)
       THEN at' = "reread" /\ setting' = 1 /\ oriented' = Leveled(eeprom.memory)
       ELSE UNCHANGED <<at, oriented>> /\ setting' = setting + 1
    /\ UNCHANGED <<attempt, accepted>>

\* What a setting may be when the answer to one of its bytes got lost; the
\* integers have one byte.
Torn(i, v) == IF FIELDS[i].kind = "float" THEN FloatValues ELSE {memory[i], v}

\* One setting after the other; what is compared is the copy.
KeepSetting ==
    LET value == eeprom.memory[setting]
        kept == KeepWithinRange(FIELDS[setting].kind, value)
    IN /\ at = "keep"
       /\ UNCHANGED <<fan, current, printer, eeprom>>
       /\ IF ~Applies(setting) \/ kept = value
          THEN NextSetting /\ UNCHANGED <<memory, zeroed, lost>>
          ELSE /\ zeroed' = (zeroed \/ (Corner(setting) /\ value = "nan"))
               /\ \/ Stored /\ memory' = [memory EXCEPT ![setting] = kept] /\ NextSetting
                  \/ /\ LostAnswer /\ Return(FALSE) /\ UNCHANGED oriented
                     /\ \E v \in Torn(setting, kept) : memory' = [memory EXCEPT ![setting] = v]

\* The EEPROM is read again, and the information is complete.
Reread ==
    /\ at = "reread"
    /\ eeprom' = [memory |-> memory, fan |-> fan, current |-> current]
    /\ Return(TRUE)
    /\ UNCHANGED <<memory, fan, current, printer, orientation, lost>>

\* Information is collected again: after an installation or by a new
\* connection.
Again ==
    /\ at \in {"accepted", "failed"}
    /\ at' = "start" /\ attempt' = ATTEMPTS
    /\ UNCHANGED <<memory, fan, current, printer, eeprom, setting, accepted, orientation,
                   lost>>

\* The printer is unplugged: every further request fails.
Unplugged ==
    /\ at \notin {"accepted", "failed"}
    /\ LostAnswer /\ Return(FALSE)
    /\ UNCHANGED <<memory, fan, current, printer, eeprom, orientation>>

InformationNext ==
    \/ Read \/ SetFanScale \/ SetFanOffset \/ SetFanType \/ SetExtruderCurrent
    \/ ResetOld \/ KeepSetting \/ Reread \/ Again \/ Unplugged

InformationSpec == InformationInit /\ [][InformationNext]_informationVars

-----------------------------------------------------------------------------
FanRight == fan.type = "known" => fan.scale /\ fan.offset

EverythingInRange ==
    at = "accepted" => \A i \in Settings : Applies(i) => memory[i] \in InRange

\* What is said of the bed's orientation is what the EEPROM says, also after
\* corners out of range were repaired.  (One that was no number counts as
\* levelled until information is collected again: the copy from before the
\* repair is asked.)
OrientationShown == at = "accepted" /\ ~zeroed => oriented = Leveled(memory)

Repaired == at = "accepted" /\ lost = 0 => FanRight /\ current

\* A printer that M33 Manager accepted has every setting it uses in range, and
\* the bed's orientation is said to be valid exactly when the EEPROM's is, unless
\* a corner that was no number was repaired, also when answers got lost on the
\* way; and when none did, the calibration of its fan and its extruder current
\* are repaired.
AcceptedMeansInRange == EverythingInRange /\ OrientationShown /\ Repaired
=============================================================================
