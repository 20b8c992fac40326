------------------------------- MODULE Drivers ------------------------------
(***************************************************************************)
(* The firmware's start and the drivers of the chip's devices: the clocks  *)
(* and timers at reset, the block functions of the non-volatile memory, the *)
(* TWI master, the shared converter, and the calibrations that use the     *)
(* accelerometer.  The models of the parts share no variables; a behaviour *)
(* is one of a single part, and the other parts stay as they begin.        *)
(***************************************************************************)
EXTENDS Integers, Sequences, AdcSharing, TwiMaster

VARIABLES
    part,           \* the part that moves
    \* Startup
    config, startPc, stopped, osc, startClock, cal, regs, lost, pin,
    callback, flag, irq, startDone, running,
    \* NvmBuffers
    eeprom, nvmBuffer, call, nvmDone, before,
    \* Calibration
    cmd, calPc, answer, corner, z, height, place, real, origin, drift, planes,
    orientation, round, version, valid, validZ, maxZ, lastZ0, matchCounter,
    moving, working, failed, silent, saveOn, mode, savedMode, stop, issued,
    stops, falses, crashes

startVars ==
    <<config, startPc, stopped, osc, startClock, cal, regs, lost, pin,
      callback, flag, irq, startDone, running>>

nvmVars ==
    <<eeprom, nvmBuffer, call, nvmDone, before>>

calVars ==
    <<cmd, calPc, answer, corner, z, height, place, real, origin, drift, planes,
      orientation, round, version, valid, validZ, maxZ, lastZ0, matchCounter,
      moving, working, failed, silent, saveOn, mode, savedMode, stop, issued,
      stops, falses, crashes>>

allVars == <<part, startVars, nvmVars, twiVars, sharingVars, calVars>>

-----------------------------------------------------------------------------
(* The instances.                                                          *)

\* conf_clock.h
Configured == [source |-> "RC32MHZ", psadiv |-> 4, psbcdiv |-> 0]

Buffers ==
    {<<{}>>, <<{}, {1}>>, <<{1}, {}, {}>>, <<{}, {1}, {1}, {}, {}>>}

\* Every register read alone, with the next and past the last; every register
\* written with every value.
TwiPackages ==
    [read : {TRUE}, register : 0 .. 1, value : {0}, length : 1 .. 3]
    \cup [read : {FALSE}, register : 0 .. 1, value : {0, 1}, length : {0}]

\* A bed whose corners 1 and 3 are 1 mm high.
Bed == [p \in 0 .. 5 |-> IF p \in {1, 3} THEN 1 ELSE 0]

\* The clocks as the firmware configures them and with other sources and
\* prescalers that the clock driver has.
SU == INSTANCE Startup WITH
    SOURCES <- {"RC2MHZ", "RC32MHZ", "RC32KHZ"}, PSADIVS <- {4, 68},
    PSBCDIVS <- {0, 3}, pc <- startPc, clock <- startClock, done <- startDone

\* Three EEPROM pages of two bytes: buffers within a page, over several and
\* up to more than two; and single bytes after other uses of the page buffer.
NE == INSTANCE NvmBuffers WITH
    BITS <- {1}, EEPROM_SIZE <- 6, EEPROM_PAGE_SIZE <- 2, BUFFERS <- Buffers,
    LOADS <- FALSE, buffer <- nvmBuffer, done <- nvmDone

NP == INSTANCE NvmBuffers WITH
    BITS <- {1}, EEPROM_SIZE <- 6, EEPROM_PAGE_SIZE <- 2, BUFFERS <- {<<{}>>, <<{1}>>},
    LOADS <- TRUE, buffer <- nvmBuffer, done <- nvmDone

\* The calibration of the centre among movements and homings; and that of
\* the whole bed.
CA == INSTANCE Calibration WITH
    BED <- Bed, CORRECTION <- 1, HEIGHTS <- {1, 4}, TOO_HIGH <- 6, ISSUED <- 2,
    SPOTS <- {2, 5}, COMMANDS <- {"G0", "G28", "G30", "G33"}, STOPS <- 1,
    FALSES <- 1, CRASHES <- 1, MISHAPS <- 2, SILENCES <- TRUE, pc <- calPc

CB == INSTANCE Calibration WITH
    BED <- Bed, CORRECTION <- 1, HEIGHTS <- {2}, TOO_HIGH <- 7, ISSUED <- 2,
    SPOTS <- {2, 5}, COMMANDS <- {"G32"}, STOPS <- 1, FALSES <- 1, CRASHES <- 1,
    MISHAPS <- 1, SILENCES <- FALSE, pc <- calPc

ASSUME DriversAssumption ==
    /\ SU!ConfigAssumption
    /\ NE!NvmBuffersAssumption /\ NP!NvmBuffersAssumption
    /\ SharingAssumption /\ TwiAssumption
    /\ CA!CalibrationAssumption /\ CB!CalibrationAssumption

-----------------------------------------------------------------------------
Init ==
    /\ part \in {"startup", "nvm_buffers", "nvm_pages", "twi", "adc",
                "calibration", "orientation"}
    /\ SU!Init /\ NE!Init /\ TwiInit /\ SharingInit
    /\ IF part = "orientation" THEN CB!Init ELSE CA!Init
    /\ part # "startup" => config = Configured
    /\ part # "twi" => registers = [r \in 0 .. 1 |-> 0]
    /\ part # "calibration" => z # 4 /\ mode = "absolute"

\* All commands were given, a motor is left marked or the accelerometer is
\* waited for.
Finished ==
    /\ \/ part = "calibration" /\ calPc = "idle" /\ (issued = 2 \/ moving # {})
       \/ part = "orientation" /\ calPc = "idle" /\ (issued = 2 \/ moving # {})
       \/ part \in {"calibration", "orientation"} /\ silent /\ calPc \in {"homeY", "homeX", "still", "lower"}
    /\ UNCHANGED allVars

Next ==
    \/ part = "startup" /\ SU!Next /\ UNCHANGED <<part, nvmVars, twiVars, sharingVars, calVars>>
    \/ part = "nvm_buffers" /\ NE!Next /\ UNCHANGED <<part, startVars, twiVars, sharingVars, calVars>>
    \/ part = "nvm_pages" /\ NP!Next /\ UNCHANGED <<part, startVars, twiVars, sharingVars, calVars>>
    \/ part = "twi" /\ TwiNext /\ UNCHANGED <<part, startVars, nvmVars, sharingVars, calVars>>
    \/ part = "adc" /\ SharingNext /\ UNCHANGED <<part, startVars, nvmVars, twiVars, calVars>>
    \/ part = "calibration" /\ CA!Next /\ UNCHANGED <<part, startVars, nvmVars, twiVars, sharingVars>>
    \/ part = "orientation" /\ CB!Next /\ UNCHANGED <<part, startVars, nvmVars, twiVars, sharingVars>>
    \/ Finished

Spec == Init /\ [][Next]_allVars

-----------------------------------------------------------------------------
\* An interrupt that is taken while main() still starts up finds everything
\* its handler uses set up: the overflow flags are pending since the timers
\* were started, and twi_master_init enables interrupts in the middle of
\* Motors::initialize (twim.c:319), long before USB is started.  (That no
\* save comes before main()'s first EEPROM write is left to the 200 ms that
\* the save handler counts.)  In the loop every timer register
\* holds what was last written to it, but for the heater's interrupt level
\* (heater.cpp:104), and until then the heater is not switched on and the
\* motors get no current.  The CPU never runs from an oscillator that is not
\* ready, sysclk_get_cpu_hz tells the rate the registers give, and the
\* intervals are what the comments say, within one percent (main.cpp:210,
\* motors.cpp:520, heater.cpp:129).
StartReady == part = "startup" => 
    /\ SU!HandlersReady /\ SU!RegistersStand /\ SU!QuietStart /\ SU!SourceRuns /\ SU!RateKnown
    /\ config = Configured => SU!OnTime

\* A write to the EEPROM that no power failure ends has written its whole
\* buffer and nothing else, wherever in the pages it begins and ends
\* (nvm_eeprom_erase_and_write_buffer); and a write of one byte does so
\* whatever other functions left in the page buffer, which
\* nvm_eeprom_write_byte flushes first.  A whole page does not flush it, so
\* with something left there the property is not claimed for one.
BuffersWritten == NE!WholeWritten /\ NP!WholeWritten

\* An axis is VALID only while its value is right: X and Y are where the
\* value and the skew compensation put them, the extruder is at the height
\* that Z and the loaded planes stand for, but for the corrections that G32
\* makes at the corners and takes out of the value (move, moveToHeight,
\* homeXY, moveToZ0 and the calibrations save, clear and restore
\* currentStateOfValues around every movement).  The orientation's version
\* is valid only if one calibration measured all four corners, each within 1
\* mm and those corrections; and probing never goes above the height it started from (Changelog:7,
\* 45, 64).  Between commands the save interrupt is on and no motor is
\* marked as moving unless the accelerometer failed.
ValidIsTrue ==
    /\ part = "calibration" => CA!ValidIsTrue /\ CA!NotAboveStart /\ CA!AtRest
    /\ part = "orientation" => CB!ValidIsTrue /\ CB!VersionMeansMeasured /\ CB!ShapeMeasured
=============================================================================
