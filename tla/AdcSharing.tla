----------------------------- MODULE AdcSharing -----------------------------
(***************************************************************************)
(* The one converter, shared by the heater's connection test, which the    *)
(* main loop, the temperature interrupt and the wait interrupt all make,   *)
(* and the temperature interrupt's two measurements, which need another    *)
(* configuration.  A measurement reads the converter's calibration through *)
(* the NVM controller's command register, which the main loop also uses to *)
(* write the EEPROM; writes the configuration of converter and channel;    *)
(* and then starts a conversion, waits for its flag and takes the result,  *)
(* once for every sample.                                                  *)
(*                                                                         *)
(* A step is what the code protects from interrupts, or a single access.   *)
(* The interrupts have one level: they come between any two steps of the   *)
(* main loop and never inside one another.                                 *)
(***************************************************************************)
EXTENDS Integers, FiniteSetsExt

CONSTANTS
    PERIPHERAL_CLOCK, HEATER_READ_ADC_FREQUENCY,     \* kHz
    HEATER_READ_ADC_SAMPLE_SIZE

SharingAssumption ==
    /\ HEATER_READ_ADC_SAMPLE_SIZE \in Nat \ {0}
    /\ PERIPHERAL_CLOCK \in Nat /\ HEATER_READ_ADC_FREQUENCY \in Nat \ {0}

-----------------------------------------------------------------------------
(* The configuration of the converter and of its one channel (adc.h): the   *)
(* functions that set parts of the two structures, as functions from        *)
(* structure to structure.  CTRLB is the set of its bits, because two of    *)
(* the functions share it; the other registers are their fields.            *)

ADC_CONMODE_bm == {"CONMODE"}
ADC_RESOLUTION_gm == {"RESOLUTION0", "RESOLUTION1"}
ADC_FREERUN_bm == {"FREERUN"}

ADC_RES_12 == {}

\* All but signedness, resolution and reference is preserved.
adc_set_conversion_parameters(conf, sign, res, ref) ==
    [conf EXCEPT !.ctrlb = (@ \ (ADC_CONMODE_bm \cup ADC_RESOLUTION_gm)) \cup res \cup sign,
                 !.refsel = ref]

\* Event actions: none, as many channels as the action's number, synchronised sweep.
ADC_EVACT_NONE == 0
ADC_EVACT_SYNCSWEEP == 6

\* The triggers of a converter with one channel; base_ev_ch is the event channel.
adc_set_conversion_trigger(conf, trig, base_ev_ch) ==
    CASE trig = "MANUAL" ->
            [conf EXCEPT !.ctrlb = @ \ ADC_FREERUN_bm, !.evsel = 0, !.evact = ADC_EVACT_NONE]
      [] trig = "FREERUN" -> [conf EXCEPT !.ctrlb = @ \cup ADC_FREERUN_bm]
      [] trig = "EVENT_SINGLE" ->
            [conf EXCEPT !.ctrlb = @ \ ADC_FREERUN_bm, !.evsel = base_ev_ch, !.evact = 1]
      [] trig = "EVENT_SYNCSWEEP" ->
            [conf EXCEPT !.ctrlb = @ \ ADC_FREERUN_bm, !.evsel = base_ev_ch,
                         !.evact = ADC_EVACT_SYNCSWEEP]

Prescalers == {2 ^ k : k \in 2 .. 9}

\* The smallest factor that reaches the ratio, or the largest there is.
Prescaler(ratio) ==
    LET enough == {p \in Prescalers : ratio <= p}
    IN  IF enough # {} THEN Min(enough) ELSE Max(Prescalers)

adc_set_clock_rate(conf, clk_per, clk_adc) ==
    [conf EXCEPT !.prescaler = Prescaler(clk_per \div clk_adc)]

-----------------------------------------------------------------------------
(* The channel.  Positive inputs are the pins 0 to 15 and then the internal *)
(* ones; negative inputs the pins 0 to 7, two grounds, and none.           *)

ADCCH_POS_TEMPSENSE == 16
ADCCH_NEG_PIN3 == 3
ADCCH_NEG_PIN4 == 4
ADCCH_NEG_PIN7 == 7
ADCCH_NEG_PAD_GND == 8
ADCCH_NEG_INTERNAL_GND == 9
ADCCH_NEG_NONE == 10
ADCCH_FORCE_1X_GAINSTAGE == 255

\* The MUXNEG codes of the grounds, without (MODE10) and with (MODE11) gain stage.
MUXNEG_MODE10_GND == 5
MUXNEG_MODE10_INTGND == 7
MUXNEG_MODE11_INTGND == 4
MUXNEG_MODE11_GND == 7

\* The gain setting is named by twice its factor: 1 is 1/2x, 2 is 1x, 128 is 64x.
adcch_get_gain_setting(gain) ==
    CASE gain = 0 -> 1
      [] gain = ADCCH_FORCE_1X_GAINSTAGE -> 2
      [] OTHER -> 2 * gain

Channel(mode, setting, muxpos, muxneg) ==
    [mode |-> mode, gain |-> setting, muxpos |-> muxpos, muxneg |-> muxneg]

\* Both registers of the channel are overwritten.
adcch_set_input(pos, neg, gain) ==
    IF pos >= ADCCH_POS_TEMPSENSE
    THEN Channel("INTERNAL", 2, pos - ADCCH_POS_TEMPSENSE, 0)
    ELSE IF neg = ADCCH_NEG_NONE THEN Channel("SINGLEENDED", 2, pos, 0)
    ELSE IF neg <= ADCCH_NEG_PIN3 THEN Channel("DIFF", 2, pos, neg)
    ELSE IF neg <= ADCCH_NEG_PIN7
    THEN Channel("DIFFWGAIN", adcch_get_gain_setting(gain), pos, neg - ADCCH_NEG_PIN4)
    ELSE IF gain = 1
    THEN Channel("DIFF", 2, pos,
                 IF neg = ADCCH_NEG_PAD_GND THEN MUXNEG_MODE10_GND ELSE MUXNEG_MODE10_INTGND)
    ELSE Channel("DIFFWGAIN", adcch_get_gain_setting(gain), pos,
                 IF neg = ADCCH_NEG_INTERNAL_GND THEN MUXNEG_MODE11_INTGND ELSE MUXNEG_MODE11_GND)

-----------------------------------------------------------------------------
NO_OPERATION == "NO_OPERATION"
READ_CALIB_ROW == "READ_CALIB_ROW"
ERASE_WRITE_EEPROM_PAGE == "ERASE_WRITE_EEPROM_PAGE"

VARIABLES
    ADC,          \* registers: enabled, conf, cal (the calibration written), channel
    adcClock,        \* the converter's peripheral clock runs
    enableCount,  \* adca_enable_count
    converting,   \* the configuration of the conversion under way, or Nothing
    interruptFlag, RES,    \* a conversion is complete; the configuration that made the result
    CMD,          \* NVM.CMD
    executed,     \* the commands the main loop had executed
    frame,        \* what the main loop and the interrupt are doing
    heating,      \* idealTemperature is not off
    isWorking,
    updating,     \* the temperature interrupt's level is LO
    waiting,      \* the wait interrupt's level is LO
    connected     \* environment: the heater answers the test

hardware == <<ADC, adcClock, enableCount, converting, interruptFlag, RES>>
heater == <<heating, isWorking, updating>>
sharingVars == <<hardware, CMD, executed, frame, heater, waiting, connected>>

Actor == {"main", "interrupt"}

-----------------------------------------------------------------------------
(* The two configurations (Heater::initialize), from what the registers    *)
(* hold after power-up.                                                    *)

PowerUp == [ctrlb |-> {}, refsel |-> "BANDGAP", evsel |-> 0, evact |-> 0, prescaler |-> 4]

Controller(sign) ==
    adc_set_clock_rate(
        adc_set_conversion_trigger(
            adc_set_conversion_parameters(PowerUp, sign, ADC_RES_12, "BANDGAP"), "MANUAL", 0),
        PERIPHERAL_CLOCK, HEATER_READ_ADC_FREQUENCY)

\* The heater's voltage: signed, pin 3 against pin 4 at half gain; the resistance:
\* unsigned, pin 5.
Configuration(which) ==
    IF which = "heater"
    THEN [controller |-> Controller(ADC_CONMODE_bm),
          channel |-> adcch_set_input(3, ADCCH_NEG_PIN4, 0)]
    ELSE [controller |-> Controller({}), channel |-> adcch_set_input(5, ADCCH_NEG_NONE, 1)]

Written == [controller |-> ADC.conf, channel |-> ADC.channel, cal |-> ADC.cal]
Wanted(which) ==
    [controller |-> Configuration(which).controller, channel |-> Configuration(which).channel,
     cal |-> "calibration"]

Nothing == [controller |-> PowerUp, channel |-> adcch_set_input(0, ADCCH_NEG_NONE, 1), cal |-> "none"]

\* A frame: where the actor is (at), the measurement it makes, the samples left, the
\* NVM command it saved, whether both calibration bytes were right, the configurations
\* behind the results it took, and what it does with them (the caller).
Idle == [at |-> "idle", which |-> "heater", left |-> 0, saved |-> NO_OPERATION,
         cal |-> "calibration", taken |-> {}, caller |-> "none"]

Calibration == <<"save 1", "load 1", "read 1", "save 0", "load 0", "read 0">>

SharingInit ==
    /\ ADC = [enabled |-> TRUE, conf |-> PowerUp, cal |-> "none", channel |-> Nothing.channel]
    /\ adcClock = TRUE /\ enableCount = 1
    /\ converting = Nothing /\ interruptFlag = FALSE /\ RES = Nothing
    /\ CMD = NO_OPERATION /\ executed = {}
    /\ frame = [a \in Actor |-> Idle]
    /\ heating = FALSE /\ isWorking = FALSE
    /\ updating \in BOOLEAN   \* initialize writes the level before tc_enable clocks the timer
    /\ waiting = TRUE
    /\ connected = TRUE

-----------------------------------------------------------------------------
(* The driver.  adc_enable_clock and adc_disable_clock count; the last one *)
(* out stops the clock.                                                    *)

adc_enable_clock(count) == [count |-> count + 1, clock |-> TRUE]

adc_disable_clock(count) == [count |-> count - 1, clock |-> count - 1 > 0]

\* Enable the clock, access the registers, disable it.
ClockAround ==
    LET after == adc_disable_clock(adc_enable_clock(enableCount).count)
    IN  enableCount' = after.count /\ adcClock' = after.clock

Running(a) == a = "main" => frame["interrupt"].at = "idle"
Here(a, here) == Running(a) /\ frame[a].at = here
Go(a, there) == frame' = [frame EXCEPT ![a].at = there]

\* nvm_read_byte: save the command, load the one that makes the next LPM read the
\* calibration row, read, restore.
SaveCommand(a, n) ==
    /\ Here(a, Calibration[n])
    /\ frame' = [frame EXCEPT ![a].saved = CMD, ![a].at = Calibration[n + 1]]
    /\ UNCHANGED <<hardware, CMD, executed, heater, waiting, connected>>

LoadCommand(a, n) ==
    /\ Here(a, Calibration[n])
    /\ CMD' = READ_CALIB_ROW
    /\ Go(a, Calibration[n + 1])
    /\ UNCHANGED <<hardware, executed, heater, waiting, connected>>

Restored(a) == frame[a].saved

\* The LPM and the restoring of the command.
ReadByte(a, n) ==
    /\ Here(a, Calibration[n])
    /\ CMD' = Restored(a)
    /\ frame' = [frame EXCEPT ![a].cal = IF CMD = READ_CALIB_ROW THEN @ ELSE "program memory",
                              ![a].at = IF n = 6 THEN "configure" ELSE Calibration[n + 1]]
    /\ UNCHANGED <<hardware, executed, heater, waiting, connected>>

\* The flush aborts the conversion under way.
Flushed(conversion) == Nothing

EnableAgain(enabled) == enabled

\* adc_write_configuration, after the calibration was read.
adc_write_configuration(a) ==
    /\ Here(a, "configure")
    /\ ADC' = [ADC EXCEPT !.conf = Configuration(frame[a].which).controller,
                          !.cal = frame[a].cal,
                          !.enabled = EnableAgain(@)]
    /\ ClockAround
    /\ converting' = Flushed(converting)
    /\ Go(a, "channel")
    /\ UNCHANGED <<interruptFlag, RES, CMD, executed, heater, waiting, connected>>

adcch_write_configuration(a) ==
    /\ Here(a, "channel")
    /\ ADC' = [ADC EXCEPT !.channel = Configuration(frame[a].which).channel]
    /\ ClockAround
    /\ Go(a, "start")
    /\ UNCHANGED <<converting, interruptFlag, RES, CMD, executed, heater, waiting, connected>>

\* A start has an effect only while the converter is enabled and clocked.
adc_start_conversion(a) ==
    /\ Here(a, "start")
    /\ converting' = IF ADC.enabled /\ adcClock THEN Written ELSE converting
    /\ Go(a, "wait")
    /\ UNCHANGED <<ADC, adcClock, enableCount, interruptFlag, RES, CMD, executed, heater, waiting,
                   connected>>

\* adc_wait_for_interrupt_flag sees the flag and clears it; the result is read next.
adc_wait_for_interrupt_flag(a) ==
    /\ Here(a, "wait")
    /\ interruptFlag
    /\ interruptFlag' = FALSE
    /\ Go(a, "take")
    /\ UNCHANGED <<ADC, adcClock, enableCount, converting, RES, CMD, executed, heater, waiting,
                   connected>>

adc_get_result(a) ==
    /\ Here(a, "take")
    /\ frame' = [frame EXCEPT ![a].taken = @ \cup {RES}, ![a].left = @ - 1,
                              ![a].at = IF frame[a].left > 1 THEN "start" ELSE "measured"]
    /\ UNCHANGED <<hardware, CMD, executed, heater, waiting, connected>>

\* The converter completes a conversion.
Convert ==
    /\ converting # Nothing /\ adcClock
    /\ RES' = converting
    /\ interruptFlag' = TRUE
    /\ converting' = Nothing
    /\ UNCHANGED <<ADC, adcClock, enableCount, CMD, executed, frame, heater, waiting, connected>>

-----------------------------------------------------------------------------
(* The heater.                                                             *)

Measuring(which, samples, caller) ==
    [Idle EXCEPT !.at = "save 1", !.which = which, !.left = samples, !.caller = caller]

\* Faulty: the temperature interrupt is left on.
UpdatingDuringTest(level) == level

\* testConnection first turns the temperature interrupt off.
UpdatingInTest(level) == FALSE

UpdatingAfterTest(level) == TRUE

\* The end of testConnection: a heater that does not answer is cleared; the
\* temperature interrupt may come again.
EndTest ==
    /\ isWorking' = connected
    /\ heating' = (heating /\ connected)
    /\ updating' = UpdatingAfterTest(updating)

\* The temperature interrupt.
Tick ==
    /\ updating /\ frame["interrupt"].at = "idle"
    /\ IF heating
         THEN /\ frame' = [frame EXCEPT !["interrupt"] = Measuring("heater", 1, "tick")]
              /\ updating' = UpdatingInTest(updating)
         ELSE UNCHANGED <<frame, updating>>
    /\ UNCHANGED <<hardware, CMD, executed, heating, isWorking, waiting, connected>>

\* After the test: the resistance, then the heater's voltage, then the comparison.
TickTested ==
    /\ Here("interrupt", "measured") /\ frame["interrupt"].caller = "tick"
    /\ EndTest
    /\ frame' = [frame EXCEPT !["interrupt"] =
            IF connected THEN Measuring("resistance", HEATER_READ_ADC_SAMPLE_SIZE, "resistance")
            ELSE Idle]
    /\ UNCHANGED <<hardware, CMD, executed, waiting, connected>>

TickMeasured ==
    /\ Here("interrupt", "measured") /\ frame["interrupt"].caller \in {"resistance", "voltage"}
    /\ frame' = [frame EXCEPT !["interrupt"] =
            IF @.caller = "resistance"
            THEN Measuring("heater", HEATER_READ_ADC_SAMPLE_SIZE, "voltage") ELSE Idle]
    /\ UNCHANGED <<hardware, CMD, executed, heater, waiting, connected>>

\* resetPeripherals: the heater's temperature is cleared, which ends with its interrupt on.
Cleared == heating' = FALSE /\ updating' = TRUE

\* The wait interrupt asks whether the heater is on (isOn), unless the fan or the LED is.
WaitInterrupt ==
    /\ waiting /\ frame["interrupt"].at = "idle"
    /\ frame' = [frame EXCEPT !["interrupt"] = Measuring("heater", 1, "wait")]
    /\ updating' = UpdatingInTest(updating)
    /\ UNCHANGED <<hardware, CMD, executed, heating, isWorking, waiting, connected>>

WaitInterruptEnds ==
    /\ Here("interrupt", "measured") /\ frame["interrupt"].caller = "wait"
    /\ EndTest
    /\ frame' = [frame EXCEPT !["interrupt"] = Idle]
    /\ UNCHANGED <<hardware, CMD, executed, waiting, connected>>

\* With something on for too long without a command, it resets the peripherals.
Inactive ==
    /\ waiting /\ frame["interrupt"].at = "idle"
    /\ Cleared
    /\ UNCHANGED <<hardware, CMD, executed, frame, isWorking, waiting, connected>>

-----------------------------------------------------------------------------
(* The main loop.                                                          *)

\* A request is ready: wait responses are disabled before anything else, and a heater
\* that did not work is tested again.
Request ==
    /\ Here("main", "idle")
    /\ waiting' = FALSE
    /\ IF isWorking
         THEN Go("main", "command") /\ UNCHANGED updating
         ELSE /\ frame' = [frame EXCEPT !["main"] = Measuring("heater", 1, "working")]
              /\ updating' = UpdatingInTest(updating)
    /\ UNCHANGED <<hardware, CMD, executed, heating, isWorking, connected>>

\* An emergency stop.
Stop ==
    /\ Here("main", "idle")
    /\ waiting' = FALSE
    /\ Go("main", "finish")
    /\ Cleared
    /\ UNCHANGED <<hardware, CMD, executed, isWorking, connected>>

\* A command that tests the heater: one that asks (M105), or one that will set it.
TestConnection(caller) ==
    /\ Here("main", "command")
    /\ updating' = UpdatingInTest(updating)
    /\ frame' = [frame EXCEPT !["main"] = Measuring("heater", 1, caller)]
    /\ UNCHANGED <<hardware, CMD, executed, heating, isWorking, waiting, connected>>

MainTested ==
    /\ Here("main", "measured")
    /\ EndTest
    /\ frame' = [frame EXCEPT !["main"] =
            [Idle EXCEPT !.at = CASE frame["main"].caller = "set" -> "set"
                                  [] frame["main"].caller = "working" /\ connected -> "command"
                                  [] OTHER -> "finish"]]
    /\ UNCHANGED <<hardware, CMD, executed, waiting, connected>>

\* setTemperature after its test: the calibration is read with the interrupt off
\* (updateHeaterChanges) and the target set; a heating command then tests again in
\* getTemperature; an off command, or an unsupported calibration mode, clears and turns
\* the interrupt on.
SetTemperature(on) ==
    /\ Here("main", "set")
    /\ IF on
         THEN /\ frame' = [frame EXCEPT !["main"] = Measuring("heater", 1, "ask")]
              /\ heating' = TRUE /\ updating' = FALSE
         ELSE Go("main", "finish") /\ Cleared
    /\ UNCHANGED <<hardware, CMD, executed, isWorking, waiting, connected>>

\* A command that writes the EEPROM (M618): nvm_eeprom_write_byte saves the command,
\* loads its own, executes it and restores the one before, for every byte.
EepromCommand ==
    /\ Here("main", "command") \/ Here("main", "wrote")
    /\ frame' = [frame EXCEPT !["main"].saved = CMD, !["main"].at = "load"]
    /\ UNCHANGED <<hardware, CMD, executed, heater, waiting, connected>>

LoadWrite ==
    /\ Here("main", "load")
    /\ CMD' = ERASE_WRITE_EEPROM_PAGE
    /\ Go("main", "exec")
    /\ UNCHANGED <<hardware, executed, heater, waiting, connected>>

nvm_exec ==
    /\ Here("main", "exec")
    /\ executed' = executed \cup {CMD}
    /\ Go("main", "restore")
    /\ UNCHANGED <<hardware, CMD, heater, waiting, connected>>

RestoreCommand ==
    /\ Here("main", "restore")
    /\ CMD' = frame["main"].saved
    /\ Go("main", "wrote")
    /\ UNCHANGED <<hardware, executed, heater, waiting, connected>>

\* After M618's write updateHeaterChanges reads the calibration: the interrupt is on after
\* it, and an unsupported calibration mode clears the temperature.  The other commands
\* that write the EEPROM leave the heater alone.
Wrote ==
    /\ Here("main", "wrote")
    /\ \/ UNCHANGED <<heating, updating>>
       \/ heating' \in {heating, FALSE} /\ updating' = TRUE
    /\ Go("main", "finish")
    /\ UNCHANGED <<hardware, CMD, executed, isWorking, waiting, connected>>

\* The command is answered and wait responses are enabled.
Finish ==
    /\ Here("main", "finish")
    /\ waiting' = TRUE
    /\ frame' = [frame EXCEPT !["main"] = Idle]
    /\ UNCHANGED <<hardware, CMD, executed, heater, connected>>

Plug ==
    /\ connected' = ~connected
    /\ UNCHANGED <<hardware, CMD, executed, frame, heater, waiting>>

-----------------------------------------------------------------------------
Measure(a) ==
    \/ \E n \in {1, 4} : SaveCommand(a, n)
    \/ \E n \in {2, 5} : LoadCommand(a, n)
    \/ \E n \in {3, 6} : ReadByte(a, n)
    \/ adc_write_configuration(a) \/ adcch_write_configuration(a)
    \/ adc_start_conversion(a) \/ adc_wait_for_interrupt_flag(a) \/ adc_get_result(a)

Main ==
    \/ Request \/ Stop \/ MainTested \/ Finish
    \/ EepromCommand \/ LoadWrite \/ nvm_exec \/ RestoreCommand \/ Wrote
    \/ \E caller \in {"ask", "set"} : TestConnection(caller)
    \/ \E on \in BOOLEAN : SetTemperature(on)

Interrupt == TickTested \/ TickMeasured \/ WaitInterruptEnds \/ Inactive

SharingNext == Convert \/ Main \/ Interrupt \/ Tick \/ WaitInterrupt \/ Plug \/ \E a \in Actor : Measure(a)

SharingSpec == SharingInit /\ [][SharingNext]_sharingVars

-----------------------------------------------------------------------------
OwnReading == \A a \in Actor : frame[a].taken \subseteq {Wanted(frame[a].which)}

OwnCommand == executed \subseteq {ERASE_WRITE_EEPROM_PAGE}

HeatingWatched == frame["main"].at = "idle" /\ frame["interrupt"].at = "idle" /\ heating => updating

\* Every result that is taken, by the main loop or by an interrupt, was converted
\* with the converter and channel configuration that its measurement wrote and
\* with the factory calibration: nobody else configures the converter in between.
\* The page write of nvm_eeprom_write_byte executes the command that was loaded
\* for it, although the temperature interrupt reads the calibration through the
\* same register.  A heater that heats is looked after: between commands its
\* interrupt is on, whatever its level was at power-up.
SharedUndisturbed == OwnReading /\ OwnCommand /\ HeatingWatched
=============================================================================
