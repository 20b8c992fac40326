------------------------------ MODULE Startup ------------------------------
(***************************************************************************)
(* How the firmware starts: main() from reset to its loop, against timers  *)
(* that already run and interrupts that are already pending.               *)
(*                                                                         *)
(* sysclk_init stops the clock of every module; a register of a stopped    *)
(* module cannot be written, so the order in which modules are enabled and *)
(* set up matters. A timer that runs sets its overflow flag long before    *)
(* interrupts are enabled, which the accelerometer's driver does in the    *)
(* middle of Motors::initialize, so the first interrupts come at once, in  *)
(* the middle of what is left of the startup.                              *)
(*                                                                         *)
(* main() is a sequence of steps built from the functions it calls; each   *)
(* step is one action.  Direction, step and input pins are left out.       *)
(***************************************************************************)
EXTENDS Integers, Sequences

CONSTANTS
    SOURCES,   \* CONFIG_SYSCLK_SOURCE, the values checked
    PSADIVS,   \* CONFIG_SYSCLK_PSADIV, as written to CLK.PSCTRL
    PSBCDIVS   \* CONFIG_SYSCLK_PSBCDIV, as written to CLK.PSCTRL

ConfigAssumption ==
    /\ SOURCES \subseteq {"RC2MHZ", "RC32MHZ", "RC32KHZ"}
    /\ PSADIVS \subseteq {4 * n : n \in {0} \cup {2 * k + 1 : k \in 0..8}}
    /\ PSBCDIVS \subseteq 0..3

VARIABLES
    config,    \* the clock configuration the firmware was built with
    pc,        \* the next step of main()
    stopped,   \* PR: the modules whose clock is stopped
    osc,       \* OSC.CTRL and OSC.STATUS: oscillators enabled and ready
    clock,     \* CLK.CTRL and CLK.PSCTRL
    cal,       \* the calibration of the 32 MHz oscillator: 32 or 48 MHz
    regs,      \* the registers of the four timers
    lost,      \* registers whose last write went to a stopped module
    pin,       \* the output pins: direction and level
    callback,  \* tc_<timer>_ovf_callback
    flag,      \* OVFIF of each timer
    irq,       \* the global interrupt flag
    done,      \* the parts of the firmware that are set up
    running    \* the timer whose interrupt is being served

vars == <<config, pc, stopped, osc, clock, cal, regs, lost, pin, callback,
          flag, irq, done, running>>

----------------------------------------------------------------------------
(* What the chip and the firmware consist of.                              *)

Timer == {"TCC0", "TCC1", "TCD0", "TCE0"}

MOTORS_STEP_TIMER == "TCC0"
TEMPERATURE_TIMER == "TCC1"
MOTORS_VREF_TIMER == "TCD0"
FAN_TIMER == "TCE0"

Hires == [TCC0 |-> "HIRESC", TCC1 |-> "HIRESC", TCD0 |-> "HIRESD",
          TCE0 |-> "HIRESE"]

Module == Timer \cup {"HIRESC", "HIRESD", "HIRESE", "TWIC", "USB"}

Register == {"INTLVL", "WGM", "PER", "CLKSEL", "CCEN",
             "CCA", "CCB", "CCC", "CCD"}

OFF == 0
LO == 1
MED == 2

TC_WG_NORMAL == 0
TC_WG_SS == 3

FAN_TIMER_PERIOD == 8333
MOTORS_VREF_TIMER_PERIOD == 639
MOTORS_STEP_TIMER_PERIOD == 1024
UPDATE_TEMPERATURE_MILLISECONDS == 333
MOTORS_SAVE_VALUE_MILLISECONDS == 200

Vref == {"X_VREF", "Y_VREF", "Z_VREF", "E_VREF"}

Pin == Vref \cup {"MOTORS_ENABLE", "HEATER_MODE_SELECT", "HEATER_ENABLE",
                  "FAN_ENABLE", "LED_ENABLE"}

HIGH == 1
LOW == 0
MOTORS_ON == LOW
MOTORS_OFF == HIGH
HEATER_ON == HIGH
HEATER_OFF == LOW

CONFIG_OSC_RC32_CAL == 48000000

\* What the handlers rely on: the wait handler sends through USB and asks
\* every peripheral whether it is on, the save handler writes the axis state
\* through `self`.  (It writes to addresses that need main()'s first EEPROM
\* write too, but may be called before that; see HandlersReady.)
Needs ==
    [wait        |-> {"fan", "led", "heater", "motors", "usb"},
     save        |-> {"state", "self"},
     temperature |-> {"heater"},
     step        |-> {"motors"}]

----------------------------------------------------------------------------
(* The rates the firmware computes with, and the rates the chip has.       *)

sysclk_get_main_hz(c) ==
    CASE c.source = "RC2MHZ"  -> 2000000
      [] c.source = "RC32MHZ" -> CONFIG_OSC_RC32_CAL
      [] c.source = "RC32KHZ" -> 32768

sysclk_get_per4_hz(c) ==
    sysclk_get_main_hz(c) \div (2 ^ (IF (c.psadiv \div 4) % 2 = 1
                                     THEN c.psadiv \div 8 + 1 ELSE 0))

sysclk_get_per2_hz(c) ==
    CASE c.psbcdiv \in {0, 1} -> sysclk_get_per4_hz(c)
      [] c.psbcdiv = 2        -> sysclk_get_per4_hz(c) \div 4
      [] c.psbcdiv = 3        -> sysclk_get_per4_hz(c) \div 2

sysclk_get_cpu_hz(c) ==
    IF c.psbcdiv % 2 = 1 THEN sysclk_get_per2_hz(c) \div 2
                         ELSE sysclk_get_per2_hz(c)

\* External: the frequency the CPU and the timers run at.
DivisorA == [p \in {0, 4, 12, 20, 28, 36, 44, 52, 60, 68} |->
                IF p = 0 THEN 1 ELSE 2 ^ ((p \div 4 + 1) \div 2)]

DivisorBC == [p \in 0..3 |-> <<1, 2, 4, 4>>[p + 1]]

CpuHz ==
    LET rate == CASE clock.source = "RC2MHZ"  -> 2000000
                  [] clock.source = "RC32MHZ" -> cal
                  [] clock.source = "RC32KHZ" -> 32768
    IN  rate \div (DivisorA[clock.psadiv] * DivisorBC[clock.psbcdiv])

----------------------------------------------------------------------------
(* The steps of main().                                                    *)

Write(t, r, v) == <<"write", t, r, v>>
Output(p) == <<"output", p>>
Level(p, v) == <<"level", p, v>>
SetUp(part) == <<"set up", part>>

osc_enable(o) == <<"oscillator on", o>>
osc_wait_ready(o) == <<"await", o>>

SelectSource(c) ==
    IF c.source = "RC2MHZ" THEN << >>
    ELSE <<osc_enable(c.source), osc_wait_ready(c.source),
           <<"source", c.source>>, <<"oscillator off", "RC2MHZ">>>>

sysclk_init(c) ==
    <<<<"stop modules">>>>
    \o (IF c.psadiv # 0 \/ c.psbcdiv # 0 THEN <<<<"prescale">>>> ELSE << >>)
    \o <<<<"calibrate">>>> \o SelectSource(c)

Fan_initialize ==
    <<Output("FAN_ENABLE"),
      <<"enable", FAN_TIMER>>,
      Write(FAN_TIMER, "WGM", TC_WG_SS),
      Write(FAN_TIMER, "PER", FAN_TIMER_PERIOD),
      Write(FAN_TIMER, "CCEN", 10),
      Write(FAN_TIMER, "CLKSEL", 64),
      Write(FAN_TIMER, "CCB", 0),
      SetUp("fan")>>

clearTemperature ==
    <<Write(TEMPERATURE_TIMER, "INTLVL", OFF),
      Write(TEMPERATURE_TIMER, "INTLVL", LO),
      Level("HEATER_MODE_SELECT", HEATER_OFF)>>

TemperaturePeriod(c) ==
    ((sysclk_get_cpu_hz(c) \div 1024) * UPDATE_TEMPERATURE_MILLISECONDS)
        \div 1000

Heater_initialize(c) ==
    <<Output("HEATER_MODE_SELECT"),
      Output("HEATER_ENABLE"), Level("HEATER_ENABLE", HIGH)>>
    \o clearTemperature
    \o <<<<"enable", TEMPERATURE_TIMER>>,
         Write(TEMPERATURE_TIMER, "WGM", TC_WG_NORMAL),
         Write(TEMPERATURE_TIMER, "PER", TemperaturePeriod(c) % 2^16),
         <<"callback", TEMPERATURE_TIMER, "temperature">>,
         Write(TEMPERATURE_TIMER, "CLKSEL", 1024),
         SetUp("heater")>>

Led_initialize ==
    <<Output("LED_ENABLE"),
      Write(FAN_TIMER, "CCD", FAN_TIMER_PERIOD),
      SetUp("led")>>

\* round(current * 0.5 V/A / 3.3 V * period), the current in microamperes.
Compare(current) ==
    (current * MOTORS_VREF_TIMER_PERIOD + 3300000) \div 6600000

VrefTimer ==
    <<<<"enable", MOTORS_VREF_TIMER>>,
      Write(MOTORS_VREF_TIMER, "WGM", TC_WG_SS),
      Write(MOTORS_VREF_TIMER, "PER", MOTORS_VREF_TIMER_PERIOD),
      Write(MOTORS_VREF_TIMER, "CCB", Compare(692019)),
      Write(MOTORS_VREF_TIMER, "CCD", Compare(692019)),
      Write(MOTORS_VREF_TIMER, "CCC", Compare(196244)),
      Write(MOTORS_VREF_TIMER, "CCA", Compare(299531)),
      Write(MOTORS_VREF_TIMER, "CCEN", 15),
      Write(MOTORS_VREF_TIMER, "CLKSEL", 1)>>

StepTimer ==
    <<<<"enable", MOTORS_STEP_TIMER>>,
      Write(MOTORS_STEP_TIMER, "WGM", TC_WG_NORMAL),
      Write(MOTORS_STEP_TIMER, "PER", MOTORS_STEP_TIMER_PERIOD),
      Write(MOTORS_STEP_TIMER, "INTLVL", MED)>>

turnOff == Level("MOTORS_ENABLE", MOTORS_OFF)

Motors_reset == <<Write(MOTORS_STEP_TIMER, "CLKSEL", OFF), turnOff>>

MotorPins ==
    <<Output("MOTORS_ENABLE"), turnOff,
      Output("X_VREF"), Output("Y_VREF"), Output("Z_VREF"), Output("E_VREF")>>

\* twi_master_init enables interrupts, here already.
Motors_initialize ==
    <<SetUp("state")>> \o MotorPins \o VrefTimer \o StepTimer
    \o Motors_reset
    \o <<<<"callback", MOTORS_STEP_TIMER, "step">>,
         <<"enable", "TWIC">>,
         <<"irq">>,
         SetUp("motors"),
         SetUp("self"),
         <<"callback", MOTORS_VREF_TIMER, "save">>,
         Write(MOTORS_VREF_TIMER, "INTLVL", LO)>>

\* sysclk_enable_usb starts the 32 MHz oscillator where it is not ready.
udc_start == <<<<"usb oscillator">>, osc_wait_ready("RC32MHZ"),
               <<"enable", "USB">>, SetUp("usb")>>

enableSendingWaitResponses == <<Write(FAN_TIMER, "INTLVL", LO)>>

\* Faulty: wait responses are enabled before there is USB to send them.
LastStepsHasty == <<<<"irq">>>> \o enableSendingWaitResponses \o udc_start

LastSteps == <<<<"irq">>>> \o udc_start \o enableSendingWaitResponses

main(c) ==
    sysclk_init(c) \o Fan_initialize \o Heater_initialize(c)
    \o Led_initialize \o Motors_initialize
    \o <<<<"callback", FAN_TIMER, "wait">>, SetUp("eeprom"), SetUp("serial")>>
    \o LastSteps

\* main() for every configuration checked, computed once.
Program == [c \in [source : SOURCES, psadiv : PSADIVS, psbcdiv : PSBCDIVS] |->
                main(c)]

----------------------------------------------------------------------------
(* The state after reset.                                                  *)

Init ==
    /\ config \in [source : SOURCES, psadiv : PSADIVS, psbcdiv : PSBCDIVS]
    /\ pc = 1
    /\ stopped = {}
    /\ osc = [on |-> {"RC2MHZ"}, ready |-> {"RC2MHZ"}]
    /\ clock = [source |-> "RC2MHZ", psadiv |-> 0, psbcdiv |-> 0]
    /\ cal = 32000000
    /\ regs = [t \in Timer |-> [r \in Register |->
                                   IF r = "PER" THEN 65535 ELSE 0]]
    /\ lost = {}
    /\ pin = [p \in Pin |-> [out |-> FALSE, level |-> LOW]]
    /\ callback = [t \in Timer |-> "none"]
    /\ flag = [t \in Timer |-> FALSE]
    /\ irq = FALSE
    /\ done = {}
    /\ running = "none"

InLoop == pc > Len(Program[config])

Op == Program[config][pc]

\* main() is at a step of this kind and no interrupt is being served.
At(kind) == running = "none" /\ ~InLoop /\ Op[1] = kind

Advance == pc' = pc + 1 /\ UNCHANGED <<config, flag, running>>

----------------------------------------------------------------------------
(* sysclk_init and the clock service.                                      *)

StopModules ==
    /\ At("stop modules")
    /\ stopped' = Module
    /\ Advance
    /\ UNCHANGED <<osc, clock, cal, regs, lost, pin, callback, irq, done>>

sysclk_set_prescalers ==
    /\ At("prescale")
    /\ clock' = [clock EXCEPT !.psadiv = config.psadiv,
                              !.psbcdiv = config.psbcdiv]
    /\ Advance
    /\ UNCHANGED <<stopped, osc, cal, regs, lost, pin, callback, irq, done>>

\* The calibration of the production row or, where that is erased, the
\* default one: either makes the oscillator run at 48 MHz.
osc_user_calibration ==
    /\ At("calibrate")
    /\ cal' = CONFIG_OSC_RC32_CAL
    /\ Advance
    /\ UNCHANGED <<stopped, osc, clock, regs, lost, pin, callback, irq, done>>

OscillatorOn ==
    /\ At("oscillator on")
    /\ osc' = [osc EXCEPT !.on = @ \cup {Op[2]}]
    /\ Advance
    /\ UNCHANGED <<stopped, clock, cal, regs, lost, pin, callback, irq, done>>

OscillatorOff ==
    /\ At("oscillator off")
    /\ osc' = [on |-> osc.on \ {Op[2]}, ready |-> osc.ready \ {Op[2]}]
    /\ Advance
    /\ UNCHANGED <<stopped, clock, cal, regs, lost, pin, callback, irq, done>>

\* osc_wait_ready loops until the oscillator is ready.
AwaitOscillator ==
    /\ At("await")
    /\ pc' = IF Op[2] \in osc.ready THEN pc + 1 ELSE pc
    /\ UNCHANGED <<config, stopped, osc, clock, cal, regs, lost, pin,
                   callback, flag, irq, done, running>>

\* External: an oscillator that is on becomes ready.
OscillatorReady ==
    /\ \E o \in osc.on \ osc.ready : osc' = [osc EXCEPT !.ready = @ \cup {o}]
    /\ UNCHANGED <<config, pc, stopped, clock, cal, regs, lost, pin, callback,
                   flag, irq, done, running>>

SetSource ==
    /\ At("source")
    /\ clock' = [clock EXCEPT !.source = Op[2]]
    /\ Advance
    /\ UNCHANGED <<stopped, osc, cal, regs, lost, pin, callback, irq, done>>

sysclk_enable_usb ==
    /\ At("usb oscillator")
    /\ osc' = [osc EXCEPT !.on = @ \cup {"RC32MHZ"}]
    /\ Advance
    /\ UNCHANGED <<stopped, clock, cal, regs, lost, pin, callback, irq, done>>

----------------------------------------------------------------------------
(* Timers, pins, callbacks.                                                *)

\* tc_enable starts the timer's clock and that of its port's extension.
tc_enable ==
    /\ At("enable")
    /\ stopped' = stopped \ (IF Op[2] \in Timer THEN {Op[2], Hires[Op[2]]}
                             ELSE {Op[2]})
    /\ Advance
    /\ UNCHANGED <<osc, clock, cal, regs, lost, pin, callback, irq, done>>

\* A write to a module that is stopped may be lost.
tc_write ==
    /\ At("write")
    /\ \E taken \in {TRUE} \cup {Op[2] \notin stopped} :
          /\ regs' = IF taken THEN [regs EXCEPT ![Op[2]][Op[3]] = Op[4]]
                     ELSE regs
          /\ lost' = IF taken THEN lost \ {<<Op[2], Op[3]>>}
                     ELSE lost \cup {<<Op[2], Op[3]>>}
    /\ Advance
    /\ UNCHANGED <<stopped, osc, clock, cal, pin, callback, irq, done>>

tc_set_overflow_interrupt_callback ==
    /\ At("callback")
    /\ callback' = [callback EXCEPT ![Op[2]] = Op[3]]
    /\ Advance
    /\ UNCHANGED <<stopped, osc, clock, cal, regs, lost, pin, irq, done>>

ioport_set_pin_dir ==
    /\ At("output")
    /\ pin' = [pin EXCEPT ![Op[2]].out = TRUE]
    /\ Advance
    /\ UNCHANGED <<stopped, osc, clock, cal, regs, lost, callback, irq, done>>

ioport_set_pin_level ==
    /\ At("level")
    /\ pin' = [pin EXCEPT ![Op[2]].level = Op[3]]
    /\ Advance
    /\ UNCHANGED <<stopped, osc, clock, cal, regs, lost, callback, irq, done>>

PartSetUp ==
    /\ At("set up")
    /\ done' = done \cup {Op[2]}
    /\ Advance
    /\ UNCHANGED <<stopped, osc, clock, cal, regs, lost, pin, callback, irq>>

cpu_irq_enable ==
    /\ At("irq")
    /\ irq' = TRUE
    /\ Advance
    /\ UNCHANGED <<stopped, osc, clock, cal, regs, lost, pin, callback, done>>

----------------------------------------------------------------------------
(* Interrupts.                                                             *)

\* External: a timer that has a clock overflows.
Overflow(t) ==
    /\ t \notin stopped
    /\ regs[t].CLKSEL # OFF
    /\ ~flag[t]
    /\ flag' = [flag EXCEPT ![t] = TRUE]
    /\ UNCHANGED <<config, pc, stopped, osc, clock, cal, regs, lost, pin,
                   callback, irq, done, running>>

\* ISR(<timer>_OVF_vect): the flag is cleared and the callback, if any, called.
Interrupt(t) ==
    /\ irq
    /\ running = "none"
    /\ flag[t]
    /\ regs[t].INTLVL # OFF
    /\ flag' = [flag EXCEPT ![t] = FALSE]
    /\ running' = IF callback[t] = "none" THEN "none" ELSE t
    /\ UNCHANGED <<config, pc, stopped, osc, clock, cal, regs, lost, pin,
                   callback, irq, done>>

Return ==
    /\ running # "none"
    /\ running' = "none"
    /\ UNCHANGED <<config, pc, stopped, osc, clock, cal, regs, lost, pin,
                   callback, flag, irq, done>>

\* Heater::isOn stops updating the temperature and allows it again.
HeaterAsked ==
    /\ regs' = [regs EXCEPT ![TEMPERATURE_TIMER].INTLVL = LO]
    /\ lost' = lost \ {<<TEMPERATURE_TIMER, "INTLVL">>}

\* The wait handler, when a second has passed: it sends "wait" and asks the
\* peripherals, which are all at their defaults here, whether they are on.
SecondPassed ==
    /\ running # "none"
    /\ callback[running] = "wait"
    /\ running' = "none"
    /\ HeaterAsked
    /\ UNCHANGED <<config, pc, stopped, osc, clock, cal, pin, callback, flag,
                   irq, done>>

----------------------------------------------------------------------------

Main ==
    \/ StopModules \/ sysclk_set_prescalers \/ osc_user_calibration
    \/ OscillatorOn \/ OscillatorOff \/ AwaitOscillator \/ SetSource
    \/ sysclk_enable_usb \/ tc_enable \/ tc_write
    \/ tc_set_overflow_interrupt_callback
    \/ ioport_set_pin_dir \/ ioport_set_pin_level \/ PartSetUp
    \/ cpu_irq_enable

Next ==
    \/ Main
    \/ OscillatorReady
    \/ \E t \in Timer : Overflow(t)
    \/ \E t \in Timer : Interrupt(t)
    \/ Return
    \/ SecondPassed

Spec == Init /\ [][Next]_vars

----------------------------------------------------------------------------
(* Properties.                                                             *)

\* An interrupt that is taken while main() still starts up finds everything
\* its handler uses set up: the overflow flags are pending since the timers
\* were started, and interrupts are on since twi_master_init (twim.c:319,
\* called by Accelerometer::initialize), before the bed is loaded, the save
\* handler is there and USB is started.  One thing is left to time: the save
\* handler, which runs from motors.cpp:560 on, only counts for 200 ms, and
\* the EEPROM write that its addresses need (main.cpp:256) comes sooner.
HandlersReady ==
    running # "none" => Needs[callback[running]] \subseteq done

\* When main() reaches its loop every timer register holds what was last
\* written to it, although all modules were stopped at first and the LED and
\* the motors' save handler share timers other parts enable. The one
\* exception is the interrupt level Heater::initialize writes before it
\* enables the timer (heater.cpp:104, heater.cpp:127).
RegistersStand ==
    InLoop => lost \subseteq {<<TEMPERATURE_TIMER, "INTLVL">>}

\* During the whole startup the heater is not switched on and the motors get
\* no current: their drivers are off whenever the reference voltage is driven
\* (motors.cpp:406-476, heater.cpp:86-104).
QuietStart ==
    /\ ~ (pin["HEATER_MODE_SELECT"].out
          /\ pin["HEATER_MODE_SELECT"].level = HEATER_ON)
    /\ ~ (/\ pin["MOTORS_ENABLE"].out
          /\ pin["MOTORS_ENABLE"].level = MOTORS_ON
          /\ \E p \in Vref : pin[p].out
          /\ regs[MOTORS_VREF_TIMER].CCEN # 0
          /\ regs[MOTORS_VREF_TIMER].CLKSEL # OFF)

\* The CPU never runs from an oscillator that is not ready, and never from
\* one that sysclk_init stops (sysclk.c:95-150).
SourceRuns == clock.source \in osc.ready

\* Once sysclk_init is done, sysclk_get_cpu_hz tells the rate the prescaler
\* and source registers give (sysclk.h:488-610).
RateKnown ==
    "fan" \in done => sysclk_get_cpu_hz(config) = CpuHz

Near(a, b) == a - b <= b \div 100 /\ b - a <= b \div 100

\* In the loop the intervals are what the comments say, within one percent:
\* a wait response each second, a saved value every 200 milliseconds, a
\* temperature every 333, with thresholds in whole overflows and 16 bit
\* periods (main.cpp:210, motors.cpp:520, heater.cpp:129).
OnTime ==
    InLoop =>
      LET hz == sysclk_get_cpu_hz(config)
          Cycles(t) == (regs[t].PER + 1) * regs[t].CLKSEL
      IN  /\ Near(((hz \div 64) \div FAN_TIMER_PERIOD) * Cycles(FAN_TIMER), CpuHz)
          /\ Near((((hz \div MOTORS_VREF_TIMER_PERIOD)
                     * MOTORS_SAVE_VALUE_MILLISECONDS) \div 1000)
                   * Cycles(MOTORS_VREF_TIMER),
                  (CpuHz \div 1000) * MOTORS_SAVE_VALUE_MILLISECONDS)
          /\ Near(Cycles(TEMPERATURE_TIMER),
                  (CpuHz \div 1000) * UPDATE_TEMPERATURE_MILLISECONDS)
=============================================================================
