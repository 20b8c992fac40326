------------------------------- MODULE Heater -------------------------------
(***************************************************************************)
(* The heater: the commands of the main loop that set and read its target  *)
(* temperature, and the temperature interrupt that measures the heater     *)
(* three times a second and turns it on or off.                            *)
(*                                                                         *)
(* The main loop turns the interrupt off while it touches the two          *)
(* temperatures, so what it does in between is one step here; a step ends  *)
(* where the interrupt may come again.  The heater itself (heat, connected) *)
(* is the environment: between two measurements it changes by at most one  *)
(* unit, up only while it is on and down only while it is off.             *)
(***************************************************************************)
EXTENDS Integers

CONSTANTS
    Target,       \* the temperatures a command may ask for, other than off
    MAX_HEAT      \* the hottest the heater can get

ASSUME TargetAssumption == MAX_HEAT \in Nat /\ Target \subseteq 1 .. MAX_HEAT

HEATER_OFF_TEMPERATURE == 0

VARIABLES
    idealTemperature,      \* the target; HEATER_OFF_TEMPERATURE when off
    actualTemperature,     \* the last measurement
    heaterOn,              \* HEATER_MODE_SELECT_PIN
    isWorking,             \* the result of the last connection test
    updating,              \* the temperature timer's interrupt is on
    emergencyStopRequest,  \* a stop waits to be obeyed
    pc,                    \* where the main loop is
    request,               \* the command it runs
    lowerNewValue,         \* setTemperature: the new target is below the old heat
    answer,                \* what the last M104 or M109 was answered
    connected,             \* environment: the connection test would succeed
    heat,                  \* environment: the heater's temperature
    changed                \* environment: heat has changed since it was measured

temperatures == <<idealTemperature, actualTemperature>>
mainVars == <<pc, request, lowerNewValue, answer>>
environment == <<connected, heat, changed>>
vars == <<temperatures, heaterOn, isWorking, updating, emergencyStopRequest, mainVars, environment>>

\* M104 and M109 with their target (0 is off), G30 and G32, which turn the heater
\* off first, commands that ask whether it is on or how hot it is (M105, a move
\* that extrudes), and EEPROM writes.
Request ==
    [name : {"M104", "M109"}, value : Target \cup {HEATER_OFF_TEMPERATURE}]
        \cup [name : {"calibrate", "ask", "eeprom"}, value : {HEATER_OFF_TEMPERATURE}]

MainStep ==
    {"idle", "guard", "guardOff", "dispatch",
     "test", "testOff", "update", "updateOff", "set", "setOff",
     "read", "readOff", "compare", "drive", "wait", "answer",
     "ask", "askOff", "eeprom", "eepromOff", "reset", "resetOff", "resume"}

Init ==
    /\ idealTemperature = HEATER_OFF_TEMPERATURE
    /\ actualTemperature = HEATER_OFF_TEMPERATURE
    /\ heaterOn = FALSE
    /\ isWorking = FALSE
    /\ updating = TRUE
    /\ emergencyStopRequest = FALSE
    /\ pc = "idle"
    /\ request = [name |-> "ask", value |-> HEATER_OFF_TEMPERATURE]
    /\ lowerNewValue = FALSE
    /\ answer = "none"
    /\ connected = TRUE
    /\ heat = 0
    /\ changed = FALSE

-----------------------------------------------------------------------------
(* The environment.                                                        *)

ChangeHeat ==
    /\ ~changed
    /\ heat' = IF heaterOn THEN heat + 1 ELSE heat - 1
    /\ heat' \in 0 .. MAX_HEAT
    /\ changed' = TRUE
    /\ UNCHANGED <<temperatures, heaterOn, isWorking, updating, emergencyStopRequest,
                   mainVars, connected>>

ChangeConnection ==
    /\ connected' = ~connected
    /\ UNCHANGED <<temperatures, heaterOn, isWorking, updating, emergencyStopRequest,
                   mainVars, heat, changed>>

\* The receive callback of the command path raises a stop.
Stop ==
    /\ ~emergencyStopRequest
    /\ emergencyStopRequest' = TRUE
    /\ UNCHANGED <<temperatures, heaterOn, isWorking, updating, mainVars, environment>>

-----------------------------------------------------------------------------
(* The interrupts.                                                         *)

\* clearTemperature up to where it lets the interrupt come again.
ClearTemperatures ==
    /\ idealTemperature' = HEATER_OFF_TEMPERATURE
    /\ actualTemperature' = HEATER_OFF_TEMPERATURE

\* Faulty: a heater that is not meant to heat is left as it is.
TickWhileHeating ==
    /\ updating
    /\ idealTemperature # HEATER_OFF_TEMPERATURE
    /\ IF connected
         THEN /\ actualTemperature' = heat
              /\ heaterOn' = (heat < idealTemperature)
              /\ UNCHANGED idealTemperature
         ELSE /\ ClearTemperatures
              /\ heaterOn' = FALSE
    /\ isWorking' = connected
    /\ changed' = FALSE
    /\ UNCHANGED <<updating, emergencyStopRequest, mainVars, connected, heat>>

\* The temperature interrupt.  The connection is only tested while heating.
Tick ==
    /\ updating
    /\ IF idealTemperature # HEATER_OFF_TEMPERATURE /\ connected
         THEN /\ actualTemperature' = heat
              /\ heaterOn' = (heat < idealTemperature)
              /\ UNCHANGED idealTemperature
         ELSE /\ ClearTemperatures
              /\ heaterOn' = FALSE
    /\ isWorking' = IF idealTemperature # HEATER_OFF_TEMPERATURE THEN connected ELSE isWorking
    /\ changed' = FALSE
    /\ UNCHANGED <<updating, emergencyStopRequest, mainVars, connected, heat>>

\* The wait timer, while the main loop is idle, asks whether the heater is on unless
\* the fan or the LED is, and resets it when nothing has happened for long enough.
WaitTimer ==
    /\ pc = "idle"
    /\ updating' = TRUE
    /\ \/ isWorking' = connected /\ connected /\ UNCHANGED <<temperatures, heaterOn>>
       \/ isWorking' \in {isWorking, connected} /\ ClearTemperatures /\ heaterOn' = FALSE
    /\ UNCHANGED <<emergencyStopRequest, mainVars, environment>>

-----------------------------------------------------------------------------
(* The main loop.                                                          *)

At(here, there) ==
    /\ pc = here
    /\ pc' = there
    /\ UNCHANGED <<request, emergencyStopRequest, environment>>

\* testConnection, or the part of it before the pin is turned off.
TestConnection(here, failed, there) ==
    /\ At(here, IF connected THEN there ELSE failed)
    /\ isWorking' = connected
    /\ updating' = TRUE
    /\ IF connected THEN UNCHANGED temperatures ELSE ClearTemperatures
    /\ UNCHANGED <<heaterOn, lowerNewValue, answer>>

\* The end of clearTemperature.
TurnOff(here, there) ==
    /\ At(here, there)
    /\ heaterOn' = FALSE
    /\ UNCHANGED <<temperatures, isWorking, updating, lowerNewValue, answer>>

\* A request is taken; if the heater was not working, its connection is tested first.
Begin(r) ==
    /\ pc = "idle"
    /\ ~emergencyStopRequest
    /\ request' = r
    /\ pc' = IF isWorking THEN "dispatch" ELSE "guard"
    /\ answer' = "none"
    /\ UNCHANGED <<temperatures, heaterOn, isWorking, updating, emergencyStopRequest,
                   lowerNewValue, environment>>

Guard == TestConnection("guard", "guardOff", "dispatch")

GuardOff == TurnOff("guardOff", "answer")

Dispatch ==
    /\ At("dispatch", IF request.name \in {"ask", "eeprom"} THEN request.name ELSE "test")
    /\ UNCHANGED <<temperatures, heaterOn, isWorking, updating, lowerNewValue, answer>>

\* getTemperature or isOn, for a command that only asks.
Ask == TestConnection("ask", "askOff", "answer")

AskOff == TurnOff("askOff", "answer")

\* updateHeaterChanges.  The calibration mode in the EEPROM may be unsupported.
UpdateHeaterChanges(here, failed, there, enableUpdatingTemperature) ==
    /\ \/ /\ At(here, failed)
          /\ ClearTemperatures
          /\ updating' = TRUE
          /\ answer' = "unsupported"
       \/ /\ At(here, there)
          /\ updating' = enableUpdatingTemperature
          /\ UNCHANGED <<temperatures, answer>>
    /\ UNCHANGED <<heaterOn, isWorking, lowerNewValue>>

Eeprom == UpdateHeaterChanges("eeprom", "eepromOff", "answer", TRUE)

EepromOff == TurnOff("eepromOff", "answer")

\* setTemperature.
Test == TestConnection("test", "testOff", "update")

TestOff == TurnOff("testOff", "update")

Update == UpdateHeaterChanges("update", "updateOff", "set", FALSE)

UpdateOff == TurnOff("updateOff", "answer")

Set ==
    /\ IF request.value # HEATER_OFF_TEMPERATURE
         THEN /\ At("set", "read")
              /\ idealTemperature' = request.value
              /\ UNCHANGED <<actualTemperature, updating>>
         ELSE /\ At("set", "setOff")
              /\ ClearTemperatures
              /\ updating' = TRUE
    /\ UNCHANGED <<heaterOn, isWorking, lowerNewValue, answer>>

SetOff == TurnOff("setOff", "answer")

Read == TestConnection("read", "readOff", "compare")

ReadOff == TurnOff("readOff", "compare")

Compare ==
    /\ At("compare", "drive")
    /\ lowerNewValue' = (request.value < actualTemperature)
    /\ UNCHANGED <<temperatures, heaterOn, isWorking, updating, answer>>

Drive ==
    /\ At("drive", IF request.name = "M109" THEN "wait" ELSE "answer")
    /\ heaterOn' = ~lowerNewValue
    /\ UNCHANGED <<temperatures, isWorking, updating, lowerNewValue, answer>>

\* One round of the wait: it ends with a stop, a heater that does not work, or
\* when the interrupt has turned the pin to the other side.
Wait ==
    /\ At("wait", IF emergencyStopRequest \/ ~isWorking \/ heaterOn = lowerNewValue
                    THEN "answer" ELSE "wait")
    /\ UNCHANGED <<temperatures, heaterOn, isWorking, updating, lowerNewValue, answer>>

\* Faulty: that the heater failed meanwhile goes unnoticed.
AnswerRegardless ==
    /\ At("answer", "idle")
    /\ answer' = IF emergencyStopRequest \/ request.name \notin {"M104", "M109"} THEN "none"
                 ELSE IF answer = "unsupported" THEN answer
                 ELSE "ok"
    /\ UNCHANGED <<temperatures, heaterOn, isWorking, updating, lowerNewValue>>

\* The response; a stop suppresses it.
Answer ==
    /\ At("answer", "idle")
    /\ answer' = IF emergencyStopRequest \/ request.name \notin {"M104", "M109"} THEN "none"
                 ELSE IF ~isWorking THEN "not working"
                 ELSE IF answer = "unsupported" THEN answer
                 ELSE "ok"
    /\ UNCHANGED <<temperatures, heaterOn, isWorking, updating, lowerNewValue>>

\* An obeyed stop: heater.reset() and then the end of the stop.
Obey ==
    /\ emergencyStopRequest
    /\ At("idle", "reset")
    /\ UNCHANGED <<temperatures, heaterOn, isWorking, updating, lowerNewValue, answer>>

\* Faulty: only the pin is reset.
ResetPinOnly ==
    /\ At("reset", "resetOff")
    /\ UNCHANGED <<temperatures, heaterOn, isWorking, updating, lowerNewValue, answer>>

Reset ==
    /\ At("reset", "resetOff")
    /\ ClearTemperatures
    /\ updating' = TRUE
    /\ UNCHANGED <<heaterOn, isWorking, lowerNewValue, answer>>

ResetOff == TurnOff("resetOff", "resume")

Resume ==
    /\ pc = "resume"
    /\ pc' = "idle"
    /\ emergencyStopRequest' = FALSE
    /\ UNCHANGED <<temperatures, heaterOn, isWorking, updating, request, lowerNewValue,
                   answer, environment>>

SetTemperature ==
    \/ Test \/ TestOff \/ Update \/ UpdateOff \/ Set \/ SetOff
    \/ Read \/ ReadOff \/ Compare \/ Drive \/ Wait

MainLoop ==
    \/ Guard \/ GuardOff \/ Dispatch \/ SetTemperature
    \/ Ask \/ AskOff \/ Eeprom \/ EepromOff
    \/ Answer \/ Obey \/ Reset \/ ResetOff \/ Resume

Next ==
    \/ ChangeHeat \/ ChangeConnection \/ Stop
    \/ Tick \/ WaitTimer
    \/ \E r \in Request : Begin(r)
    \/ MainLoop

Spec == Init /\ [][Next]_vars

\* The main loop goes on, and the timer's flag stays set until its interrupt comes.
FairSpec == Spec /\ WF_vars(MainLoop) /\ SF_vars(Tick)

-----------------------------------------------------------------------------
(* What is promised.                                                       *)

TypeOK ==
    /\ idealTemperature \in Target \cup {HEATER_OFF_TEMPERATURE}
    /\ actualTemperature \in 0 .. MAX_HEAT
    /\ heaterOn \in BOOLEAN
    /\ isWorking \in BOOLEAN
    /\ updating \in BOOLEAN
    /\ emergencyStopRequest \in BOOLEAN
    /\ pc \in MainStep
    /\ request \in Request
    /\ lowerNewValue \in BOOLEAN
    /\ answer \in {"none", "ok", "unsupported", "not working"}
    /\ connected \in BOOLEAN
    /\ heat \in 0 .. MAX_HEAT
    /\ changed \in BOOLEAN

\* No path through updateHeaterChanges and setTemperature leaves the temperature
\* interrupt off: only the few instructions that store a new target run without it.
RegulationAlive ==
    ~updating => pc \in {"set", "read"}

\* A stop ends only with the heater off and without a target: Heater::reset races
\* with the interrupt, which may turn the heater on between the two halves of it.
StopTurnsHeaterOff ==
    [][emergencyStopRequest /\ ~emergencyStopRequest' =>
         ~heaterOn' /\ idealTemperature' = HEATER_OFF_TEMPERATURE]_vars

\* The answer of this step to an M109 is ok.
Confirmed == pc = "answer" /\ pc' = "idle" /\ request.name = "M109" /\ answer' = "ok"

\* How far the heat strays from the target: one unit until the interrupt corrects it
\* and one more if setTemperature, on an older comparison, undoes the correction.
Drift == 2

\* M109 is answered ok only when the heater is as hot as asked for, up to what
\* regulation lets it lose: extrusion never starts cold, even
\* if the connection is lost and found again during the wait.
OkMeansHotEnough ==
    [][Confirmed => heat >= request.value - Drift]_vars

\* M109 is answered ok only when the heater is not hotter than asked for either.
OkMeansCoolEnough ==
    [][Confirmed /\ request.value # HEATER_OFF_TEMPERATURE => heat <= request.value + Drift]_vars

\* A heater that is on although it is hot enough, or has no target, is turned off, unless
\* a higher target arrives first:
\* setTemperature drives the pin after the interrupt has done so, with what may
\* be an old measurement or none.
OverheatingEnds ==
    heaterOn /\ heat >= idealTemperature ~> ~heaterOn \/ heat < idealTemperature
=============================================================================
