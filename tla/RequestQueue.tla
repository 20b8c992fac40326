---------------------------- MODULE RequestQueue ----------------------------
(***************************************************************************)
(* The firmware's command path: the USB receive interrupt that fills the   *)
(* ring of requests and raises emergency stops, the main loop that runs,   *)
(* answers and releases them, the two USB transmit buffers, and the wait   *)
(* timer that reports idleness and turns forgotten peripherals off.        *)
(*                                                                         *)
(* One processor runs all of it.  Interrupts of the low level do not nest, *)
(* so while the receive callback runs (rxActive) nothing else here moves;  *)
(* between two steps of the main loop any enabled interrupt may run.       *)
(* Disabled USB interrupts stop both reception and transmission.           *)
(***************************************************************************)
EXTENDS Integers, FiniteSets

CONSTANTS
    REQUEST_QUEUE_SIZE,           \* slots of the ring of requests
    INACTIVITY_TIMEOUT_SECONDS,   \* idle seconds before the peripherals go off
    TX_BUFFERS,                   \* transmit space, in units of one buffer
    MAX_RESPONSE,                 \* the longest response, in the same units
    Command,                      \* the commands a host may send
    ResetCommand,                 \* those that restart the printer (M115 S628)
    NoRequest                     \* an empty slot: isParsed is false

ASSUME QueueSizeAssumption == REQUEST_QUEUE_SIZE \in Nat \ {0}
ASSUME TimeoutAssumption == INACTIVITY_TIMEOUT_SECONDS \in Nat \ {0}
ASSUME TransmitAssumption == TX_BUFFERS \in Nat \ {0} /\ MAX_RESPONSE \in Nat \ {0}
ASSUME CommandAssumption == NoRequest \notin Command /\ ResetCommand \subseteq Command

VARIABLES
    requests,                     \* the ring; NoRequest where isParsed is false
    currentProcessingRequest,     \* the main loop's slot
    currentReceivingRequest,      \* the receive callback's slot
    emergencyStopRequest,         \* 0, or 1 + the requests still to discard
    usbInterrupts,                \* USB interrupt level is not off
    rxActive,                     \* the receive callback is running
    pc,                           \* where the main loop is
    response,                     \* units of the response not yet written
    txUsed,                       \* units written and not yet transferred
    dataRunning,                  \* the CDC data interface is enabled
    waitResponses,                \* the wait timer's interrupt is on
    inactivityCounter,            \* seconds without a command
    peripheralsOn                 \* fan, LED, heater or motors not at default

ringVars == <<requests, currentProcessingRequest, currentReceivingRequest>>
stopVars == <<emergencyStopRequest, usbInterrupts>>
sendVars == <<response, txUsed>>
idleVars == <<waitResponses, inactivityCounter, peripheralsOn>>
vars == <<ringVars, stopVars, rxActive, pc, sendVars, dataRunning, idleVars>>

NO_EMERGENCY_STOP == 0
EMERGENCY_STOP_NOW == 1

Slot == 0 .. REQUEST_QUEUE_SIZE - 1

MainStep ==
    {"poll", "disableWait", "checkNow", "checkStop", "execute", "respond",
     "send", "disableUsb", "clear", "settle", "advance",
     "reset", "clearStop", "enableUsb", "acknowledge", "enableWait"}

isParsed(i) == requests[i] # NoRequest

Following(i) == IF i = REQUEST_QUEUE_SIZE - 1 THEN 0 ELSE i + 1

Queued == {i \in Slot : isParsed(i)}

Init ==
    /\ requests = [i \in Slot |-> NoRequest]
    /\ currentProcessingRequest = 0
    /\ currentReceivingRequest = 0
    /\ emergencyStopRequest = NO_EMERGENCY_STOP
    /\ usbInterrupts = TRUE
    /\ rxActive = FALSE
    /\ pc = "poll"
    /\ response = 0
    /\ txUsed = 0
    /\ dataRunning = FALSE
    /\ waitResponses = TRUE
    /\ inactivityCounter = 0
    /\ peripheralsOn = FALSE

-----------------------------------------------------------------------------
(* The USB interrupts.                                                     *)

UsbInterrupt == usbInterrupts /\ ~rxActive

\* A packet starts the receive callback, which then goes through its lines.
BeginPacket ==
    /\ UsbInterrupt
    /\ dataRunning
    /\ rxActive' = TRUE
    /\ UNCHANGED <<ringVars, stopVars, pc, sendVars, dataRunning, idleVars>>

\* A line that is not a stop takes the receiving slot, or is dropped without a
\* word when that slot is still occupied.
ReceiveCommand(c) ==
    /\ rxActive
    /\ IF isParsed(currentReceivingRequest)
         THEN UNCHANGED ringVars
         ELSE /\ requests' = [requests EXCEPT ![currentReceivingRequest] = c]
              /\ currentReceivingRequest' = Following(currentReceivingRequest)
              /\ UNCHANGED currentProcessingRequest
    /\ UNCHANGED <<stopVars, rxActive, pc, sendVars, dataRunning, idleVars>>

\* Faulty: the stop's value is derived from a wrong count of the requests.
MiscountedStop(value) ==
    /\ rxActive
    /\ usbInterrupts' = FALSE
    /\ emergencyStopRequest' = value
    /\ UNCHANGED <<ringVars, rxActive, pc, sendVars, dataRunning, idleVars>>

\* Faulty: every slot is counted, occupied or not.
StopCountingAllSlots == MiscountedStop(EMERGENCY_STOP_NOW + REQUEST_QUEUE_SIZE)

\* Faulty: the stop itself is not counted.
StopCountingOnlyRequests == MiscountedStop(Cardinality(Queued))

\* M0, M1 or M112: silence USB and count the requests that came before.
ReceiveStop ==
    /\ rxActive
    /\ usbInterrupts' = FALSE
    /\ emergencyStopRequest' = EMERGENCY_STOP_NOW + Cardinality(Queued)
    /\ UNCHANGED <<ringVars, rxActive, pc, sendVars, dataRunning, idleVars>>

EndPacket ==
    /\ rxActive
    /\ rxActive' = FALSE
    /\ UNCHANGED <<ringVars, stopVars, pc, sendVars, dataRunning, idleVars>>

\* The host has read a transmit buffer, which becomes free.
TransferComplete ==
    /\ UsbInterrupt
    /\ dataRunning
    /\ txUsed > 0
    /\ txUsed' = txUsed - 1
    /\ UNCHANGED <<ringVars, stopVars, rxActive, pc, response, dataRunning, idleVars>>

\* Enumeration enables the data interface with empty transmit buffers.
DataEnable ==
    /\ UsbInterrupt
    /\ ~dataRunning
    /\ dataRunning' = TRUE
    /\ txUsed' = 0
    /\ UNCHANGED <<ringVars, stopVars, rxActive, pc, response, idleVars>>

\* Losing the host detaches and attaches the device; nothing queued is lost.
cdcDisconnectCallback ==
    /\ UsbInterrupt
    /\ dataRunning
    /\ dataRunning' = FALSE
    /\ UNCHANGED <<ringVars, stopVars, rxActive, pc, sendVars, idleVars>>

-----------------------------------------------------------------------------
(* The wait timer's interrupt, once a second while the main loop is idle.  *)

\* sendDataToUsb of a short message with checkBufferSize: all of it or nothing.
WithMessage(used) == IF used < TX_BUFFERS THEN used + 1 ELSE used

\* Faulty: the timer gives up when the host does not read its messages.
WaitTimerWhenRoom ==
    /\ waitResponses
    /\ ~rxActive
    /\ txUsed < TX_BUFFERS
    /\ IF peripheralsOn /\ inactivityCounter + 1 >= INACTIVITY_TIMEOUT_SECONDS
         THEN inactivityCounter' = 0 /\ peripheralsOn' = FALSE
         ELSE /\ inactivityCounter' = IF peripheralsOn THEN inactivityCounter + 1 ELSE 0
              /\ UNCHANGED peripheralsOn
    /\ txUsed' = txUsed + 1
    /\ UNCHANGED <<ringVars, stopVars, rxActive, pc, response, dataRunning, waitResponses>>

WaitTimer ==
    /\ waitResponses
    /\ ~rxActive
    /\ IF peripheralsOn /\ inactivityCounter + 1 >= INACTIVITY_TIMEOUT_SECONDS
         THEN /\ inactivityCounter' = 0
              /\ peripheralsOn' = FALSE
              /\ txUsed' = WithMessage(WithMessage(txUsed))
         ELSE /\ inactivityCounter' = IF peripheralsOn THEN inactivityCounter + 1 ELSE 0
              /\ txUsed' = WithMessage(txUsed)
              /\ UNCHANGED peripheralsOn
    /\ UNCHANGED <<ringVars, stopVars, rxActive, pc, response, dataRunning, waitResponses>>

-----------------------------------------------------------------------------
(* The main loop.  Its steps are cut where an interrupt makes a difference. *)

At(here, there) ==
    /\ ~rxActive
    /\ pc = here
    /\ pc' = there

Poll ==
    /\ isParsed(currentProcessingRequest) \/ emergencyStopRequest = EMERGENCY_STOP_NOW
    /\ At("poll", "disableWait")
    /\ UNCHANGED <<ringVars, stopVars, rxActive, sendVars, dataRunning, idleVars>>

\* Faulty: the wait timer keeps running.
KeepSendingWaitResponses ==
    /\ At("disableWait", "checkNow")
    /\ UNCHANGED <<ringVars, stopVars, rxActive, sendVars, dataRunning, idleVars>>

disableSendingWaitResponses ==
    /\ At("disableWait", "checkNow")
    /\ waitResponses' = FALSE
    /\ UNCHANGED <<ringVars, stopVars, rxActive, sendVars, dataRunning,
                   inactivityCounter, peripheralsOn>>

CheckStopNow ==
    /\ At("checkNow", IF emergencyStopRequest # EMERGENCY_STOP_NOW THEN "checkStop" ELSE "reset")
    /\ UNCHANGED <<ringVars, stopVars, rxActive, sendVars, dataRunning, idleVars>>

\* A request behind a stop is released without being run.
CheckStop ==
    /\ At("checkStop", IF emergencyStopRequest = NO_EMERGENCY_STOP THEN "execute" ELSE "disableUsb")
    /\ UNCHANGED <<ringVars, stopVars, rxActive, sendVars, dataRunning, idleVars>>

\* The command runs and its response is composed.
Execute ==
    /\ At("execute", "respond")
    /\ requests[currentProcessingRequest] \notin ResetCommand
    /\ response' \in 1 .. MAX_RESPONSE
    /\ peripheralsOn' \in BOOLEAN
    /\ UNCHANGED <<ringVars, stopVars, rxActive, txUsed, dataRunning,
                   waitResponses, inactivityCounter>>

\* M115 S628 restarts the processor: every variable is as at power on.
ExecuteReset ==
    /\ ~rxActive
    /\ pc = "execute"
    /\ requests[currentProcessingRequest] \in ResetCommand
    /\ requests' = [i \in Slot |-> NoRequest]
    /\ currentProcessingRequest' = 0
    /\ currentReceivingRequest' = 0
    /\ emergencyStopRequest' = NO_EMERGENCY_STOP
    /\ usbInterrupts' = TRUE
    /\ rxActive' = FALSE
    /\ pc' = "poll"
    /\ response' = 0
    /\ txUsed' = 0
    /\ dataRunning' = FALSE
    /\ waitResponses' = TRUE
    /\ inactivityCounter' = 0
    /\ peripheralsOn' = FALSE

Respond ==
    /\ IF emergencyStopRequest = NO_EMERGENCY_STOP
         THEN At("respond", "send") /\ UNCHANGED response
         ELSE At("respond", "disableUsb") /\ response' = 0
    /\ UNCHANGED <<ringVars, stopVars, rxActive, txUsed, dataRunning, idleVars>>

\* sendDataToUsb without checkBufferSize.  It writes what fits and spins while
\* nothing does, unless the data interface is gone.
SendDataToUsb(here, there) ==
    LET room == TX_BUFFERS - txUsed
    IN  /\ ~rxActive
        /\ pc = here
        /\ \/ /\ room >= response
              /\ txUsed' = txUsed + response
              /\ response' = 0
              /\ pc' = there
           \/ /\ 0 < room /\ room < response
              /\ txUsed' = TX_BUFFERS
              /\ response' = response - room
              /\ UNCHANGED pc
           \/ /\ room = 0
              /\ ~dataRunning
              /\ response' = 0
              /\ pc' = there
              /\ UNCHANGED txUsed
        /\ UNCHANGED <<ringVars, stopVars, rxActive, dataRunning, idleVars>>

Send == SendDataToUsb("send", "disableUsb")

\* Faulty: the request is released with the USB interrupts on.
KeepUsbInterrupts ==
    /\ At("disableUsb", "clear")
    /\ UNCHANGED <<ringVars, stopVars, rxActive, sendVars, dataRunning, idleVars>>

disableUsbInterrupts ==
    /\ At("disableUsb", "clear")
    /\ usbInterrupts' = FALSE
    /\ UNCHANGED <<ringVars, emergencyStopRequest, rxActive, sendVars, dataRunning, idleVars>>

ClearRequest ==
    /\ At("clear", "settle")
    /\ requests' = [requests EXCEPT ![currentProcessingRequest] = NoRequest]
    /\ UNCHANGED <<currentProcessingRequest, currentReceivingRequest, stopVars,
                   rxActive, sendVars, dataRunning, idleVars>>

SettleStop ==
    /\ At("settle", "advance")
    /\ IF emergencyStopRequest = NO_EMERGENCY_STOP
         THEN usbInterrupts' = TRUE /\ UNCHANGED emergencyStopRequest
         ELSE emergencyStopRequest' = emergencyStopRequest - 1 /\ UNCHANGED usbInterrupts
    /\ UNCHANGED <<ringVars, rxActive, sendVars, dataRunning, idleVars>>

Advance ==
    /\ At("advance", "enableWait")
    /\ currentProcessingRequest' = Following(currentProcessingRequest)
    /\ UNCHANGED <<requests, currentReceivingRequest, stopVars, rxActive, sendVars,
                   dataRunning, idleVars>>

resetPeripherals ==
    /\ At("reset", "clearStop")
    /\ peripheralsOn' = FALSE
    /\ UNCHANGED <<ringVars, stopVars, rxActive, sendVars, dataRunning,
                   waitResponses, inactivityCounter>>

ClearStop ==
    /\ At("clearStop", "enableUsb")
    /\ emergencyStopRequest' = NO_EMERGENCY_STOP
    /\ UNCHANGED <<ringVars, usbInterrupts, rxActive, sendVars, dataRunning, idleVars>>

\* The confirmation that follows is one short response.
enableUsbInterrupts ==
    /\ At("enableUsb", "acknowledge")
    /\ usbInterrupts' = TRUE
    /\ response' = 1
    /\ UNCHANGED <<ringVars, emergencyStopRequest, rxActive, txUsed, dataRunning, idleVars>>

Acknowledge == SendDataToUsb("acknowledge", "enableWait")

enableSendingWaitResponses ==
    /\ At("enableWait", "poll")
    /\ inactivityCounter' = 0
    /\ waitResponses' = TRUE
    /\ UNCHANGED <<ringVars, stopVars, rxActive, sendVars, dataRunning, peripheralsOn>>

MainLoop ==
    \/ Poll
    \/ disableSendingWaitResponses
    \/ CheckStopNow
    \/ CheckStop
    \/ Execute
    \/ ExecuteReset
    \/ Respond
    \/ Send
    \/ disableUsbInterrupts
    \/ ClearRequest
    \/ SettleStop
    \/ Advance
    \/ resetPeripherals
    \/ ClearStop
    \/ enableUsbInterrupts
    \/ Acknowledge
    \/ enableSendingWaitResponses

Next ==
    \/ BeginPacket
    \/ \E c \in Command : ReceiveCommand(c)
    \/ ReceiveStop
    \/ EndPacket
    \/ TransferComplete
    \/ DataEnable
    \/ cdcDisconnectCallback
    \/ WaitTimer
    \/ MainLoop

Spec == Init /\ [][Next]_vars

(***************************************************************************)
(* Fairness.  A packet has finitely many lines, so its callback ends.  The *)
(* processor runs an instruction of the main loop between two interrupts,  *)
(* and an interrupt that is due stays pending while it is disabled, so the *)
(* main loop and the wait timer run whenever they can again and again; so  *)
(* does the transmit interrupt, but only while a host reads.  Nothing      *)
(* obliges the host to send, to connect or to disconnect.                  *)
(***************************************************************************)
FirmwareFairness ==
    /\ WF_vars(EndPacket)
    /\ SF_vars(MainLoop)
    /\ SF_vars(WaitTimer)

HostReads == SF_vars(TransferComplete)

\* A cable that is pulled is noticed only when it is plugged in again (main.cpp,
\* the comment on cdcDisconnectCallback): until then nothing is transferred.
UnreadSpec == Spec /\ FirmwareFairness

FairSpec == UnreadSpec /\ HostReads

-----------------------------------------------------------------------------
(* What is promised.                                                       *)

\* The shape of the state, with the ranges the code's counters stay in.
TypeOK ==
    /\ requests \in [Slot -> Command \cup {NoRequest}]
    /\ currentProcessingRequest \in Slot
    /\ currentReceivingRequest \in Slot
    /\ emergencyStopRequest \in 0 .. REQUEST_QUEUE_SIZE + 1
    /\ usbInterrupts \in BOOLEAN
    /\ rxActive \in BOOLEAN
    /\ pc \in MainStep
    /\ response \in 0 .. MAX_RESPONSE
    /\ txUsed \in 0 .. TX_BUFFERS
    /\ dataRunning \in BOOLEAN
    /\ waitResponses \in BOOLEAN
    /\ inactivityCounter \in 0 .. INACTIVITY_TIMEOUT_SECONDS - 1
    /\ peripheralsOn \in BOOLEAN

\* The slot of the oldest request.  Between releasing a request and advancing,
\* currentProcessingRequest lags one slot behind it.
Oldest ==
    IF pc \in {"settle", "advance"}
      THEN Following(currentProcessingRequest)
      ELSE currentProcessingRequest

\* The slot k places after i, for k up to one turn.
Ahead(i, k) ==
    IF i + k < REQUEST_QUEUE_SIZE THEN i + k ELSE i + k - REQUEST_QUEUE_SIZE

\* How many requests a pending stop still has to discard.
Doomed ==
    IF emergencyStopRequest = NO_EMERGENCY_STOP THEN 0
    ELSE IF pc = "settle" THEN emergencyStopRequest - 2
    ELSE emergencyStopRequest - 1

\* The receive callback and the main loop never share an index, yet the occupied
\* slots are always one run that starts at the oldest request and ends just
\* before currentReceivingRequest, whatever stops and drops came in between
\* (main.cpp, the ring of requests).
QueueIsRing ==
    \E n \in 0 .. REQUEST_QUEUE_SIZE :
        /\ \A k \in 0 .. REQUEST_QUEUE_SIZE - 1 : isParsed(Ahead(Oldest, k)) <=> k < n
        /\ currentReceivingRequest = Ahead(Oldest, n)

\* cdcRxNotifyCallback drops a command only when every slot is occupied, although
\* it only looks at its own.
DropsOnlyWhenFull ==
    isParsed(currentReceivingRequest) => Queued = Slot

\* A stop never waits for a request that is not there: while it still has some to
\* discard, the slot the main loop polls is occupied.  Otherwise the loop would
\* poll an empty slot for ever with the USB interrupts off.
DiscardsAreQueued ==
    pc = "poll" /\ emergencyStopRequest > EMERGENCY_STOP_NOW
        => isParsed(currentProcessingRequest)

\* The USB interrupts are off exactly while a stop is pending or the main loop is
\* in one of its two critical sections, so that no second stop can overwrite the
\* count of a first one and no path leaves the printer deaf.
DeafOnlyWhenNeeded ==
    ~usbInterrupts <=>
        \/ emergencyStopRequest # NO_EMERGENCY_STOP
        \/ pc \in {"clear", "settle", "enableUsb"}

\* The wait timer never writes to the transmit buffers, nor resets peripherals or
\* touches the heater, while the main loop is doing so.
SingleWriter ==
    waitResponses => response = 0 /\ pc \in {"poll", "disableWait"}

\* A pending stop ends only with the peripherals off: it cannot wear off by
\* discarding requests alone.
ObeyedStopTurnsOff ==
    [][emergencyStopRequest # 0 /\ emergencyStopRequest' = 0 => ~peripheralsOn']_vars

\* What the queue looks like from outside.
PhaseOf ==
    IF emergencyStopRequest # NO_EMERGENCY_STOP THEN "stopped"
    ELSE IF pc \in {"execute", "respond"} THEN "running"
    ELSE IF pc \in {"send", "disableUsb", "clear"} THEN "answered"
    ELSE "waiting"

Contents == [k \in 1 .. Cardinality(Queued) |-> requests[Ahead(Oldest, k - 1)]]

Promised ==
    INSTANCE CommandQueue WITH
        Capacity <- REQUEST_QUEUE_SIZE,
        queue <- Contents,
        phase <- PhaseOf,
        doomed <- Doomed

\* The ring with its stop counter implements the queue of CommandQueue: commands
\* run in the order they came, each is answered before it leaves unless a stop
\* discards it, a stop discards exactly the commands that came before it.
ImplementsCommandQueue == Promised!Spec

\* The main loop is inside a blocking write that does not fit, and the stop that
\* came in has turned off the interrupts that would make room.
StuckInWrite ==
    /\ emergencyStopRequest # NO_EMERGENCY_STOP
    /\ pc \in {"send", "acknowledge"}
    /\ response > TX_BUFFERS - txUsed

\* Every emergency stop is obeyed in the end, if none arrives during a response
\* that is still waiting for transmit space.
StopObeyed ==
    [](~StuckInWrite) =>
        (emergencyStopRequest # NO_EMERGENCY_STOP ~> emergencyStopRequest = NO_EMERGENCY_STOP)

\* The same without that proviso.
StopAlwaysObeyed ==
    emergencyStopRequest # NO_EMERGENCY_STOP ~> emergencyStopRequest = NO_EMERGENCY_STOP

\* If the main loop is left idle for good, the peripherals go off and stay off,
\* even if no host reads what the wait timer sends.
InactivityTurnsOff ==
    <>[](pc = "poll") => <>[](~peripheralsOn)

\* If from some time on nothing is received, the peripherals go off and stay off,
\* whatever the firmware was doing when the last packet came.
SilenceTurnsOff ==
    <>[](~rxActive) => <>[](~peripheralsOn)
=============================================================================
