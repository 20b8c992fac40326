---------------------------- MODULE ManagerWindow ----------------------------
(***************************************************************************)
(* The window of M33 Manager: the main thread with its buttons, timers,    *)
(* dialogs and event queue, the worker thread that takes tasks from a      *)
(* queue, the Printer object's status thread, and the printer.             *)
(*                                                                         *)
(* A button pushes a task together with a start and a complete callback on *)
(* three queues; the worker announces the start and the end of each task   *)
(* with an event, and the main thread runs the callback at the head of the *)
(* matching queue.  Which controls are enabled also follows the messages   *)
(* of the log: "Printer is in firmware mode" enables the movement          *)
(* controls, "Printer is in bootloader mode" the settings, whose enabling  *)
(* makes the main thread itself collect the printer's information.         *)
(*                                                                         *)
(* A dialog runs a loop of its own in which events and timers are handled  *)
(* and the window's buttons are not.  Controls that are always enabled     *)
(* together are one element of a set.                                      *)
(***************************************************************************)
EXTENDS Naturals, Sequences, FiniteSets

CONSTANTS
    CLICKS,          \* bound on the user's clicks
    PULLS,           \* bound on unpluggings
    BAD,             \* what of the printer may be invalid
    BUTTONS,         \* the buttons the user uses
    FAILS,           \* an installation of firmware may fail half way
    PATIENT,         \* the user waits until the window is at rest
    KEEPSUP,         \* a task that waits for a connected printer outlasts the handling
                     \* of its start event, which the code does not wait for
    PROMPT,          \* the status thread, which looks every 10 ms, sees a new connection
                     \* before anything follows it
    CLOSES           \* the user closes the window

\* Corrupt firmware, valid firmware that cannot be used or is merely old, and the bed.
Invalid == {"firmware", "incompatible", "outdated", "position", "orientation"}
OldFirmware == {"incompatible", "outdated"}

WindowAssumption == {CLICKS, PULLS} \subseteq Nat /\ BAD \subseteq Invalid

VARIABLES
    taskQueue, startQueue, completeQueue,
    events,          \* thread events the main thread has yet to handle
    work,            \* the worker's task, <<>> if none
    main,            \* what the main thread is doing
    modal,           \* open dialogs: what follows when each is closed
    ui,              \* the state of the window
    logQueue,
    open, plugged, mode, status,      \* the connection and the printer
    bad, flags,      \* what is invalid in the printer, and in its cached information
    clicks, pulls,
    order            \* the mode last asked for by the user, "any" if none

window == <<taskQueue, startQueue, completeQueue, events, main, modal, ui, clicks, order>>
printer == <<open, mode, status, bad, flags>>
vars == <<taskQueue, startQueue, completeQueue, events, work, main, modal, ui, logQueue,
          open, plugged, mode, status, bad, flags, clicks, pulls, order>>

Connection == {"choice", "refresh", "connection"}
Firmware == {"install", "mode", "send"}
Movement == {"move"}
Settings == {"save"}
Controls == Connection \cup Firmware \cup Movement \cup Settings
Drivers == {"drivers"}

Init ==
    /\ taskQueue = <<>> /\ startQueue = <<>> /\ completeQueue = <<>> /\ events = <<>>
    /\ work = <<>> /\ main = "idle" /\ modal = <<>> /\ logQueue = <<>>
    /\ ui = [enabled |-> Connection \cup Drivers, label |-> "Connect", text |-> "Not connected",
             modeLabel |-> "fw", allow |-> TRUE, fixing |-> FALSE, timer |-> TRUE]
    /\ open = FALSE /\ plugged = TRUE /\ mode \in {"boot", "fw"} /\ status = "Not connected"
    /\ bad \in SUBSET BAD /\ flags = {}
    /\ clicks = 0 /\ pulls = 0 /\ order = "any"

-----------------------------------------------------------------------------
\* Window state after its controls are enabled or disabled.
Enable(u, controls) == [u EXCEPT !.enabled = @ \cup controls]
Disable(u, controls) == [u EXCEPT !.enabled = @ \ controls]

\* The printer's lock-protected pieces, as new values of <<open, status>>.
Connected == open /\ plugged
ClosedStatus == IF status = "Connected" THEN "Disconnected" ELSE status

\* isConnected closes a connection that broke.
Looked == open' = Connected /\ status' = IF open /\ ~plugged THEN ClosedStatus ELSE status

\* Under the lock of the queues; savePrinterSetting alone does without the lock,
\* and what its race with the worker could do to a queue is left out.
Push(kinds) ==
    /\ taskQueue' = taskQueue \o kinds
    /\ startQueue' = startQueue \o kinds
    /\ completeQueue' = completeQueue \o kinds

QuietWindow == taskQueue = <<>> /\ events = <<>> /\ work = <<>> /\ main = "idle" /\ modal = <<>> /\ logQueue = <<>>
\* The status thread, every 10 ms, has seen the connection.
StatusKnown == open /\ plugged => status = "Connected"

Settled == PROMPT => StatusKnown

\* The window, the status thread and the status timer have nothing to change.
AtRest ==
    /\ QuietWindow
    /\ ui.timer => ui.text = status
    /\ open => plugged /\ status = "Connected"

-----------------------------------------------------------------------------
\* Thread start callbacks.
StartedConnect(u) == [Disable(u, Connection) EXCEPT !.timer = FALSE, !.text = "busy", !.allow = FALSE]
StartedDisconnect(u) == [u EXCEPT !.timer = FALSE]
StartedSwitch(u) == Disable(u, Controls)
StartedInstall(u) == [Disable(u, Controls) EXCEPT !.timer = FALSE, !.text = "busy", !.allow = FALSE]
StartedRefresh(u) == Disable(u, Connection)
StartedSave(u) == Disable(u, Settings)
StartedDrivers(u) == Disable(u, Drivers)
StartedFixing(u) == [Disable(u, Controls) EXCEPT !.timer = FALSE, !.text = "busy", !.fixing = TRUE]

Switches == {"mode fw", "mode boot", "send fw", "send boot"}

Started(kind, u) ==
    CASE kind = "connect" -> StartedConnect(u)
      [] kind = "disconnect" -> StartedDisconnect(u)
      [] kind \in Switches -> StartedSwitch(u)
      [] kind = "install" -> StartedInstall(u)
      [] kind = "refresh" -> StartedRefresh(u)
      [] kind = "save" -> StartedSave(u)
      [] kind = "drivers" -> StartedDrivers(u)
      [] kind \in {"position", "orientation"} -> StartedFixing(u)
      [] OTHER -> u

\* threadTaskStart
ThreadTaskStart ==
    /\ Settled /\ main = "idle" /\ events # <<>> /\ Head(events) = "start"
    /\ events' = Tail(events)
    /\ ui' = Started(Head(startQueue), ui)
    /\ startQueue' = Tail(startQueue)
    /\ UNCHANGED <<taskQueue, completeQueue, work, main, modal, logQueue, printer, plugged, clicks, pulls, order>>

\* What the complete callbacks do to the window.
CompletedConnect(u) ==
    IF Connected
    THEN [Enable(u, Firmware \cup {"connection"}) EXCEPT !.allow = TRUE, !.timer = TRUE, !.label = "Disconnect"]
    ELSE [Enable(u, Connection) EXCEPT !.allow = TRUE, !.timer = TRUE]

CompletedDisconnect(u) ==
    [Enable(Disable(u, Firmware \cup Movement \cup Settings), Connection) EXCEPT
        !.label = "Connect", !.timer = TRUE]

CompletedSwitch(u) == Enable(u, IF Connected THEN Firmware \cup {"connection"} ELSE Connection)

CompletedInstall(u) == [CompletedSwitch(u) EXCEPT !.allow = TRUE, !.timer = TRUE]

CompletedRefresh(u) == Enable(u, Connection)

CompletedSave(u) == IF Connected THEN Enable(u, Settings) ELSE u

CompletedDrivers(u) == Enable(u, Drivers)

\* The end of a calibration of the wizard.
CompletedFixing(u) ==
    [Enable(u, IF Connected THEN Firmware \cup Movement \cup {"connection"} ELSE Connection)
        EXCEPT !.fixing = FALSE, !.timer = TRUE]

\* The first half of it: the printer is in firmware mode now.
CompletedStage(u) ==
    IF Connected THEN [Disable(u, Controls) EXCEPT !.fixing = TRUE, !.timer = FALSE]
    ELSE [u EXCEPT !.fixing = FALSE, !.timer = TRUE]

Completed(kind, u) ==
    CASE kind = "connect" -> CompletedConnect(u)
      [] kind = "disconnect" -> CompletedDisconnect(u)
      [] kind \in Switches -> CompletedSwitch(u)
      [] kind = "install" -> CompletedInstall(u)
      [] kind = "refresh" -> CompletedRefresh(u)
      [] kind = "save" -> CompletedSave(u)
      [] kind = "drivers" -> CompletedDrivers(u)
      [] kind \in {"position", "orientation"} -> CompletedStage(u)
      [] kind \in {"position done", "orientation done"} -> CompletedFixing(u)
      [] kind = "installed" -> [u EXCEPT !.fixing = FALSE]
      [] OTHER -> u

\* The tasks a complete callback appends.
Followed(kind) ==
    CASE ~Connected -> <<>>
      [] kind = "connect" -> <<"check">>
      [] kind = "position" -> <<"calibrate position", "position done">>
      [] kind = "orientation" -> <<"calibrate orientation", "orientation done">>
      [] OTHER -> <<>>

\* The dialog it opens: what is to follow when that is closed.
Opened(kind) ==
    CASE kind = "install" /\ ~ui.fixing -> <<"check">>
      [] kind \in {"mode fw", "mode boot", "drivers"} -> <<"nothing">>
      [] kind \in {"check", "save", "installed", "position", "orientation", "position done", "orientation done"} /\ ~Connected -> <<"nothing">>
      [] kind = "installed" -> <<"position dialog">>
      [] kind = "position done" -> <<"orientation dialog">>
      [] kind = "orientation done" -> <<"nothing">>
      [] OTHER -> <<>>

\* What it logs.
Logged(kind) ==
    IF Connected /\ kind \in {"connect", "install", "orientation done"} THEN <<mode>> ELSE <<>>

\* The main thread collects the printer's information in it.
Collects(kind) == Connected /\ kind \in {"save", "check"}

\* threadTaskComplete
ThreadTaskComplete ==
    /\ Settled /\ main = "idle" /\ events # <<>> /\ Head(events) = "complete"
    /\ LET kind == Head(completeQueue) IN
       /\ ui' = Completed(kind, ui)
       /\ taskQueue' = taskQueue \o Followed(kind)
       /\ startQueue' = startQueue \o Followed(kind)
       /\ completeQueue' = Tail(completeQueue) \o Followed(kind)
       /\ modal' = Opened(kind) \o modal
       /\ logQueue' = logQueue \o Logged(kind)
       /\ main' = IF Collects(kind) THEN "collect, " \o kind ELSE main
    /\ events' = Tail(events)
    /\ Looked
    /\ UNCHANGED <<work, plugged, mode, bad, flags, clicks, pulls, order>>

-----------------------------------------------------------------------------
\* The dialogs of checkInvalidValues.
OrientationDialog ==
    IF "orientation" \in flags THEN <<"orientation?">> ELSE <<>>
PositionDialog ==
    IF "position" \in flags THEN <<"position?">> ELSE OrientationDialog
\* Firmware that is old is asked about only when something is invalid.
FirmwareDialog(invalid) ==
    CASE invalid \subseteq OldFirmware -> <<>>
      [] "firmware" \in invalid -> <<"firmware?">>
      [] invalid \cap OldFirmware # {} -> <<"old?">>
      [] "position" \in invalid -> <<"position?">>
      [] OTHER -> <<"orientation?">>
\* The checking is over without a further dialog: the mode is logged.
DoneChecking(dialog) == IF dialog = <<>> THEN <<mode>> ELSE <<>>

\* collectPrinterInformation by the main thread: the printer is put into
\* bootloader mode, and its settings are read.
Collect ==
    /\ Settled /\ main \in {"collect, save", "collect, check", "collect, log"}
    /\ IF Connected /\ mode = "fw" THEN status' = ClosedStatus /\ UNCHANGED open ELSE Looked
    /\ mode' = IF Connected THEN "boot" ELSE mode
    /\ flags' = IF Connected THEN bad ELSE flags
    /\ LET dialog == CASE main = "collect, save" -> <<"nothing">>
                       [] main = "collect, check" -> FirmwareDialog(flags')
                       [] OTHER -> <<>>
           switched == IF Connected /\ mode = "fw" THEN <<"switching", "boot">> ELSE <<>>
       IN  modal' = dialog \o modal /\ logQueue' = logQueue \o switched
    /\ main' = IF main = "collect, log" THEN "log" ELSE "idle"
    /\ UNCHANGED <<taskQueue, startQueue, completeQueue, events, work, ui, plugged, bad, clicks, pulls, order>>

Questions == {"firmware?", "old?", "position?", "orientation?"}

\* The user says yes to the dialog in front.
Accept ==
    /\ Settled /\ main = "idle" /\ modal # <<>> /\ Head(modal) \in Questions
    /\ modal' = Tail(modal)
    /\ CASE Head(modal) \in {"firmware?", "old?"} ->
              /\ Push(<<"install", "installed">>)
              /\ ui' = [Disable(ui, {"install"}) EXCEPT !.fixing = TRUE]
         [] Head(modal) = "position?" -> Push(<<"position">>) /\ UNCHANGED ui
         [] OTHER -> Push(<<"orientation">>) /\ UNCHANGED ui
    /\ UNCHANGED <<events, work, main, logQueue, printer, plugged, clicks, pulls, order>>

\* Without firmware that can be used the printer is disconnected.
Disconnects == Head(modal) = "firmware?" \/ (Head(modal) = "old?" /\ "incompatible" \in flags)

\* The other answers lead on to the next dialog.
Decline ==
    /\ Settled /\ main = "idle" /\ modal # <<>> /\ Head(modal) \in Questions
    /\ LET dialog == CASE Disconnects -> <<>>
                       [] Head(modal) = "old?" -> PositionDialog
                       [] Head(modal) = "position?" -> OrientationDialog
                       [] OTHER -> <<>>
       IN  /\ modal' = dialog \o Tail(modal)
           /\ logQueue' = logQueue \o IF Disconnects THEN <<>> ELSE DoneChecking(dialog)
    /\ IF Disconnects THEN open' = FALSE /\ status' = ClosedStatus
       ELSE UNCHANGED <<open, status>>
    /\ UNCHANGED <<taskQueue, startQueue, completeQueue, events, work, main, ui, plugged, mode, bad, flags, clicks, pulls, order>>

\* The user closes a message: what the callback does after it.
Dismiss ==
    /\ Settled /\ main = "idle" /\ modal # <<>> /\ Head(modal) \in {"nothing", "check", "position dialog", "orientation dialog"}
    /\ LET dialog == CASE Head(modal) = "position dialog" -> PositionDialog
                       [] Head(modal) = "orientation dialog" -> OrientationDialog
                       [] OTHER -> <<>>
       IN  /\ modal' = dialog \o Tail(modal)
           /\ logQueue' = logQueue \o IF Head(modal) \in {"nothing", "check"} THEN <<>> ELSE DoneChecking(dialog)
    /\ IF Head(modal) = "check" THEN Looked /\ Push(IF Connected THEN <<"check">> ELSE <<>>)
       ELSE UNCHANGED <<open, status, taskQueue, startQueue, completeQueue>>
    /\ UNCHANGED <<events, work, main, ui, plugged, mode, bad, flags, clicks, pulls, order>>

-----------------------------------------------------------------------------
\* updateLog, the log timer: the queue is emptied message by message.
UpdateLog ==
    /\ Settled /\ main = "idle" /\ logQueue # <<>>
    /\ main' = "log"
    /\ UNCHANGED <<taskQueue, startQueue, completeQueue, events, work, modal, ui, logQueue, printer, plugged, clicks, pulls, order>>

\* Printer is in bootloader mode
ShownBoot(u) ==
    IF u.allow THEN [Enable(Disable(u, Movement), Settings) EXCEPT !.modeLabel = "fw"]
    ELSE [u EXCEPT !.modeLabel = "fw"]

\* Faulty: only the button's label changes.
ShownFirmwareLabel(u) == [u EXCEPT !.modeLabel = "boot"]

\* Printer is in firmware mode
ShownFirmware(u) ==
    IF u.allow THEN [Enable(Disable(u, Settings), Movement) EXCEPT !.modeLabel = "boot"]
    ELSE [u EXCEPT !.modeLabel = "boot"]

Shown(message, u) ==
    CASE u.fixing -> u
      [] message = "switching" -> Disable(u, Movement \cup Settings)
      [] message = "fw" -> ShownFirmware(u)
      [] message = "boot" -> ShownBoot(u)
      [] message = "gone" -> IF u.allow THEN Disable(u, Movement \cup Settings) ELSE u

LogMessage ==
    /\ Settled /\ main = "log"
    /\ IF logQueue = <<>> THEN main' = "idle" /\ UNCHANGED <<ui, logQueue>>
       ELSE /\ ui' = Shown(Head(logQueue), ui)
            /\ logQueue' = Tail(logQueue)
            /\ main' = IF Head(logQueue) = "boot" /\ ui.allow /\ ~ui.fixing THEN "collect, log" ELSE main
    /\ UNCHANGED <<taskQueue, startQueue, completeQueue, events, work, modal, printer, plugged, clicks, pulls, order>>

JustDisconnected(u) == status = "Disconnected" /\ (u.text # status \/ u.label = "Disconnect")

\* updateStatus, the status timer.
UpdateStatus ==
    /\ Settled /\ main = "idle" /\ ui.timer
    /\ IF status = "Connected"
       THEN /\ ui' = [Enable(Disable(ui, Connection), {"connection"}) EXCEPT !.label = "Disconnect", !.text = status]
            /\ UNCHANGED logQueue
       ELSE IF JustDisconnected(ui)
       THEN /\ ui' = [Enable(Disable(ui, Controls), Connection) EXCEPT !.label = "Connect", !.text = status]
            /\ logQueue' = Append(logQueue, "gone")
       ELSE ui' = [ui EXCEPT !.text = status] /\ UNCHANGED logQueue
    /\ UNCHANGED <<taskQueue, startQueue, completeQueue, events, work, main, modal, printer, plugged, clicks, pulls, order>>

-----------------------------------------------------------------------------
\* The worker: Entry.
TakeTask ==
    /\ Settled /\ work = <<>> /\ taskQueue # <<>> /\ main # "closing" /\ main # "closed"
    /\ work' = <<Head(taskQueue)>>
    /\ taskQueue' = Tail(taskQueue)
    /\ events' = Append(events, "start")
    /\ UNCHANGED <<startQueue, completeQueue, main, modal, ui, logQueue, printer, plugged, clicks, pulls, order>>

\* Switching the mode: the printer reconnects and says its mode.  On the way
\* disconnect has changed the status.
SwitchTo(m) ==
    IF Connected
    THEN /\ mode' = m
         /\ logQueue' = logQueue \o IF mode = m THEN <<>> ELSE <<"switching", m>>
         /\ status' = IF mode = m THEN status ELSE ClosedStatus
         /\ UNCHANGED open
    ELSE Looked /\ UNCHANGED <<mode, logQueue>>

\* printer.connect
ConnectPrinter ==
    IF plugged
    THEN /\ open' = TRUE /\ mode' = "boot" /\ flags' = bad
         /\ status' = IF status = "Connected" THEN "Reconnecting" ELSE "Connecting"
         /\ logQueue' = logQueue \o IF mode = "fw" THEN <<"fw", "switching", "boot">> ELSE <<"boot">>
    ELSE open' = FALSE /\ status' = "No devices found" /\ UNCHANGED <<mode, flags, logQueue>>

DisconnectPrinter == open' = FALSE /\ status' = ClosedStatus /\ UNCHANGED <<mode, bad, flags, logQueue>>

\* The drivers are unpacked and installed, the ports listed, or nothing is left to do.
NothingOfPrinter == UNCHANGED <<open, mode, status, bad, flags, logQueue>>

\* installFirmware: nothing is done with a file that cannot be used.  Else the
\* printer is put into bootloader mode; an installation that succeeds refreshes
\* the information, one that fails may leave the firmware corrupt.
InstallFirmware ==
    \/ NothingOfPrinter
    \/ /\ SwitchTo("boot")
       /\ bad' = IF Connected THEN bad \ (OldFirmware \cup {"firmware"}) ELSE bad
       /\ flags' = IF Connected THEN bad' ELSE flags
    \/ /\ FAILS /\ Connected /\ SwitchTo("boot")
       /\ bad' \in {bad, (bad \ OldFirmware) \cup {"firmware"}}
       /\ UNCHANGED flags

Calibrate(what) ==
    /\ Looked
    /\ bad' = IF Connected THEN bad \ {what} ELSE bad
    /\ UNCHANGED <<mode, flags, logQueue>>

\* A command is sent and its answer waited for while the printer is there.
SendCommand == Looked /\ UNCHANGED <<mode, bad, flags, logQueue>>

Performed(kind) ==
    CASE kind = "connect" -> ConnectPrinter /\ UNCHANGED bad
      [] kind = "disconnect" -> DisconnectPrinter
      [] kind \in {"mode fw", "send fw", "position", "orientation"} -> SwitchTo("fw") /\ UNCHANGED <<bad, flags>>
      [] kind \in {"mode boot", "send boot", "check"} -> SwitchTo("boot") /\ UNCHANGED <<bad, flags>>
      [] kind = "install" -> InstallFirmware
      [] kind = "calibrate position" -> Calibrate("position")
      [] kind = "calibrate orientation" -> Calibrate("orientation")
      [] kind \in {"drivers", "refresh", "installed", "position done", "orientation done"} ->
            NothingOfPrinter
      [] OTHER -> SendCommand

\* The tasks in which messages are exchanged with the printer.
Lasting(kind) ==
    /\ Connected
    /\ kind \notin {"disconnect", "refresh", "drivers", "installed", "position done", "orientation done"}

PerformTask ==
    /\ Settled /\ work # <<>>
    /\ KEEPSUP /\ Lasting(Head(work)) => events = <<>> \/ main = "closing"
    /\ Performed(Head(work))
    /\ work' = <<>>
    /\ events' = Append(events, "complete")
    /\ UNCHANGED <<taskQueue, startQueue, completeQueue, main, modal, ui, plugged, clicks, pulls, order>>

\* The status thread of the Printer object.
StatusThread ==
    /\ open
    /\ IF plugged THEN status' = "Connected" /\ UNCHANGED open ELSE Looked
    /\ UNCHANGED <<window, work, logQueue, plugged, mode, bad, flags, pulls>>

\* On Windows the window is told that the printer's device is gone.
DeviceRemoved ==
    /\ Settled /\ main = "idle" /\ open /\ ~plugged
    /\ open' = FALSE /\ status' = ClosedStatus
    /\ UNCHANGED <<window, work, logQueue, plugged, mode, bad, flags, pulls>>

Unplug ==
    /\ Settled /\ plugged /\ pulls < PULLS
    /\ plugged' = FALSE /\ pulls' = pulls + 1
    /\ UNCHANGED <<window, work, logQueue, printer>>

Plug ==
    /\ ~plugged /\ ~open
    /\ plugged' = TRUE /\ mode' = "boot"
    /\ UNCHANGED <<window, work, logQueue, open, status, bad, flags, pulls>>

-----------------------------------------------------------------------------
Pushed(kinds) == Push(kinds)

\* The user clicks an enabled button.
Clicked(button) ==
    /\ Settled /\ main = "idle" /\ modal = <<>> /\ clicks < CLICKS /\ button \in ui.enabled \cap BUTTONS
    /\ PATIENT => AtRest
    /\ clicks' = clicks + 1
    /\ UNCHANGED <<events, work, main, modal, logQueue, printer, plugged, pulls>>

ChangePrinterConnection ==
    /\ Clicked("connection")
    /\ ui' = Disable(ui, {"connection"})
    /\ Pushed(IF ui.label = "Connect" THEN <<"connect">> ELSE <<"disconnect">>)
    /\ order' = "any"

RefreshSerialPorts ==
    /\ Clicked("refresh")
    /\ ui' = Disable(ui, {"refresh"})
    /\ Pushed(<<"refresh">>) /\ UNCHANGED order

SwitchToMode ==
    /\ Clicked("mode")
    /\ ui' = Disable(ui, {"mode"})
    /\ Pushed(IF ui.modeLabel = "fw" THEN <<"mode fw">> ELSE <<"mode boot">>)
    /\ order' = ui.modeLabel

Install ==
    /\ Clicked("install")
    /\ ui' = Disable(ui, {"install"})
    /\ Pushed(<<"install">>) /\ order' = "any"

\* A plain command, or Q or M115 S628, whichever leaves the mode the printer
\* is in.
SendCommandManually ==
    /\ Clicked("send") /\ UNCHANGED ui
    /\ \/ Pushed(<<"command">>) /\ UNCHANGED order
       \/ /\ Pushed(IF mode = "boot" THEN <<"send fw">> ELSE <<"send boot">>)
          /\ order' = IF mode = "boot" THEN "fw" ELSE "boot"

SavePrinterSetting ==
    /\ Clicked("save")
    /\ ui' = Disable(ui, {"save"})
    /\ Pushed(<<"save">>) /\ UNCHANGED order

\* The commands of a button: home, the motors, the fan and saving Z send one, a
\* movement G91 and G0, saving Z three to M3D's firmware, a calibration six or seven.
Commands(n) == [i \in 1 .. n |-> "command"]

Move ==
    /\ Clicked("move") /\ UNCHANGED <<ui, order>>
    /\ \E n \in {1, 2, 3, 6, 7} : Pushed(Commands(n))

InstallDrivers ==
    /\ Clicked("drivers") /\ UNCHANGED order
    /\ ui' = Disable(ui, Drivers)
    /\ Pushed(<<"drivers">>)

\* close: the worker ends after the task it is at.
Close ==
    /\ Settled /\ CLOSES /\ main = "idle" /\ modal = <<>>
    /\ main' = "closing"
    /\ ui' = [ui EXCEPT !.timer = FALSE]
    /\ open' = FALSE /\ status' = ClosedStatus
    /\ UNCHANGED <<taskQueue, startQueue, completeQueue, events, work, modal, logQueue, plugged, mode, bad, flags, clicks, pulls, order>>

Closed ==
    /\ main = "closing" /\ work = <<>>
    /\ main' = "closed"
    /\ UNCHANGED <<taskQueue, startQueue, completeQueue, events, work, modal, ui, logQueue, printer, plugged, clicks, pulls, order>>

Answered == Accept \/ Decline \/ Dismiss
Main == ThreadTaskStart \/ ThreadTaskComplete \/ Collect \/ UpdateLog \/ LogMessage \/ Closed
Worker == TakeTask \/ PerformTask

Next ==
    \/ Main \/ UpdateStatus \/ Answered \/ Worker \/ StatusThread \/ DeviceRemoved \/ Unplug \/ Plug \/ Close
    \/ ChangePrinterConnection \/ RefreshSerialPorts \/ SwitchToMode \/ Install
    \/ SendCommandManually \/ SavePrinterSetting \/ Move \/ InstallDrivers

Spec == Init /\ [][Next]_vars

-----------------------------------------------------------------------------
(* Once everything is quiet the user can connect or disconnect or install  *)
(* drivers, and no repair is left in progress: no sequence of clicks, unpluggings and late *)
(* events leaves the window dead.                                          *)
Usable ==
    AtRest => {"connection", "drivers"} \subseteq ui.enabled /\ ~ui.fixing /\ ui.timer /\ ui.allow

(* At rest the controls are those of the printer's state: none but the     *)
(* connection without a printer, movement in firmware mode only, settings  *)
(* in bootloader mode only.                                                *)
ControlsMatch ==
    AtRest /\ status \in {"Connected", "Disconnected"} =>
        /\ (ui.label = "Disconnect") = open
        /\ ~open => ui.enabled = Connection \cup Drivers
        /\ open => /\ Firmware \subseteq ui.enabled
                   /\ ("move" \in ui.enabled) = (mode = "fw")
                   /\ ("save" \in ui.enabled) = (mode = "boot")
=============================================================================
