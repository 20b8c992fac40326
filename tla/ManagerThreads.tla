--------------------------- MODULE ManagerThreads ---------------------------
(***************************************************************************)
(* M33 Manager's threads and connections: its window, its command line, the *)
(* requests that threads make of one printer, and the search for a printer's *)
(* port.  The models of the parts share no variables; a behaviour is one of *)
(* a single part, and the other parts stay as they begin.                  *)
(***************************************************************************)
EXTENDS Integers, Sequences

VARIABLES
    part,           \* the part that moves
    \* ManagerWindow
    taskQueue, startQueue, completeQueue, events, work, main, modal, ui,
    logQueue, open, windowPlugged, windowMode, windowStatus, bad, flags,
    clicks, windowPulls, order,
    \* CommandLine
    args, lineI, task, port, rom, linePc, files, unpacked, linePlugged,
    connected, lineMode, believed, installed, lineLock, lineStatus, stop,
    exiting, code, ended,
    \* PrinterRequests
    requestFd, link, requestPlugged, requestStatus, stopThread, running,
    requestLock, requestPc, written, request, requestI, response, owed, line,
    asked, requestPulls, delivered, wroteAt,
    \* SerialPorts
    at, printerAt, away, availableSerialPorts, currentSerialPort,
    lastAttempted, initialSerialPort, kind, serialPort, portI, portFd,
    wanted, tried, result, changes, failures

windowVars ==
    <<taskQueue, startQueue, completeQueue, events, work, main, modal, ui,
      logQueue, open, windowPlugged, windowMode, windowStatus, bad, flags,
      clicks, windowPulls, order>>

lineVars ==
    <<args, lineI, task, port, rom, linePc, files, unpacked, linePlugged,
      connected, lineMode, believed, installed, lineLock, lineStatus, stop,
      exiting, code, ended>>

requestVars ==
    <<requestFd, link, requestPlugged, requestStatus, stopThread, running,
      requestLock, requestPc, written, request, requestI, response, owed,
      line, asked, requestPulls, delivered, wroteAt>>

portVars ==
    <<at, printerAt, away, availableSerialPorts, currentSerialPort,
      lastAttempted, initialSerialPort, kind, serialPort, portI, portFd,
      wanted, tried, result, changes, failures>>

allVars == <<part, windowVars, lineVars, requestVars, portVars>>

-----------------------------------------------------------------------------
(* The instances.                                                          *)

AllButtons == {"connection", "refresh", "mode", "install", "send", "save", "move", "drivers"}

Program == "M33 Manager"

Arguments ==
    {<<Program>>, <<Program, "-h">>, <<Program, "-d">>, <<Program, "-f">>, <<Program, "-b", "COM1">>,
     <<Program, "-i">>, <<Program, "--m3d", "COM1">>, <<Program, "-r">>,
     <<Program, "-r", "good.rom">>, <<Program, "-r", "bad.rom", "COM1">>,
     <<Program, "-r", "none.rom">>, <<Program, "-r", "deep.rom">>, <<Program, "-m">>,
     <<Program, "COM1", "-m">>}

\* A name that ends in ten digits, one that ends in nine, and one with ten
\* behind 120 other characters.
Roms ==
    [f \in {"good.rom", "bad.rom", "deep.rom"} |->
       CASE f = "good.rom" -> [last |-> 13, digits |-> 10]
         [] f = "bad.rom" -> [last |-> 13, digits |-> 9]
         [] OTHER -> [last |-> 130, digits |-> 10]]

\* A user who waits until the window is at rest, with a printer that is well
\* and may be unplugged, and with one that needs repairs and stays; one who
\* clicks during repairs; and one who closes the window.  For the first two a
\* task that waits for the printer outlasts the handling of its start event;
\* for all the status thread is prompt.
WP == INSTANCE ManagerWindow WITH
    CLICKS <- 4, PULLS <- 1, BAD <- {}, BUTTONS <- AllButtons, FAILS <- FALSE,
    PATIENT <- TRUE, KEEPSUP <- TRUE, PROMPT <- TRUE, CLOSES <- FALSE,
    plugged <- windowPlugged, mode <- windowMode, status <- windowStatus,
    pulls <- windowPulls

WC == INSTANCE ManagerWindow WITH
    CLICKS <- 3, PULLS <- 0, BAD <- {"firmware", "position", "orientation"},
    BUTTONS <- {"connection", "install", "mode"}, FAILS <- TRUE, PATIENT <- TRUE,
    KEEPSUP <- TRUE, PROMPT <- TRUE, CLOSES <- FALSE, plugged <- windowPlugged,
    mode <- windowMode, status <- windowStatus, pulls <- windowPulls

WR == INSTANCE ManagerWindow WITH
    CLICKS <- 1, PULLS <- 1, BAD <- {"firmware", "position", "orientation"},
    BUTTONS <- {"connection", "install", "mode", "send"}, FAILS <- TRUE,
    PATIENT <- FALSE, KEEPSUP <- FALSE, PROMPT <- TRUE, CLOSES <- FALSE,
    plugged <- windowPlugged, mode <- windowMode, status <- windowStatus,
    pulls <- windowPulls

WE == INSTANCE ManagerWindow WITH
    CLICKS <- 1, PULLS <- 1, BAD <- {"position", "outdated", "incompatible"},
    BUTTONS <- {"connection", "mode", "drivers"}, FAILS <- FALSE, PATIENT <- FALSE,
    KEEPSUP <- FALSE, PROMPT <- TRUE, CLOSES <- TRUE, plugged <- windowPlugged,
    mode <- windowMode, status <- windowStatus, pulls <- windowPulls

\* A command line for each option.
CL == INSTANCE CommandLine WITH
    ARGLISTS <- Arguments, ROMS <- Roms, FILES <- 2, i <- lineI, pc <- linePc,
    plugged <- linePlugged, mode <- lineMode, lock <- lineLock, status <- lineStatus

\* A thread that asks and a printer that is unplugged; two threads and a
\* user who disconnects.
PA == INSTANCE PrinterRequests WITH
    THREADS <- {"worker"}, LENGTH <- 3, WAITS <- 3, REQUESTS <- 3, LINKS <- 2,
    PULLS <- 1, TERMINATED <- FALSE, HANGUP <- "error", DISCONNECTS <- FALSE,
    fd <- requestFd, plugged <- requestPlugged, status <- requestStatus,
    lock <- requestLock, pc <- requestPc, i <- requestI, pulls <- requestPulls

PB == INSTANCE PrinterRequests WITH
    THREADS <- {"worker", "main"}, LENGTH <- 3, WAITS <- 3, REQUESTS <- 3,
    LINKS <- 2, PULLS <- 1, TERMINATED <- TRUE, HANGUP <- "nothing",
    DISCONNECTS <- TRUE, fd <- requestFd, plugged <- requestPlugged,
    status <- requestStatus, lock <- requestLock, pc <- requestPc, i <- requestI,
    pulls <- requestPulls

\* Ports that stay as they are, of which some do not open; a printer that
\* changes its mode; and ports that come and go.
SA == INSTANCE SerialPorts WITH
    PORTS <- {1, 2, 3}, PRINTERS <- {"a", "b"}, KINDS <- {"given", "auto"},
    TRIES <- 5, CHANGES <- 0, FAILURES <- 2, i <- portI, fd <- portFd

SB == INSTANCE SerialPorts WITH
    PORTS <- {1, 2, 3}, PRINTERS <- {"a", "b"}, KINDS <- {"given", "again"},
    TRIES <- 5, CHANGES <- 0, FAILURES <- 0, i <- portI, fd <- portFd

SD == INSTANCE SerialPorts WITH
    PORTS <- {1, 2, 3}, PRINTERS <- {"a", "b"}, KINDS <- {"given", "again"},
    TRIES <- 5, CHANGES <- 2, FAILURES <- 1, i <- portI, fd <- portFd

ASSUME ManagerThreadsAssumption ==
    /\ SA!PortsAssumption /\ SB!PortsAssumption /\ SD!PortsAssumption
    /\ WP!WindowAssumption /\ WC!WindowAssumption /\ WR!WindowAssumption
    /\ WE!WindowAssumption /\ CL!CommandLineAssumption
    /\ PA!RequestsAssumption /\ PB!RequestsAssumption

-----------------------------------------------------------------------------
Init ==
    /\ part \in {"patient", "patient repair", "repair", "closing", "command line", "one thread",
                "two threads", "search", "again", "changes"}
    /\ CASE part \in {"repair", "patient repair"} -> WR!Init [] part = "closing" -> WE!Init [] OTHER -> WP!Init
    /\ IF part = "two threads" THEN PB!Init ELSE PA!Init
    /\ CL!Init /\ SA!Init
    /\ part \notin {"patient", "repair", "patient repair", "closing"} => windowMode = "fw"
    /\ part # "command line" => args = <<Program>> /\ linePlugged /\ lineMode = "firmware"
    /\ part \notin {"search", "again", "changes"} => printerAt = [p \in 1 .. 3 |-> SA!None]

\* The window is closed; the process has ended, or a break left the lock
\* taken.
Finished ==
    /\ \/ part = "closing" /\ main = "closed"
       \/ part = "command line" /\ (ended # "no" \/ lineLock = exiting)
    /\ UNCHANGED allVars

Next ==
    \/ part = "patient" /\ WP!Next /\ UNCHANGED <<part, lineVars, requestVars, portVars>>
    \/ part = "patient repair" /\ WC!Next /\ UNCHANGED <<part, lineVars, requestVars, portVars>>
    \/ part = "repair" /\ WR!Next /\ UNCHANGED <<part, lineVars, requestVars, portVars>>
    \/ part = "closing" /\ WE!Next /\ UNCHANGED <<part, lineVars, requestVars, portVars>>
    \/ part = "command line" /\ CL!Next /\ UNCHANGED <<part, windowVars, requestVars, portVars>>
    \/ part = "one thread" /\ PA!Next /\ UNCHANGED <<part, windowVars, lineVars, portVars>>
    \/ part = "two threads" /\ PB!Next /\ UNCHANGED <<part, windowVars, lineVars, portVars>>
    \/ part = "search" /\ SA!Next /\ UNCHANGED <<part, windowVars, lineVars, requestVars>>
    \/ part = "again" /\ SB!Next /\ UNCHANGED <<part, windowVars, lineVars, requestVars>>
    \/ part = "changes" /\ SD!Next /\ UNCHANGED <<part, windowVars, lineVars, requestVars>>
    \/ Finished

Spec == Init /\ [][Next]_allVars

-----------------------------------------------------------------------------
\* At rest the controls are those of the printer's state: none but the
\* connection without a printer, movement in firmware mode only, settings in
\* bootloader mode only (gui.cpp, thread start and complete callbacks).  This
\* is for a user who waits until the window is at rest, as long as a task that
\* waits for the printer outlasts the handling of its start event (Entry does
\* not wait for that: a start callback behind its task disables what the
\* task's messages enabled) and the printer is not unplugged during repairs
\* (the mode logged behind a dialog enables the settings).  For any user, and
\* without these two provisos, the connection can still be used at rest, no
\* repair is left unfinished and the printer is looked at again.  In both, the
\* status thread, which looks every 10 ms, sees a new connection before
\* anything else follows it.
WindowUsable ==
    /\ part = "patient" => WP!ControlsMatch
    /\ part = "patient repair" => WC!ControlsMatch
    /\ part \in {"repair", "closing"} => WR!Usable

\* A process of the command line that ends with success did what its first
\* option asks for, and a printer that is said to have changed its mode got
\* the request (M33 Manager/main.cpp); and a break, whenever it comes
\* outside an operation of the printer, ends the process.
RunEnds ==
    /\ [](part = "command line" => CL!SuccessIsTrue /\ CL!ModeIsTrue)
    /\ part = "command line" /\ CL!Fairness => CL!ExitEnds

\* What the only thread that asks receives for its request is the printer's
\* answer to it, also when the printer was unplugged and found again, as long
\* as the printer answers within the second that receiveResponse waits.
\* Two threads may take each other's answers, for the lock is released between
\* a request and its answer, but not a mixture of two answers to terminated
\* requests; and sendRequest returns true only for a request that reached the
\* printer, unless a connection was made since it was written.
RequestsServed ==
    /\ part = "one thread" => PA!AnswersMine
    /\ part = "two threads" => PB!SentMeansDelivered /\ PB!OneAnswer

\* Every attempt to connect ends: the search of all ports when they stay,
\* which tries none twice and leaves none out, and also attempts while ports
\* come and go when the port is given or the printer is the one of before.
\* (A search whose first port is gone knows no end: getNewSerialPort looks for
\* that port by its name, and goes round as long as ports fail.)  After a
\* change of mode M33 Manager is connected to that printer again, if every port
\* opened and none came or went (a failed attempt clears currentSerialPort,
\* and the next one takes any port).
ConnectEnds ==
    /\ [](part = "search" => SA!AllPortsOnce) /\ [](part \in {"again", "changes"} => SB!SamePrinterAgain)
    /\ part = "search" /\ SA!Fairness => SA!ConnectEnds
    /\ part = "changes" /\ SD!Fairness => SD!ConnectEnds
=============================================================================
