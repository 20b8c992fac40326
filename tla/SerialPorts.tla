----------------------------- MODULE SerialPorts -----------------------------
(***************************************************************************)
(* Printer::connect and Printer::getNewSerialPort of M33 Manager: a given  *)
(* port is tried five times, "Auto" goes through the available ports, and  *)
(* after a change of mode the printer, which left the bus and comes back   *)
(* possibly at another port, is looked for among the ports that are new.   *)
(* Ports are numbers, in the order of their sorted names; 0 is no port.    *)
(***************************************************************************)
EXTENDS Naturals, FiniteSetsExt

CONSTANTS
    PORTS,           \* numbers of ports
    PRINTERS,        \* printers on the bus
    KINDS,           \* connections made: "given", "auto", "again"
    TRIES,           \* tries to connect to a given port, 5 in the code
    CHANGES,         \* bound on printers plugged and unplugged
    FAILURES         \* bound on ports that do not open

PortsAssumption ==
    PORTS \subseteq Nat \ {0} /\ TRIES \in Nat \ {0} /\ CHANGES \in Nat /\ FAILURES \in Nat

None == "none"

VARIABLES
    at,              \* "idle", "loop", "open", "collect"
    printerAt,       \* the printer at each port, or None
    away,            \* the printer that changes its mode and is off the bus
    availableSerialPorts,
    currentSerialPort,
    lastAttempted, initialSerialPort,
    kind, serialPort,  \* what is connected to: kind of connection, given port
    i,               \* tries so far
    fd,              \* the printer whose port is open, or None
    wanted,          \* the printer the connection was to before
    tried,           \* attempts per port (counted up to 2)
    result, changes, failures

vars == <<at, printerAt, away, availableSerialPorts, currentSerialPort, lastAttempted,
          initialSerialPort, kind, serialPort, i, fd, wanted, tried, result, changes, failures>>
call == <<kind, serialPort, wanted>>
bus == <<printerAt, away, changes>>
scan == <<lastAttempted, initialSerialPort, i, tried>>

Present == {p \in PORTS : printerAt[p] # None}
Placements ==
    {f \in [PORTS -> PRINTERS \cup {None}] :
        \A p, q \in PORTS : p # q /\ f[p] # None => f[p] # f[q]}

Init ==
    /\ at = "idle" /\ printerAt \in Placements /\ away = None
    /\ availableSerialPorts = {} /\ currentSerialPort = 0
    /\ lastAttempted = 0 /\ initialSerialPort = 0 /\ kind = None /\ serialPort = 0
    /\ i = 0 /\ fd = None /\ wanted = None /\ tried = [p \in PORTS |-> 0]
    /\ result = FALSE /\ changes = 0 /\ failures = 0

-----------------------------------------------------------------------------
\* The start of connect: nothing is open, no port was attempted yet.
Begin(k, port, before) ==
    /\ kind' = k /\ serialPort' = port /\ wanted' = before
    /\ at' = "loop" /\ i' = 0 /\ lastAttempted' = 0 /\ initialSerialPort' = 0
    /\ tried' = [p \in PORTS |-> 0] /\ fd' = None /\ result' = FALSE

\* connect to a new printer, at a given port or at any.
Connect(k, port) ==
    /\ at = "idle" /\ k \in KINDS \ {"again"}
    /\ IF k = "given" THEN port \in PORTS ELSE port = 0
    /\ Begin(k, port, None)
    /\ currentSerialPort' = 0
    /\ UNCHANGED <<bus, availableSerialPorts, failures>>

\* A request that changes the printer's mode: the available ports are noted,
\* the printer leaves the bus, and connect keeps the current port.
SwitchMode ==
    /\ at = "idle" /\ "again" \in KINDS /\ fd # None /\ printerAt[currentSerialPort] = fd
    /\ availableSerialPorts' = Present
    /\ printerAt' = [printerAt EXCEPT ![currentSerialPort] = None]
    /\ away' = fd
    /\ Begin("again", 0, fd)
    /\ UNCHANGED <<currentSerialPort, changes, failures>>

\* The printer comes back in its new mode.
ComeBack ==
    /\ away # None
    /\ \E p \in PORTS \ Present : printerAt' = [printerAt EXCEPT ![p] = away]
    /\ away' = None
    /\ UNCHANGED <<at, availableSerialPorts, currentSerialPort, scan, call, fd, result, changes, failures>>

\* A printer is plugged in or unplugged.
Change ==
    /\ changes < CHANGES /\ changes' = changes + 1
    /\ \/ \E p \in Present : printerAt' = [printerAt EXCEPT ![p] = None]
       \/ \E p \in PORTS \ Present, r \in PRINTERS \ {away} :
              /\ \A q \in PORTS : printerAt[q] # r
              /\ printerAt' = [printerAt EXCEPT ![p] = r]
    /\ UNCHANGED <<at, away, availableSerialPorts, currentSerialPort, scan, call, fd, result, failures>>

-----------------------------------------------------------------------------
\* The port after the last one attempted, around the end, until the search
\* is back at the first one.
NextPort(available) ==
    LET later == {p \in available : p > lastAttempted}
        next == IF lastAttempted # 0 /\ later # {} THEN Min(later) ELSE Min(available)
    IN  IF next = initialSerialPort THEN 0 ELSE next

\* The current port if it is there, else the first that was not there before.
MovedPort(before, available) ==
    LET new == available \ before
    IN  IF currentSerialPort \in available THEN currentSerialPort
        ELSE IF new # {} THEN Min(new) ELSE 0

GetNewSerialPort ==
    IF currentSerialPort = 0 /\ Present # {}
    THEN NextPort(Present)
    ELSE MovedPort(availableSerialPorts, Present)

Count == IF kind = "auto" THEN 0 ELSE 1

\* Faulty: a try that finds no port is not counted.
NoPortForever ==
    /\ IF kind = "again" THEN at' = "loop" /\ i' = i ELSE at' = "idle" /\ i' = i
    /\ UNCHANGED <<currentSerialPort, lastAttempted, initialSerialPort, tried>>

\* No port was found: a new connection fails, a renewed one tries again.
NoPort ==
    /\ IF kind = "again" THEN at' = "loop" /\ i' = i + Count ELSE at' = "idle" /\ UNCHANGED i
    /\ UNCHANGED <<currentSerialPort, lastAttempted, initialSerialPort, tried>>

Attempt(port) ==
    /\ currentSerialPort' = port /\ lastAttempted' = port
    /\ initialSerialPort' = IF initialSerialPort = 0 THEN port ELSE initialSerialPort
    /\ tried' = [tried EXCEPT ![port] = Min({@ + 1, 2})]
    /\ at' = "open" /\ UNCHANGED i

ChoosePort ==
    /\ at = "loop" /\ i < TRIES
    /\ LET port == IF kind = "given" THEN serialPort ELSE GetNewSerialPort
       IN  IF port = 0 THEN NoPort ELSE Attempt(port)
    /\ availableSerialPorts' = IF kind = "given" THEN availableSerialPorts ELSE Present
    /\ UNCHANGED <<bus, call, fd, result, failures>>

TriesOver ==
    /\ at = "loop" /\ i >= TRIES
    /\ at' = "idle"
    /\ UNCHANGED <<bus, availableSerialPorts, currentSerialPort, scan, call, fd, result, failures>>

Succeed == at' = "idle" /\ result' = TRUE

\* disconnect and the end of the loop's body.
Fail == fd' = None /\ currentSerialPort' = 0 /\ at' = "loop" /\ i' = i + Count /\ UNCHANGED result

\* The port is opened, locked and set up.
Open ==
    /\ at = "open" /\ printerAt[currentSerialPort] # None
    /\ fd' = printerAt[currentSerialPort]
    /\ IF kind = "again" THEN Succeed ELSE at' = "collect" /\ UNCHANGED result
    /\ UNCHANGED <<bus, availableSerialPorts, currentSerialPort, scan, call, failures>>

\* The port is gone, or busy, or may not be used.
OpenFails ==
    /\ at = "open"
    /\ IF printerAt[currentSerialPort] # None
       THEN failures < FAILURES /\ failures' = failures + 1
       ELSE UNCHANGED failures
    /\ Fail
    /\ UNCHANGED <<bus, availableSerialPorts, lastAttempted, initialSerialPort, tried, call>>

\* collectPrinterInformation decides about a new printer.
Collect ==
    /\ at = "collect"
    /\ \/ printerAt[currentSerialPort] = fd /\ Succeed /\ UNCHANGED <<fd, currentSerialPort, i>>
       \/ Fail
    /\ UNCHANGED <<bus, availableSerialPorts, lastAttempted, initialSerialPort, tried, call, failures>>

Proceed == ChoosePort \/ TriesOver \/ Open \/ OpenFails \/ Collect

Next ==
    \/ \E k \in KINDS, p \in PORTS \cup {0} : Connect(k, p)
    \/ SwitchMode \/ ComeBack \/ Change \/ Proceed

\* connect runs on, whatever the ports do; a printer that changes its mode is
\* back before the tries are over or is not.
Fairness == WF_vars(Proceed)

Spec == Init /\ [][Next]_vars /\ Fairness

-----------------------------------------------------------------------------
(* "Auto" attempts no port twice, and when it fails it has attempted every *)
(* available one, as long as the ports stay as they are.                   *)
AllPortsOnce ==
    kind = "auto" =>
        /\ \A p \in PORTS : tried[p] <= 1
        /\ at = "idle" /\ ~result => \A p \in Present : tried[p] = 1

(* After a change of mode M33 Manager is connected to the printer it was   *)
(* connected to before, if every port opened and none came or went: a port *)
(* that does not open makes connect forget the current port and take any.  *)
SamePrinterAgain ==
    kind = "again" /\ at = "idle" /\ result /\ changes = 0 /\ failures = 0 => fd = wanted

(* Every connection attempt ends.                                          *)
ConnectEnds == (at # "idle") ~> (at = "idle")
=============================================================================
