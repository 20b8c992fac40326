--------------------------------- MODULE Usb --------------------------------
(***************************************************************************)
(* The printer's USB connection: the receiving side of main.cpp and of the *)
(* serial port's driver, its transmitting side, the control endpoint       *)
(* and the device's state and requests, each with the instances that TLC   *)
(* explores.  The models of the parts share no variables; a behaviour is one *)
(* of a single part, and the other parts stay as they begin.               *)
(***************************************************************************)
EXTENDS CdcTransmit, ControlEndpoint, UsbDevice

VARIABLES
    part,           \* the part that moves
    \* UsbReceive
    wire, rxBuf, rxNb, rxSel, rxPos, rxOngoing, receiveRunning,
    usbInterrupts, accumulatedBuffer, handed, written, receiveReconnects,
    \* UdcRequests
    device, coding, string, serial, eeprom, updating, requestReq,
    hostAddress, believed, requestMade

receiveVars ==
    <<wire, rxBuf, rxNb, rxSel, rxPos, rxOngoing, receiveRunning,
      usbInterrupts, accumulatedBuffer, handed, written, receiveReconnects>>

requestVars ==
    <<device, coding, string, serial, eeprom, updating, requestReq,
      hostAddress, believed, requestMade>>

allVars == <<part, receiveVars, transmitVars, controlVars, deviceVars, requestVars>>

-----------------------------------------------------------------------------
(* The constants and the instances.                                        *)

\* A host that configures the device; one that also halts endpoints and asks
\* for settings that do not exist.
DeviceHosts ==
    {[requests |-> 5, settings |-> {0}, halts |-> {}],
     [requests |-> 4, settings |-> {0, 1}, halts |-> {"comm", "out", "in"}]}

Filled(n) == [k \in 1 .. n |-> IF k % 3 = 1 THEN "G" ELSE IF k % 3 = 2 THEN "1" ELSE "LF"]

\* A stop behind a command, a lone stop, and messages of every length up to
\* an overlong one, those that just fill their packets among them.
Written ==
    {<<"M", "0">>, <<"G", "1", "LF", "M", "0">>, <<"X", "-", "1">>}
        \cup {Filled(n) : n \in 2 .. 13}

\* Messages that end within a packet, with one, and beyond the buffer.
Cut == {<<"M", "0">>, <<"G", "1", "1", "1">>, Filled(5), Filled(9), Filled(13)}

Std(in, recipient, ask, high, low, index, length) ==
    [in |-> in, type |-> "standard", recipient |-> recipient, request |-> ask,
     high |-> high, low |-> low, index |-> index, length |-> length]

Class(in, recipient, ask, length) ==
    [in |-> in, type |-> "class", recipient |-> recipient, request |-> ask,
     high |-> 0, low |-> 0, index |-> 0, length |-> length]

Gets ==
    {Std(TRUE, "device", "GET_DESCRIPTOR", 3, l, 0, n) : l \in 0 .. 4, n \in {5, 255}}
    \cup {Std(TRUE, "device", "GET_DESCRIPTOR", h, l, 0, n) : h \in {1, 2, 4}, l \in 0 .. 1, n \in {0, 255}}
    \cup {Std(TRUE, "device", "GET_STATUS", 0, 0, 0, n) : n \in {1, 2}}
    \cup {Std(TRUE, "device", "GET_CONFIGURATION", 0, 0, 0, n) : n \in {1, 2}}
    \cup {Std(TRUE, "interface", "GET_INTERFACE", 0, 0, i, n) : i \in 1 .. 2, n \in {1, 2}}
    \cup {Std(TRUE, "endpoint", "GET_STATUS", 0, 0, 1, n) : n \in {1, 2}}

Sets ==
    {Std(FALSE, "device", "SET_ADDRESS", 0, a, 0, n) : a \in 1 .. 2, n \in {0, 2}}
    \cup {Std(FALSE, "device", "SET_CONFIGURATION", 0, c, 0, n) : c \in 0 .. 2, n \in {0, 1}}
    \cup {Std(FALSE, "interface", "SET_INTERFACE", 0, a, i, 0) : a \in 0 .. 1, i \in 0 .. 2}
    \cup {Std(FALSE, rc, f, 0, v, 1, 0) : rc \in {"device", "endpoint"}, v \in 0 .. 1,
                                          f \in {"SET_FEATURE", "CLEAR_FEATURE"}}

Lines ==
    {Class(i, rc, q, n) : i \in BOOLEAN, rc \in {"device", "interface", "endpoint"}, n \in {7, 8},
                          q \in {"GET_LINE_CODING", "SET_LINE_CODING", "SET_CONTROL_LINE_STATE"}}

\* Requests of the wrong kind, direction or recipient.
Wrong ==
    {Std(i, rc, q, 1, 0, 1, 2) : i \in BOOLEAN, rc \in {"device", "interface", "endpoint"},
                                 q \in {"SET_DESCRIPTOR", "GET_LINE_CODING"}}

HostRequests == Gets \cup Sets \cup Lines \cup Wrong

\* Two serial numbers that differ at both places, one with characters that are
\* not alphanumeric.
Serials == {<<71, 90>>, <<64, 255>>}

\* Messages of every length around the sizes of a packet (4) and of the
\* accumulation buffer (10); without and with lost connections.
UR == INSTANCE UsbReceive WITH
    MESSAGES <- Written, WRITES <- 2, RECONNECTS <- 0, ZLP <- FALSE, EP_SIZE <- 4,
    BUFFER_SIZE <- 10, running <- receiveRunning, reconnects <- receiveReconnects

UC == INSTANCE UsbReceive WITH
    MESSAGES <- Cut, WRITES <- 2, RECONNECTS <- 2, ZLP <- TRUE, EP_SIZE <- 4,
    BUFFER_SIZE <- 10, running <- receiveRunning, reconnects <- receiveReconnects

\* Three requests, right and wrong, in any order.
UQ == INSTANCE UdcRequests WITH
    HOST_REQUESTS <- HostRequests, MANUFACTURER <- <<77, 51>>,
    PRODUCT <- <<77, 105, 99>>, SERIALS <- Serials, REQUESTS <- 3, req <- requestReq,
    made <- requestMade

ASSUME UsbAssumption ==
    /\ UR!ReceiveAssumption /\ UC!ReceiveAssumption /\ TransmitAssumption
    /\ ControlAssumption /\ DeviceAssumption /\ UQ!RequestsAssumption

-----------------------------------------------------------------------------
Init ==
    /\ part \in {"receive", "reconnect", "transmit", "control", "device", "requests"}
    /\ UR!Init /\ TransmitInit /\ ControlInit /\ DeviceInit /\ UQ!Init
    /\ part # "device" => asks.halts = {}
    /\ part # "requests" => eeprom = <<71, 90>>

\* All that the host does is done.
Finished ==
    /\ \/ part \in {"receive", "reconnect"} /\ Len(written) = 2
       \/ part = "control" /\ transfers = 2 /\ host.phase \in {"done", "refused"}
       \/ part = "requests" /\ requestMade = 3 /\ requestReq.stage = "none"
    /\ UNCHANGED allVars

Next ==
    \/ /\ part = "receive" /\ UR!Next
       /\ UNCHANGED <<part, transmitVars, controlVars, deviceVars, requestVars>>
    \/ /\ part = "reconnect" /\ UC!Next
       /\ UNCHANGED <<part, transmitVars, controlVars, deviceVars, requestVars>>
    \/ /\ part = "transmit" /\ TransmitNext
       /\ UNCHANGED <<part, receiveVars, controlVars, deviceVars, requestVars>>
    \/ /\ part = "control" /\ ControlNext
       /\ UNCHANGED <<part, receiveVars, transmitVars, deviceVars, requestVars>>
    \/ /\ part = "device" /\ DeviceNext
       /\ UNCHANGED <<part, receiveVars, transmitVars, controlVars, requestVars>>
    \/ /\ part = "requests" /\ UQ!Next
       /\ UNCHANGED <<part, receiveVars, transmitVars, controlVars, deviceVars>>
    \/ Finished

Spec == Init /\ [][Next]_allVars

-----------------------------------------------------------------------------
\* The commands handed on are those of the requests written, each once and
\* in order, however a request was cut into packets; an overlong request
\* counts up to the buffer's size.  A request ends with a packet that is
\* neither full nor empty: a message that just fills its packets waits, and
\* is joined to the next one (main.cpp:2006, udi_cdc.c:656).  This is what
\* changed with "one byte would be lost when receiving more than 64 bytes at
\* once from USB" (Changelog:10).  When connections are lost on the way, what was gathered
\* still fits in accumulatedBuffer with its terminator, and a transfer runs
\* with nothing left unread.
ReceivedWhole ==
    /\ part = "receive" => UR!HandedAsWritten
    /\ part = "reconnect" => UC!WithinBuffer /\ UC!ReceptionGoesOn

\* Whatever a request asks for and in whichever order requests come, what is
\* sent is no more than the host asked for and no more than the object
\* behind the payload pointer has; a string's descriptor has that string's
\* length and characters although the strings share one buffer; and the
\* device takes a new address when the host has seen the handshake of
\* SET_ADDRESS, neither earlier nor later (udc.c).
RequestsAnswered == part = "requests" => UQ!PayloadFits /\ UQ!StringsTrue /\ UQ!AddressAgreed
=============================================================================
