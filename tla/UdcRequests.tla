----------------------------- MODULE UdcRequests -----------------------------
(***************************************************************************)
(* The control requests of the USB device controller (udc.c) and of its    *)
(* serial port (udi_cdc.c): how udc_process_setup decodes a SETUP packet,  *)
(* what it refuses, which object it gives to be read or written and how    *)
(* much of it, and what a callback does after the handshake.  The serial   *)
(* number is a string the main program may be rewriting meanwhile          *)
(* (updateSerialNumber).                                                   *)
(*                                                                         *)
(* What requests do to interfaces and endpoints is taken from UsbDevice,   *)
(* the phases of a transfer are ControlEndpoint's: here a transfer has a   *)
(* setup, data to receive if it asks for any, and a handshake, and the     *)
(* host may give it up for another one.                                    *)
(***************************************************************************)
EXTENDS Integers, Sequences, SequencesExt

CONSTANTS
    HOST_REQUESTS,          \* the requests the host may make
    MANUFACTURER, PRODUCT,  \* USB_DEVICE_MANUFACTURE_NAME and _PRODUCT_NAME
    SERIALS,                \* the serial numbers written to the EEPROM
    REQUESTS                \* bound on the requests of the host

VARIABLES
    device,         \* interfaces and endpoints, a record of UsbDevice
    coding,         \* udi_cdc_line_coding
    string,         \* udc_string_desc: its bLength and its characters
    serial,         \* serialNumber
    eeprom,         \* the serial number in the EEPROM
    updating,       \* the next character of updateSerialNumber, 0 outside it
    req,            \* udd_g_ctrlreq and the phase of its transfer
    hostAddress,    \* the address the host uses for the device
    believed,       \* what the host may expect to be told
    made            \* requests made

vars == <<device, coding, string, serial, eeprom, updating, req, hostAddress, believed, made>>

D == INSTANCE UsbDevice WITH
        HOSTS <- {},
        address <- device.address, config <- device.config, allocated <- device.allocated,
        busy <- device.busy, halted <- device.halted, ongoing <- device.ongoing,
        running <- device.running, enabled <- device.enabled,
        underflow <- device.underflow, hostSide <- hostAddress, told <- req, asks <- req

Least(a, b) == IF a < b THEN a ELSE b

\* Some bytes, told apart from those of other objects.
Block(base, n) == [i \in 1 .. n |-> base + i]

-----------------------------------------------------------------------------
(* Descriptors: udc_desc_fs and udc_device_desc.                           *)

Interface(n) == [type |-> "interface", length |-> 9, id |-> n]
Functional(n) == [type |-> "functional", length |-> n, id |-> 0]
EndpointDesc(n) == [type |-> "endpoint", length |-> 7, id |-> n]

CommDesc == <<Interface(0), Functional(5), Functional(4), Functional(5), Functional(5),
              EndpointDesc(1)>>
DataDesc == <<Interface(1), EndpointDesc(2), EndpointDesc(3)>>
Descriptors == <<[type |-> "configuration", length |-> 9, id |-> 1]>> \o CommDesc \o DataDesc

NumInterfaces == 2
TotalLength == FoldLeft(LAMBDA sum, d : sum + d.length, 0, Descriptors)
DeviceLength == 18
CodingLength == 7

\* The endpoints by the numbers of their descriptors.
EndpointName == <<"comm", "in", "out">>

\* udc_update_iface_desc: an interface of the current configuration with that
\* setting; every interface has setting 0 only.
UpdateIface(d, n, setting) ==
    /\ d.config # 0 /\ n < NumInterfaces /\ setting = 0
    /\ \E k \in DOMAIN Descriptors : Descriptors[k] = Interface(n)

\* udc_next_desc_in_iface, until it finds no more: the endpoints between an
\* interface's descriptor and the next one.
EndpointsIn(n) ==
    {EndpointName[Descriptors[k].id] : k \in
        {j \in DOMAIN Descriptors :
            /\ Descriptors[j].type = "endpoint"
            /\ \E i \in 1 .. j : /\ Descriptors[i] = Interface(n)
                                 /\ \A m \in i + 1 .. j : Descriptors[m].type # "interface"}}

RequestsAssumption ==
    /\ \A n \in 0 .. NumInterfaces - 1 : EndpointsIn(n) = D!EndpointsOf(n)
    /\ \A s, t \in SERIALS : Len(s) = Len(t)
    /\ REQUESTS \in Nat

-----------------------------------------------------------------------------
(* The serial number.                                                      *)

LowerCase(c) == IF (c \div 32) % 2 = 0 THEN c + 32 ELSE c

IsAlphanumeric(c) == c \in 48 .. 57 \/ LowerCase(c) \in 97 .. 122

Underscore == 95

ReadCharacter(c) == IF IsAlphanumeric(c) THEN c ELSE Underscore

Clean(s) == [i \in DOMAIN s |-> ReadCharacter(s[i])]

\* M618 writes the EEPROM, then the copy that the USB interrupt sends is brought
\* up to date character by character.
WriteSerial(s) ==
    /\ updating = 0 /\ eeprom # s
    /\ eeprom' = s /\ updating' = 1
    /\ UNCHANGED <<device, coding, string, serial, req, hostAddress, believed, made>>

UpdateSerialNumber ==
    /\ updating # 0
    /\ serial' = [serial EXCEPT ![updating] = ReadCharacter(eeprom[updating])]
    /\ updating' = IF updating = Len(serial) THEN 0 ELSE updating + 1
    /\ UNCHANGED <<device, coding, string, eeprom, req, hostAddress, believed, made>>

-----------------------------------------------------------------------------
(* Requests.  A routine takes the controller's state s and a request r and *)
(* yields what udd_g_ctrlreq gets: whether the request is supported, the   *)
(* object that is the payload, its size, and the callback.                 *)

State == [device |-> device, coding |-> coding, string |-> string]

No(s) == [ok |-> FALSE, s |-> s, of |-> "nothing", size |-> 0, callback |-> FALSE]
Done(s) == [No(s) EXCEPT !.ok = TRUE]

\* udd_set_setup_payload
Payload(s, of, size) == [Done(s) EXCEPT !.of = of, !.size = size]

DevGetStatus(s, r) == IF r.length # 2 THEN No(s) ELSE Payload(s, "status", 2)

EpGetStatus(s, r) == IF r.length # 2 THEN No(s) ELSE Payload(s, "endpoint", 2)

\* The remote wakeup, which this device does not offer, may be turned off but
\* not on.
DevClearFeature(s, r) == IF r.length = 0 /\ r.low = 1 THEN Done(s) ELSE No(s)

DevSetFeature(s, r) == No(s)

EpClearFeature(s, r) ==
    IF r.length = 0 /\ r.low = 0
      THEN Done([s EXCEPT !.device.halted = @ \ {EndpointName[r.index]}]) ELSE No(s)

EpSetFeature(s, r) ==
    LET eps == {EndpointName[r.index]}
    IN  IF r.length = 0 /\ r.low = 0
          THEN Done([s EXCEPT !.device = [D!Abort(@, eps) EXCEPT !.halted = @ \cup eps]])
          ELSE No(s)

\* The address is changed by a callback (udc_valid_address).
DevSetAddress(s, r) == IF r.length # 0 THEN No(s) ELSE [Done(s) EXCEPT !.callback = TRUE]

ValidAddress(d, r) == [d EXCEPT !.address = r.low % 128]

\* A name is copied over the one that was sent before it.
StringOf(s, name) ==
    [s EXCEPT !.string = [bLength |-> 2 + 2 * Len(name),
                          chars |-> name \o SubSeq(@.chars, Len(name) + 1, Len(@.chars))]]

DevGetStrDesc(s, r) ==
    LET t == StringOf(s, CASE r.low = 1 -> MANUFACTURER [] r.low = 2 -> PRODUCT [] OTHER -> serial)
    IN  CASE r.low = 0 -> Payload(s, "language", 4)
          [] r.low \in 1 .. 3 -> Payload(t, "string", t.string.bLength)
          [] OTHER -> No(s)

\* Faulty: the descriptor is sent whole.
DevGetDescriptorWhole(s, r) ==
    CASE r.high = 1 -> Payload(s, "device", DeviceLength)
      [] r.high = 2 /\ r.low < 1 -> Payload(s, "descriptors", TotalLength)
      [] r.high = 3 -> DevGetStrDesc(s, r)
      [] OTHER -> No(s)

\* The descriptor asked for, no longer than asked for; there is one
\* configuration, and no BOS descriptor.
DevGetDescriptor(s, r) ==
    LET o == CASE r.high = 1 -> Payload(s, "device", DeviceLength)
               [] r.high = 2 /\ r.low < 1 -> Payload(s, "descriptors", TotalLength)
               [] r.high = 3 -> DevGetStrDesc(s, r)
               [] OTHER -> No(s)
    IN  [o EXCEPT !.size = Least(@, r.length)]

DevGetConfiguration(s, r) == IF r.length # 1 THEN No(s) ELSE Payload(s, "configuration", 1)

DefaultCoding == Block(0, CodingLength)

\* What enabling interfaces leaves: udi_cdc_comm_enable sets the line coding to
\* its default.
Enabled(s, d, comm) == [s EXCEPT !.device = d, !.coding = IF comm THEN DefaultCoding ELSE @]

DevSetConfiguration(s, r) ==
    IF r.length # 0 \/ s.device.address = 0 \/ r.low > 1 THEN No(s)
    ELSE LET d == D!Configured(s.device, r.low)
             t == Enabled(s, d, 0 \in d.enabled)
         IN  IF r.low = 0 \/ D!Whole(d) THEN Done(t) ELSE No(t)

IfaceGetSetting(s, r) ==
    IF r.length # 1 \/ ~ UpdateIface(s.device, r.index, 0) THEN No(s) ELSE Payload(s, "setting", 1)

\* The interface is disabled before the setting is looked for.
IfaceSetSetting(s, r) ==
    IF r.length # 0 \/ ~ UpdateIface(s.device, r.index, 0) THEN No(s)
    ELSE LET d == D!IfaceEnable(D!IfaceDisable(s.device, r.index), r.index, r.low)
             ok == r.index \in d.enabled
             t == Enabled(s, d, ok /\ r.index = 0)
         IN  IF ok THEN Done(t) ELSE No(t)

ReqStd(s, r) ==
    CASE r.in /\ r.length = 0 -> No(s)
      [] r.in /\ r.recipient = "device" /\ r.request = "GET_STATUS" -> DevGetStatus(s, r)
      [] r.in /\ r.recipient = "device" /\ r.request = "GET_DESCRIPTOR" -> DevGetDescriptor(s, r)
      [] r.in /\ r.recipient = "device" /\ r.request = "GET_CONFIGURATION" -> DevGetConfiguration(s, r)
      [] r.in /\ r.recipient = "interface" /\ r.request = "GET_INTERFACE" -> IfaceGetSetting(s, r)
      [] r.in /\ r.recipient = "endpoint" /\ r.request = "GET_STATUS" -> EpGetStatus(s, r)
      [] ~ r.in /\ r.recipient = "device" /\ r.request = "SET_ADDRESS" -> DevSetAddress(s, r)
      [] ~ r.in /\ r.recipient = "device" /\ r.request = "CLEAR_FEATURE" -> DevClearFeature(s, r)
      [] ~ r.in /\ r.recipient = "device" /\ r.request = "SET_FEATURE" -> DevSetFeature(s, r)
      [] ~ r.in /\ r.recipient = "device" /\ r.request = "SET_CONFIGURATION" -> DevSetConfiguration(s, r)
      [] ~ r.in /\ r.recipient = "interface" /\ r.request = "SET_INTERFACE" -> IfaceSetSetting(s, r)
      [] ~ r.in /\ r.recipient = "endpoint" /\ r.request = "CLEAR_FEATURE" -> EpClearFeature(s, r)
      [] ~ r.in /\ r.recipient = "endpoint" /\ r.request = "SET_FEATURE" -> EpSetFeature(s, r)
      [] OTHER -> No(s)

\* udi_cdc_comm_setup; the state of the control lines has no use here.
CommSetup(s, r) ==
    CASE r.type = "class" /\ r.in /\ r.request = "GET_LINE_CODING" /\ r.length = CodingLength ->
            Payload(s, "coding", CodingLength)
      [] r.type = "class" /\ ~ r.in /\ r.request = "SET_LINE_CODING" /\ r.length = CodingLength ->
            Payload(s, "coding", CodingLength)
      [] r.type = "class" /\ ~ r.in /\ r.request = "SET_CONTROL_LINE_STATE" -> Done(s)
      [] OTHER -> No(s)

\* udc_req_iface; the data interface supports no request of its own.
ReqIface(s, r) ==
    IF UpdateIface(s.device, r.index, 0) /\ r.index = 0 THEN CommSetup(s, r) ELSE No(s)

\* udc_req_ep: the interfaces are asked one after the other.
ReqEp(s, r) == IF UpdateIface(s.device, 0, 0) THEN CommSetup(s, r) ELSE No(s)

ProcessSetup(s, r) ==
    LET std == IF r.type = "standard" THEN ReqStd(s, r) ELSE No(s)
    IN  CASE r.in /\ r.length = 0 -> No(s)
          [] (~ r.in \/ r.length > 0) /\ ~ std.ok /\ r.recipient = "interface" -> ReqIface(std.s, r)
          [] (~ r.in \/ r.length > 0) /\ ~ std.ok /\ r.recipient = "endpoint" -> ReqEp(std.s, r)
          [] OTHER -> std

\* The bytes behind the payload pointer.
Content(s, r, of) ==
    CASE of = "status" -> <<1, 0>>
      [] of = "endpoint" -> <<IF EndpointName[r.index] \in s.device.halted THEN 1 ELSE 0, 0>>
      [] of = "configuration" -> <<s.device.config>>
      [] of = "setting" -> <<0>>
      [] of = "coding" -> s.coding
      [] of = "language" -> <<4, 3, 9, 4>>
      [] of = "string" -> <<s.string.bLength, 3>> \o FlattenSeq([i \in DOMAIN s.string.chars |->
                                                                    <<s.string.chars[i], 0>>])
      [] of = "device" -> Block(100, DeviceLength)
      [] of = "descriptors" -> Block(200, TotalLength)
      [] OTHER -> <<>>

-----------------------------------------------------------------------------
(* Transfers.                                                              *)

Unknown == -1

NoRequest == [in |-> FALSE, type |-> "standard", recipient |-> "device", request |-> "",
              high |-> 0, low |-> 0, index |-> 0, length |-> 0]

Idle(refused) == [stage |-> "none", refused |-> refused, asked |-> NoRequest, of |-> "nothing",
                  size |-> 0, callback |-> FALSE, bytes |-> <<>>,
                  expected |-> [config |-> Unknown, coding |-> <<>>]]

Init ==
    /\ device = [address |-> 0, config |-> 0, allocated |-> {}, busy |-> {}, halted |-> {},
                 ongoing |-> {}, running |-> FALSE, enabled |-> {}, underflow |-> FALSE,
                 detached |-> FALSE]
    /\ coding = Block(0, CodingLength)
    /\ eeprom \in SERIALS /\ serial = Clean(eeprom) /\ updating = 0
    /\ string = [bLength |-> 0,
                 chars |-> [i \in 1 .. Max({Len(MANUFACTURER), Len(PRODUCT), Len(serial)}) |-> 0]]
    /\ req = Idle("") /\ hostAddress = 0 /\ made = 0
    /\ believed = [config |-> 0, coding |-> <<>>]

\* A request that is under way leaves the host in doubt of what it changes.
Doubted(r) ==
    [config |-> IF r.request = "SET_CONFIGURATION" THEN Unknown ELSE believed.config,
     coding |-> IF r.request = "SET_CONFIGURATION" \/ r.request = "SET_LINE_CODING"
                   \/ (r.request = "SET_INTERFACE" /\ r.index = 0) THEN <<>> ELSE believed.coding]

\* A SETUP packet: the request before it is ended if only its handshake was
\* missing (udd_ctrl_setup_received), then the new one is decoded; the first
\* data to be read are copied at once.  The host awaits the handshake of a
\* SET_ADDRESS.
Setup(r) ==
    /\ made < REQUESTS /\ hostAddress = device.address
    /\ ~req.callback
    /\ LET s == IF req.stage = "handshake" /\ req.callback
                  THEN [State EXCEPT !.device = ValidAddress(@, req.asked)] ELSE State
           o == ProcessSetup(s, r)
           content == IF r.in THEN Content(o.s, r, o.of) ELSE <<>>
       IN  /\ device' = [o.s.device EXCEPT !.detached = FALSE]
           /\ coding' = o.s.coding /\ string' = o.s.string
           /\ req' = IF ~ o.ok THEN Idle(r.request)
                     ELSE [stage |-> IF r.in \/ r.length = 0 THEN "handshake" ELSE "data",
                           refused |-> "", asked |-> r, of |-> o.of, size |-> o.size,
                           callback |-> o.callback, expected |-> believed,
                           bytes |-> SubSeq(content, 1, Least(o.size, Len(content)))]
           /\ believed' = IF o.ok THEN Doubted(r) ELSE believed
    /\ made' = made + 1
    /\ UNCHANGED <<serial, eeprom, updating, hostAddress>>

\* The host's data, written where the payload pointer points; without a buffer
\* for them nothing of a packet is taken, which ends the data like a short one.
ReceiveData ==
    /\ req.stage = "data"
    /\ IF req.size = 0 THEN req' = [req EXCEPT !.stage = "handshake"] /\ UNCHANGED coding
       ELSE \E base \in {0, 10} :
              /\ coding' = Block(base, req.size)
              /\ req' = [req EXCEPT !.stage = "handshake", !.bytes = Block(base, req.size)]
    /\ UNCHANGED <<device, string, serial, eeprom, updating, hostAddress, believed, made>>

\* The handshake: the callback runs, and the host knows what it brought about.
EndOfRequest ==
    LET r == req.asked
        done == r.request
    IN  /\ req.stage = "handshake"
        /\ device' = IF req.callback THEN ValidAddress(device, r) ELSE device
        /\ hostAddress' = IF done = "SET_ADDRESS" THEN r.low ELSE hostAddress
        /\ believed' = CASE done = "SET_CONFIGURATION" ->
                              [config |-> r.low,
                               coding |-> IF r.low = 1 THEN DefaultCoding ELSE <<>>]
                         [] done = "SET_INTERFACE" /\ r.index = 0 ->
                              [believed EXCEPT !.coding = DefaultCoding]
                         [] done = "SET_LINE_CODING" -> [believed EXCEPT !.coding = req.bytes]
                         [] OTHER -> believed
        /\ req' = Idle("")
        /\ UNCHANGED <<coding, string, serial, eeprom, updating, made>>

\* A bus reset (USB_BUSEVENT_vect).
BusReset ==
    /\ made < REQUESTS
    /\ device' = [D!UdcReset(D!Abort(device, D!Endpoint)) EXCEPT !.address = 0, !.detached = FALSE]
    /\ hostAddress' = 0 /\ req' = Idle("") /\ made' = made + 1
    /\ believed' = [config |-> 0, coding |-> <<>>]
    /\ UNCHANGED <<coding, string, serial, eeprom, updating>>

Next ==
    \/ \E r \in HOST_REQUESTS : Setup(r)
    \/ ReceiveData \/ EndOfRequest \/ BusReset
    \/ \E s \in SERIALS : WriteSerial(s)
    \/ UpdateSerialNumber

Spec == Init /\ [][Next]_vars

-----------------------------------------------------------------------------
\* Whatever a request asks for and in whichever order requests come, what is sent
\* is no more than the host asked for and no more than the object behind the
\* payload pointer has, and what is received fills the object exactly.
PayloadFits ==
    req.stage # "none" =>
        IF req.asked.in THEN /\ req.size \in 1 .. req.asked.length
                             /\ Len(req.bytes) = req.size
        ELSE req.size \in {0, req.asked.length}

\* The characters a string request may find at a place of the serial number.
SerialAt(i) == {ReadCharacter(s[i]) : s \in SERIALS}

StringAsked == req.stage # "none" /\ req.asked.request = "GET_DESCRIPTOR" /\ req.of = "string"

Character(i) == req.bytes[2 * i + 1]

\* The strings share one buffer, and yet a string's descriptor has that string's
\* length and characters whichever was sent before it; every character of the
\* serial number is alphanumeric or an underscore, also while it is rewritten.
StringsTrue ==
    StringAsked =>
        LET n == CASE req.asked.low = 1 -> Len(MANUFACTURER)
                   [] req.asked.low = 2 -> Len(PRODUCT) [] OTHER -> Len(serial)
        IN  /\ Len(req.bytes) = Least(req.asked.length, 2 + 2 * n)
            /\ req.bytes[1] = 2 + 2 * n
            /\ \A i \in 1 .. n : 2 * i + 1 <= Len(req.bytes) =>
                 CASE req.asked.low = 1 -> Character(i) = MANUFACTURER[i]
                   [] req.asked.low = 2 -> Character(i) = PRODUCT[i]
                   [] OTHER -> /\ Character(i) \in SerialAt(i)
                               /\ IsAlphanumeric(Character(i)) \/ Character(i) = Underscore

\* The device answers to the address that the host uses: it takes a new one when
\* the host has seen the handshake of SET_ADDRESS, neither earlier nor later.
AddressAgreed == device.address = hostAddress
=============================================================================
