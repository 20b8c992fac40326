--------------------------- MODULE ControlEndpoint ---------------------------
(***************************************************************************)
(* The control endpoint of the USB device driver (usb_device.c): the state *)
(* machine of a control transfer's setup, data and handshake phases, run   *)
(* by the transfer complete and the bus event interrupts, against a host   *)
(* that may stop a data phase early or give a transfer up and start a new  *)
(* one.  A request is a descriptor or a status to read, a line coding to   *)
(* write, a command without data, or one that udc_process_setup refuses;   *)
(* what the commands do is UsbDevice's matter.                             *)
(*                                                                         *)
(* Requests with data to receive ask for as many bytes as they get a       *)
(* buffer for, and no request registers an over_under_run callback, as in  *)
(* the requests of udc.c and udi_cdc.c.                                    *)
(***************************************************************************)
EXTENDS Integers, Sequences

CONSTANTS
    EP_CTRL_SIZE,   \* USB_DEVICE_EP_CTRL_SIZE: bytes in a full packet
    LENGTHS,        \* the lengths requests ask for (wLength), 0 included
    TRANSFERS        \* bound on the requests a host makes

VARIABLES
    state,          \* udd_ep_control_state
    req,            \* udd_g_ctrlreq, as a request
    nbTrans,        \* udd_ctrl_payload_nb_trans
    shortPacket,    \* b_shortpacket of udd_ctrl_in_sent
    inBank,         \* bytes ready for an IN token, or NAK
    outOpen,        \* an OUT packet would be taken
    stalled,        \* both directions answer STALL
    tc,             \* transfer complete events, in order
    setupFlag, under, over,    \* other events: SETUP, underflow, overflow
    setupData, outBytes,       \* what udd_ctrl_buffer holds
    callbacks,      \* callbacks run for the current request
    served,         \* callbacks run for the request before it
    host,           \* the host's side of the transfer
    completed,      \* the host saw the transfer before it completed
    transfers            \* requests made

driverVars == <<state, req, nbTrans, shortPacket, callbacks, served>>
bankVars == <<inBank, outOpen, stalled>>
eventVars == <<tc, setupFlag, under, over, setupData, outBytes>>
hostVars == <<host, completed, transfers>>
controlVars == <<driverVars, bankVars, eventVars, hostVars>>

NAK == -1

\* A request: its direction, the length asked for, the size of what there is to
\* read or of the buffer to write, and whether it is one the device knows.
Request ==
    {r \in [in : BOOLEAN, length : LENGTHS, size : LENGTHS, ok : BOOLEAN] :
        IF r.in THEN r.size > 0 /\ r.length > 0 ELSE r.size = r.length}

NoRequest == [in |-> FALSE, length |-> 0, size |-> 0, ok |-> FALSE]

ControlAssumption ==
    /\ EP_CTRL_SIZE \in Nat \ {0} /\ TRANSFERS \in Nat
    /\ LENGTHS \subseteq Nat /\ 0 \in LENGTHS

Least(a, b) == IF a < b THEN a ELSE b

\* What udc_process_setup makes of a request: the bytes of its payload, at most
\* as many as were asked for.
ProcessSetup(r) == [in |-> r.in, length |-> r.length, ok |-> r.ok,
                    payload |-> IF r.ok THEN Least(r.size, r.length) ELSE 0]

-----------------------------------------------------------------------------
(* The driver.  A routine takes and yields the driver's state as a record. *)

Driver == [state |-> state, req |-> req, nb |-> nbTrans, short |-> shortPacket,
           callbacks |-> callbacks, served |-> served, inBank |-> inBank, outOpen |-> outOpen,
           stalled |-> stalled, tc |-> tc, under |-> under, over |-> over]

DriverBecomes(d) ==
    /\ state' = d.state /\ req' = d.req /\ nbTrans' = d.nb /\ shortPacket' = d.short
    /\ callbacks' = d.callbacks /\ served' = d.served
    /\ inBank' = d.inBank /\ outOpen' = d.outOpen /\ stalled' = d.stalled
    /\ tc' = d.tc /\ under' = d.under /\ over' = d.over

\* The events that are left when a flag is cleared.
Without(events, event) ==
    LET Other(e) == e # event
    IN  IF \E k \in DOMAIN events : events[k] = event THEN SelectSeq(events, Other) ELSE events

\* udd_ctrl_init: also takes back a packet ready to be sent.
CtrlInit(d) ==
    [d EXCEPT !.inBank = NAK, !.tc = Without(@, "in"), !.under = FALSE, !.over = FALSE,
              !.state = "setup", !.req.payload = 0]

EndOfRequest(d) == [d EXCEPT !.callbacks = @ + 1]

StallData(d) == [d EXCEPT !.state = "stall", !.stalled = TRUE]

SendZlpIn(d) == [d EXCEPT !.state = "wait in zlp", !.inBank = 0]

SendZlpOut(d) == [d EXCEPT !.state = "wait out zlp", !.outOpen = TRUE]

\* Faulty: the data phase ends when all that there is has been sent.
InSentWithoutZlp(d) ==
    LET remain == d.req.payload - d.nb
        n == Least(remain, EP_CTRL_SIZE)
    IN  IF d.state = "wait in zlp" THEN CtrlInit(EndOfRequest(d))
        ELSE IF remain = 0 THEN SendZlpOut(d)
        ELSE [d EXCEPT !.inBank = n, !.nb = @ + n, !.short = (remain < EP_CTRL_SIZE)]

\* udd_ctrl_in_sent: the handshake is over, or the next packet is put up; the
\* data phase ends with the length asked for or with a short packet, which is
\* empty when the payload just fills the packets before it.
InSent(d) ==
    LET remain == d.req.payload - d.nb
        n == Least(remain, EP_CTRL_SIZE)
    IN  IF d.state = "wait in zlp" THEN CtrlInit(EndOfRequest(d))
        ELSE IF remain = 0 /\ (d.req.length = d.nb \/ d.short) THEN SendZlpOut(d)
        ELSE [d EXCEPT !.inBank = n, !.nb = @ + n, !.short = (remain < EP_CTRL_SIZE)]

\* udd_ctrl_out_received, with n bytes in udd_ctrl_buffer.
OutReceived(d, n) ==
    LET taken == Least(n, d.req.payload - d.nb)
        total == d.nb + taken
    IN  IF d.state = "wait out zlp" THEN CtrlInit(EndOfRequest(d))
        ELSE IF taken # EP_CTRL_SIZE \/ d.req.length <= total
          THEN SendZlpIn([d EXCEPT !.nb = total, !.req.payload = total])
        ELSE IF d.req.payload = total THEN StallData([d EXCEPT !.nb = total])
        ELSE [d EXCEPT !.nb = total, !.outOpen = TRUE, !.tc = Without(@, "out")]

Closed(d) == d.state \in {"wait in zlp", "wait out zlp"}

\* udd_ctrl_setup_received: a setup packet ends what is under way, and the
\* handshake it may have hidden counts.  Every setup packet has its eight
\* bytes here; one that has not is ignored by the code.
SetupReceived(d, r) ==
    LET e == CASE d.state = "setup" -> d
               [] Closed(d) -> CtrlInit(EndOfRequest(d))
               [] OTHER -> CtrlInit(d)
        f == [e EXCEPT !.req = ProcessSetup(r), !.nb = 0, !.served = e.callbacks, !.callbacks = 0]
    IN  IF ~r.ok THEN StallData(f)
        ELSE IF r.in THEN InSent([f EXCEPT !.state = "data in"])
        ELSE IF r.length = 0 THEN SendZlpIn(f)
        ELSE [f EXCEPT !.state = "data out", !.outOpen = TRUE, !.tc = Without(@, "out")]

-----------------------------------------------------------------------------
Idle == [phase |-> "idle", request |-> NoRequest, stopped |-> FALSE, count |-> 0]

ControlInit ==
    /\ state = "setup" /\ req = ProcessSetup(NoRequest) /\ nbTrans = 0 /\ shortPacket = FALSE
    /\ callbacks = 0 /\ served = 0
    /\ inBank = NAK /\ outOpen = FALSE /\ stalled = FALSE
    /\ tc = <<>> /\ setupFlag = FALSE /\ under = FALSE /\ over = FALSE
    /\ setupData = NoRequest /\ outBytes = 0
    /\ host = Idle /\ completed = FALSE /\ transfers = 0

\* The two error interrupts are enabled from a SETUP to the end of its request.
BusEvent == (under \/ over) /\ state # "setup"

\* The transfer complete interrupt, after bus events: a finished packet first,
\* else the SETUP.
TransferComplete ==
    /\ tc # <<>> \/ setupFlag
    /\ ~BusEvent
    /\ IF tc # <<>>
         THEN /\ LET d == [Driver EXCEPT !.tc = Tail(@)]
                 IN  DriverBecomes(IF Head(tc) = "out" THEN OutReceived(d, outBytes) ELSE InSent(d))
              /\ UNCHANGED setupFlag
         ELSE /\ DriverBecomes(SetupReceived(Driver, setupData))
              /\ setupFlag' = FALSE
    /\ UNCHANGED <<setupData, outBytes, hostVars>>

Alone == tc = <<>> /\ ~setupFlag

\* The bus event interrupt for an IN token that was not answered: ignored when
\* a packet is still to be looked at, put off behind a SETUP.
Underflow ==
    /\ BusEvent /\ under
    /\ LET d == [Driver EXCEPT !.under = FALSE]
       IN  DriverBecomes(CASE tc # <<>> -> d
                     [] tc = <<>> /\ setupFlag -> SetupReceived(d, setupData)
                     [] Alone /\ state = "data out" -> SendZlpIn(d)
                     [] Alone /\ state = "wait out zlp" -> [d EXCEPT !.stalled = TRUE]
                     [] OTHER -> d)
    /\ setupFlag' = (setupFlag /\ tc # <<>>)
    /\ UNCHANGED <<setupData, outBytes, hostVars>>

\* The same for an OUT token.
Overflow ==
    /\ BusEvent /\ ~under
    /\ LET d == [Driver EXCEPT !.over = FALSE]
       IN  DriverBecomes(CASE tc # <<>> -> d
                     [] tc = <<>> /\ setupFlag -> SetupReceived(d, setupData)
                     [] Alone /\ state = "data in" -> SendZlpOut(d)
                     [] Alone /\ state = "wait in zlp" -> [d EXCEPT !.stalled = TRUE]
                     [] OTHER -> d)
    /\ setupFlag' = (setupFlag /\ tc # <<>>)
    /\ UNCHANGED <<setupData, outBytes, hostVars>>

-----------------------------------------------------------------------------
(* The controller and the host.  A SETUP packet is always taken; it clears *)
(* a stall, makes both directions answer NAK, and may hide the packet that *)
(* ended the transfer before it.  A host stops a data phase or gives a     *)
(* transfer up only after a time in which interrupts are long served.      *)

Quiet == Alone /\ ~BusEvent

HostSetup(r) ==
    /\ ~setupFlag /\ transfers < TRANSFERS
    /\ host.phase \in {"data", "status"} => Quiet
    /\ transfers' = transfers + 1
    /\ completed' = (host.phase = "done")
    /\ host' = [phase |-> IF r.length = 0 THEN "status" ELSE "data", request |-> r,
                stopped |-> FALSE, count |-> 0]
    /\ setupFlag' = TRUE /\ setupData' = r
    /\ inBank' = NAK /\ outOpen' = FALSE /\ stalled' = FALSE
    /\ tc' \in {tc, <<>>}
    /\ UNCHANGED <<driverVars, under, over, outBytes>>

Refused == host' = [host EXCEPT !.phase = "refused"] /\ UNCHANGED <<bankVars, eventVars>>

\* An IN token of the data or the status phase.
HostIn ==
    /\ host.phase = (IF host.request.in THEN "data" ELSE "status")
    /\ CASE stalled -> Refused
         [] ~stalled /\ inBank = NAK ->
              /\ under' = TRUE
              /\ UNCHANGED <<bankVars, tc, setupFlag, over, setupData, outBytes, host>>
         [] OTHER ->
              /\ tc' = Append(tc, "in") /\ inBank' = NAK
              /\ LET count == host.count + inBank
                 IN  host' = IF ~host.request.in THEN [host EXCEPT !.phase = "done"]
                             ELSE [host EXCEPT !.count = count,
                                     !.phase = IF inBank < EP_CTRL_SIZE \/ count >= host.request.length
                                                 THEN "status" ELSE "data"]
              /\ UNCHANGED <<outOpen, stalled, setupFlag, under, over, setupData, outBytes>>
    /\ UNCHANGED <<driverVars, completed, transfers>>

\* An OUT token of the data or the status phase.
HostOut ==
    /\ host.phase = (IF host.request.in THEN "status" ELSE "data")
    /\ CASE stalled -> Refused
         [] ~stalled /\ ~outOpen ->
              /\ over' = TRUE
              /\ UNCHANGED <<bankVars, tc, setupFlag, under, setupData, outBytes, host>>
         [] OTHER ->
              /\ tc' = Append(tc, "out") /\ outOpen' = FALSE
              /\ LET n == IF host.request.in THEN 0 ELSE Least(EP_CTRL_SIZE, host.request.length - host.count)
                 IN  /\ outBytes' = n
                     /\ host' = IF host.request.in THEN [host EXCEPT !.phase = "done"]
                                ELSE [host EXCEPT !.count = @ + n,
                                        !.phase = IF host.count + n = host.request.length
                                                    THEN "status" ELSE "data"]
              /\ UNCHANGED <<inBank, stalled, setupFlag, under, over, setupData>>
    /\ UNCHANGED <<driverVars, completed, transfers>>

\* The host needs no more data and turns to the status phase.
HostStopsData ==
    /\ host.phase = "data" /\ Quiet
    /\ host' = [host EXCEPT !.phase = "status", !.stopped = TRUE]
    /\ UNCHANGED <<driverVars, bankVars, eventVars, completed, transfers>>

ControlNext ==
    \/ TransferComplete \/ Underflow \/ Overflow
    \/ \E r \in Request : HostSetup(r)
    \/ HostIn \/ HostOut \/ HostStopsData

ControlSpec == ControlInit /\ [][ControlNext]_controlVars

-----------------------------------------------------------------------------
\* A request that is accepted is not stalled later, and a host that reads to
\* the end has got exactly the payload: by the length being reached or by a
\* short packet, also when the payload just fills its packets.
PayloadWhole ==
    host.request.ok /\ host.phase \in {"done", "refused"} =>
        /\ host.phase = "done"
        /\ ~host.stopped => host.count = Least(host.request.size, host.request.length)

\* A transfer that was completed to the host is completed to the device: its
\* callback, which for instance sets the address, has run once and only once.
CallbackOnce ==
    /\ callbacks <= 1
    /\ host.phase = "done" /\ Quiet => callbacks = 1
    /\ host.phase = "refused" /\ Quiet => callbacks = 0
    /\ completed /\ ~setupFlag => served = 1

\* The assertions of udd_ctrl_in_sent and udd_ctrl_out_received: a packet is
\* only finished in a phase that has one.
PhaseAssertions ==
    tc # <<>> => state \in (IF Head(tc) = "in" THEN {"data in", "wait in zlp"}
                                              ELSE {"data out", "wait out zlp"})

\* A request that is accepted is not stalled later, and a host that reads to
\* the end has got exactly the payload, also when it just fills its packets;
\* a transfer that was completed to the host is completed to the device,
\* whose callback has run once and only once; and a packet is only finished
\* in a phase that has one (the assertions of udd_ctrl_in_sent and
\* udd_ctrl_out_received).
TransferWhole == PayloadWhole /\ CallbackOnce /\ PhaseAssertions
=============================================================================
