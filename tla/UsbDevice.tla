------------------------------ MODULE UsbDevice ------------------------------
(***************************************************************************)
(* The USB device as its host configures it: addresses, configurations,    *)
(* interfaces and halts (udc.c), the endpoints and the transfers running   *)
(* on them (usb_device.c), and what the serial port of udi_cdc.c starts    *)
(* and notes of them.  Whenever the data interface is disabled,            *)
(* cdcDisconnectCallback detaches and attaches the device at once, within  *)
(* the interrupt; the host may or may not notice.                          *)
(*                                                                         *)
(* A control request is one step here; its phases are ControlEndpoint's.   *)
(***************************************************************************)
EXTENDS Integers, FiniteSets

CONSTANT
    HOSTS           \* the hosts there may be: the alternate settings one asks for (0
                    \* exists), the endpoints it halts, and a bound on what it does to
                    \* a device that it has configured

VARIABLES
    address,        \* the device's address
    config,         \* udc_num_configuration
    allocated,      \* the endpoints that are enabled
    busy,           \* the endpoints with a job (udd_ep_job.busy)
    halted,         \* the endpoints that answer STALL
    ongoing,        \* rx_ and tx_trans_ongoing, as the set of their endpoints
    running,        \* udi_cdc_data_running
    enabled,        \* the interfaces counted in udi_cdc_nb_..._enabled
    underflow,      \* an interface was disabled that was not enabled
    hostSide,           \* how far the host is, the address it uses, what it halted
    told,           \* the answer to the host's last GET request
    made,           \* what the host did so far
    asks            \* which of the hosts it is

deviceVars == <<address, config, allocated, busy, halted, ongoing, running, enabled, underflow,
                hostSide, told, made, asks>>

Endpoint == {"comm", "out", "in"}
Interface == {0, 1}
EndpointsOf(i) == IF i = 0 THEN {"comm"} ELSE {"out", "in"}

DeviceAssumption ==
    \A h \in HOSTS : h.requests \in Nat /\ h.settings \subseteq Nat /\ h.halts \subseteq Endpoint

DeviceInit ==
    /\ address = 0 /\ config = 0 /\ allocated = {} /\ busy = {} /\ halted = {}
    /\ ongoing = {} /\ running = FALSE /\ enabled = {} /\ underflow = FALSE
    /\ hostSide = [phase |-> "unseen", address |-> 0, halts |-> {}]
    /\ told = [of |-> "configuration", value |-> FALSE] /\ made = 0
    /\ asks \in HOSTS

-----------------------------------------------------------------------------
(* The driver and the device controller, on the device's state as a record *)
(* whose "detached" field says that the device left the bus meanwhile.     *)

Device == [address |-> address, config |-> config, allocated |-> allocated, busy |-> busy,
           halted |-> halted, ongoing |-> ongoing, running |-> running, enabled |-> enabled,
           underflow |-> underflow, detached |-> FALSE]

DeviceBecomes(d) ==
    /\ address' = d.address /\ config' = d.config /\ allocated' = d.allocated
    /\ busy' = d.busy /\ halted' = d.halted /\ ongoing' = d.ongoing
    /\ running' = d.running /\ enabled' = d.enabled /\ underflow' = d.underflow

\* udd_ep_abort: the callbacks of the serial port take no notice of an abort.
Abort(d, eps) == [d EXCEPT !.busy = @ \ eps]

\* udd_ep_free: the endpoint's control register is cleared, its halt with it.
Free(d, eps) == [Abort(d, eps) EXCEPT !.allocated = @ \ eps, !.halted = @ \ eps]

\* udd_ep_run: what was started, if it could be.
CanRun(d, ep) == ep \in d.allocated /\ ep \notin d.halted /\ ep \notin d.busy

Run(d, ep) == IF CanRun(d, ep) THEN [d EXCEPT !.busy = @ \cup {ep}] ELSE d

\* udi_cdc_rx_start and udi_cdc_tx_send: noted first, then started.
Start(d, ep) == IF ep \in d.ongoing THEN d ELSE Run([d EXCEPT !.ongoing = @ \cup {ep}], ep)

\* The UDI's part of disabling and of enabling an interface.
UdiDisable(d, i) ==
    [d EXCEPT !.underflow = @ \/ i \notin d.enabled, !.enabled = @ \ {i},
              !.running = IF i = 1 THEN FALSE ELSE @,
              !.detached = @ \/ i = 1]

UdiEnable(d, i) ==
    IF i = 0 THEN [d EXCEPT !.enabled = @ \cup {0}]
    ELSE LET e == Start([d EXCEPT !.ongoing = {}], "out")
         IN  IF "out" \in e.busy /\ CanRun(d, "out")
               THEN [e EXCEPT !.enabled = @ \cup {1}, !.running = TRUE] ELSE e

\* udc_iface_disable
IfaceDisable(d, i) == IF d.config = 0 THEN d ELSE UdiDisable(Free(d, EndpointsOf(i)), i)

\* udc_iface_enable; the interface is enabled after it exactly if it succeeded.
IfaceEnable(d, i, setting) ==
    IF setting # 0 \/ EndpointsOf(i) \cap d.allocated # {} THEN d
    ELSE UdiEnable([d EXCEPT !.allocated = @ \cup EndpointsOf(i),
                             !.halted = @ \ EndpointsOf(i)], i)

\* udc_reset
UdcReset(d) == [IfaceDisable(IfaceDisable(d, 0), 1) EXCEPT !.config = 0]

\* udc_req_std_dev_set_configuration, after its checks.
Configured(d, number) ==
    LET e == [UdcReset(d) EXCEPT !.config = number]
        f == IfaceEnable(e, 0, 0)
    IN  CASE number = 0 -> e
          [] number # 0 /\ 0 \notin f.enabled -> f
          [] OTHER -> IfaceEnable(f, 1, 0)

Whole(d) == d.enabled = Interface /\ d.allocated = Endpoint

-----------------------------------------------------------------------------
(* The host.  A device that was detached and attached again may have been  *)
(* missed for too short a time to be noticed.                              *)

Notices(d, phase, halts) ==
    \E noticed \in IF d.detached THEN BOOLEAN ELSE {FALSE} :
        hostSide' = [hostSide EXCEPT !.phase = IF noticed THEN "unseen" ELSE phase,
                             !.address = IF phase = "default" THEN 0 ELSE @,
                             !.halts = halts]

\* A bus reset, which a host starts an attached device with and may give at any
\* time: every job is aborted and the device is as after a start.
BusReset ==
    /\ hostSide.phase = "unseen" \/ made < asks.requests
    /\ LET d == [UdcReset(Abort(Device, Endpoint)) EXCEPT !.address = 0]
       IN  DeviceBecomes(d) /\ Notices(d, "default", {})
    /\ made' = IF hostSide.phase = "unseen" THEN made ELSE made + 1
    /\ UNCHANGED told

\* SET_ADDRESS; the callback sets the address after the handshake.
SetAddress ==
    /\ hostSide.phase = "default"
    /\ address' = 1
    /\ hostSide' = [hostSide EXCEPT !.phase = "addressed", !.address = 1]
    /\ UNCHANGED <<config, allocated, busy, halted, ongoing, running, enabled, underflow,
                   told, made>>

\* SET_CONFIGURATION: refused with an address of 0 or an unknown number; else
\* what was configured is reset and the interfaces are enabled.
SetConfiguration(number) ==
    /\ hostSide.phase = "addressed" \/ (hostSide.phase = "configured" /\ made < asks.requests)
    /\ made' = IF hostSide.phase = "configured" THEN made + 1 ELSE made
    /\ IF address = 0 \/ number > 1
         THEN UNCHANGED <<address, config, allocated, busy, halted, ongoing, running,
                          enabled, underflow, hostSide>>
         ELSE LET d == Configured(Device, number)
              IN  /\ DeviceBecomes(d)
                  /\ Notices(d, CASE number = 0 -> "addressed"
                                  [] number = 1 /\ Whole(d) -> "configured"
                                  [] OTHER -> hostSide.phase, {})
    /\ UNCHANGED told

\* SET_INTERFACE: the interface is disabled before the setting is looked for.
SetInterface(i, setting) ==
    /\ hostSide.phase = "configured" /\ made < asks.requests
    /\ made' = made + 1
    /\ LET d == IfaceEnable(IfaceDisable(Device, i), i, setting)
       IN  DeviceBecomes(d) /\ Notices(d, "configured", hostSide.halts \ EndpointsOf(i))
    /\ UNCHANGED told

\* SET_FEATURE and CLEAR_FEATURE of ENDPOINT_HALT.
SetHalt(ep) ==
    /\ hostSide.phase = "configured" /\ made < asks.requests
    /\ made' = made + 1
    /\ DeviceBecomes([Abort(Device, {ep}) EXCEPT !.halted = @ \cup {ep}])
    /\ hostSide' = [hostSide EXCEPT !.halts = @ \cup {ep}]
    /\ UNCHANGED told

ClearHalt(ep) ==
    /\ hostSide.phase = "configured" /\ ep \in halted
    /\ halted' = halted \ {ep}
    /\ hostSide' = [hostSide EXCEPT !.halts = @ \ {ep}]
    /\ UNCHANGED <<address, config, allocated, busy, ongoing, running, enabled, underflow,
                   told, made>>

\* GET_CONFIGURATION and GET_STATUS of an endpoint.
GetConfiguration ==
    /\ hostSide.phase \in {"addressed", "configured"}
    /\ told' = [of |-> "configuration", value |-> config = 1]
    /\ UNCHANGED <<address, config, allocated, busy, halted, ongoing, running, enabled,
                   underflow, hostSide, made>>

GetStatus(ep) ==
    /\ hostSide.phase = "configured"
    /\ told' = [of |-> ep, value |-> ep \in halted]
    /\ UNCHANGED <<address, config, allocated, busy, halted, ongoing, running, enabled,
                   underflow, hostSide, made>>

-----------------------------------------------------------------------------
(* Data.  A transfer's end (udd_ep_trans_complet) frees the job before the *)
(* serial port's callback starts the next one.                             *)

Ended(d, ep) == [d EXCEPT !.busy = @ \ {ep}, !.ongoing = @ \ {ep}]

\* Faulty: the next packet is not asked for.
DataReceivedOnce ==
    /\ hostSide.phase = "configured" /\ "out" \in busy \ halted
    /\ DeviceBecomes(Ended(Device, "out"))
    /\ UNCHANGED <<hostSide, told, made>>

\* A packet from the host, which the firmware reads at once.
DataReceived ==
    /\ hostSide.phase = "configured" /\ "out" \in busy \ halted
    /\ DeviceBecomes(Start(Ended(Device, "out"), "out"))
    /\ UNCHANGED <<hostSide, told, made>>

\* A packet to the host, and its end.
TxSend ==
    /\ running /\ "in" \notin ongoing
    /\ DeviceBecomes(Start(Device, "in"))
    /\ UNCHANGED <<hostSide, told, made>>

PacketSent ==
    /\ hostSide.phase = "configured" /\ "in" \in busy \ halted
    /\ DeviceBecomes(Ended(Device, "in"))
    /\ UNCHANGED <<hostSide, told, made>>

DeviceNext ==
    /\ \/ BusReset \/ SetAddress
       \/ \E number \in 0 .. 2 : SetConfiguration(number)
       \/ \E i \in Interface, setting \in asks.settings : SetInterface(i, setting)
       \/ \E ep \in asks.halts : SetHalt(ep)
       \/ \E ep \in asks.halts : ClearHalt(ep)
       \/ GetConfiguration
       \/ \E ep \in Endpoint : GetStatus(ep)
       \/ DataReceived \/ TxSend \/ PacketSent
    /\ UNCHANGED asks

DeviceSpec == DeviceInit /\ [][DeviceNext]_deviceVars

-----------------------------------------------------------------------------
\* A host that has configured the device talks to a configured device, under
\* its address; a host that has yet to configure it has a device that is not.
\* One that asks only for settings that exist has every endpoint allocated and
\* the serial port running, and, as long as it halts nothing, a transfer waits
\* for its data.
ConfigurationAgreed ==
    /\ hostSide.phase # "unseen" => address = hostSide.address
    /\ hostSide.phase \in {"default", "addressed"} => config = 0
    /\ hostSide.phase = "configured" =>
        /\ config = 1
        /\ asks.settings = {0} =>
            /\ running /\ allocated = Endpoint /\ enabled = Interface
            /\ asks.halts = {} => "out" \in busy

\* No transfer runs on an endpoint that was given back, and none is left from an
\* earlier configuration when the device is not configured.
JobsAllocated == busy \subseteq allocated /\ (config = 0 => busy = {})

\* The flags that signal an ongoing transfer are right while the port runs: a
\* transfer that is said to be going on has its job, if the host halts nothing.
OngoingRuns == asks.halts = {} /\ running => ongoing \subseteq busy

\* The assertion of udi_cdc_data_disable and udi_cdc_comm_disable: an interface
\* that is disabled was enabled, unless the host asks for settings that do not
\* exist.  One that asks twice for such a setting of an interface breaks the
\* assertion: the first request disables the interface and is refused.
DisabledOnce == asks.settings = {0} => ~underflow

\* The host is told what it brought about: that it configured the device, and
\* which endpoints it halted since it last did or asked for a setting of theirs.
AnswersTrue ==
    [][told' # told => told'.value = IF told'.of = "configuration" THEN hostSide.phase = "configured"
                                     ELSE told'.of \in hostSide.halts]_deviceVars

\* Whatever was reset, configured again or detached on the way, host and device
\* agree: a host that has configured the device talks to a configured device,
\* under its address, with every endpoint allocated, the serial port running and
\* a transfer waiting for the host's data (unless it halted an endpoint or asked
\* for a setting that does not exist); no transfer runs on an endpoint that was
\* given back or is left from an earlier configuration; one that is said to be
\* going on has its job, unless endpoints are halted; an interface that is
\* disabled was enabled (the assertions of udi_cdc_data_disable and
\* udi_cdc_comm_disable), unless the host asks for settings that do not exist,
\* where the assertion fails at the second request; and the host is told what
\* it brought about.
Agreement ==
    /\ [](ConfigurationAgreed /\ JobsAllocated /\ OngoingRuns /\ DisabledOnce)
    /\ AnswersTrue
=============================================================================
