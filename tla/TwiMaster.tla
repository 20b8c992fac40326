----------------------------- MODULE TwiMaster -----------------------------
(***************************************************************************)
(* The TWI master driver (twim.c): a caller that starts a transfer and     *)
(* spins until the interrupt handler has finished it, and the handler,     *)
(* which does one byte per interrupt.  The bus hardware and the chip on it *)
(* are external: the hardware carries out what the driver wrote to its     *)
(* registers and raises the flags, the chip acknowledges bytes or not.     *)
(*                                                                         *)
(* The firmware calls the driver from the main loop only, with an address  *)
(* of one byte to read and an address and a value, as two address bytes,   *)
(* to write (Accelerometer::transmit).                                     *)
(***************************************************************************)
EXTENDS Integers, Sequences

CONSTANTS
    REGISTERS, Values, Packages,
    Faults          \* what may go wrong on the bus

\* A read asks for at least one byte (accelerometer.cpp: 1 or 6).
TwiAssumption ==
    /\ REGISTERS \in Nat \ {0}
    /\ Packages \subseteq [read : BOOLEAN, register : 0 .. REGISTERS - 1, value : Values, length : Nat]
    /\ \A p \in Packages : p.read => p.length > 0

VARIABLES
    twiPc,             \* the caller
    package,        \* the transfer's package, a sequence of at most one
    transfer,       \* [locked, status, addr_count, data_count]
    twiBuffer,         \* bytes read
    bus,            \* bus state in MASTER.STATUS
    flags,          \* other flags in MASTER.STATUS
    wire,           \* what the hardware is doing
    sent,           \* the byte being sent
    registers,      \* the chip's registers
    pointer,        \* the register the chip is at, -1 before it was told
    stored,         \* the chip has stored the value of this transfer
    result          \* [ok, bytes] of the last transfer

driver == <<twiPc, package, transfer, twiBuffer, result>>

twiHardware == <<bus, flags, wire, sent>>

chipVars == <<registers, pointer, stored>>

twiVars == <<driver, twiHardware, chipVars>>

NoTransfer == [locked |-> FALSE, status |-> "STATUS_OK", addr_count |-> 0,
         data_count |-> 0]

\* twi_master_init, which enables interrupts too: the handler runs from here on.
TwiInit ==
    /\ twiPc = "idle" /\ package = <<>> /\ transfer = NoTransfer /\ twiBuffer = <<>>
    /\ bus = "IDLE" /\ flags = {} /\ wire = "none" /\ sent = 0
    /\ registers \in [0 .. REGISTERS - 1 -> Values]
    /\ pointer = -1 /\ stored = FALSE
    /\ result = [ok |-> FALSE, bytes |-> <<>>]

-----------------------------------------------------------------------------
\* The caller.

\* twim_acquire, with one caller that never finds the lock taken.
Acquired == [locked |-> TRUE, status |-> "OPERATION_IN_PROGRESS",
             addr_count |-> 0, data_count |-> 0]

twim_idle == bus = "IDLE"

\* twi_master_transfer up to its wait: an address is written first
\* even to read, and the direction is turned after it.
StartTransfer ==
    /\ twiPc = "idle" /\ ~transfer.locked
    /\ \E p \in Packages : package' = <<p>>
    /\ transfer' = Acquired /\ twiBuffer' = <<>>
    /\ twiPc' = "status"
    /\ wire' = "address" /\ bus' = "OWNER"
    /\ stored' = FALSE /\ pointer' = -1
    /\ UNCHANGED <<flags, sent, registers, result>>

SeeStatus ==
    /\ twiPc = "status" /\ transfer.status # "OPERATION_IN_PROGRESS"
    /\ twiPc' = "bus"
    /\ UNCHANGED <<package, transfer, twiBuffer, result, twiHardware, chipVars>>

\* The bytes of a package that failed are never looked at.
Release ==
    /\ twiPc = "bus" /\ twim_idle
    /\ LET ok == transfer.status = "STATUS_OK"
       IN  result' = [ok |-> ok,
                      bytes |-> IF ok THEN twiBuffer ELSE <<>>]
    /\ transfer' = NoTransfer /\ twiBuffer' = <<>> /\ package' = <<>>
    /\ twiPc' = "idle"
    /\ stored' = FALSE /\ pointer' = -1
    /\ UNCHANGED <<twiHardware, registers>>

-----------------------------------------------------------------------------
\* The interrupt handler.

AddressLength(p) == IF p.read THEN 1 ELSE 2

Length(p) == IF p.read THEN p.length ELSE 0

AddressByte(p) == IF transfer.addr_count = 0 THEN p.register ELSE p.value

EndTransfer(status) ==
    /\ wire' = IF bus = "OWNER" THEN "stop" ELSE "none"
    /\ transfer' = [transfer EXCEPT !.status = status]
    /\ UNCHANGED <<twiBuffer, sent>>

twim_write_handler(p) ==
    IF transfer.addr_count < AddressLength(p)
    THEN /\ wire' = "byte" /\ sent' = AddressByte(p)
         /\ transfer' = [transfer EXCEPT !.addr_count = @ + 1]
         /\ UNCHANGED twiBuffer
    ELSE IF transfer.data_count < Length(p)
    THEN wire' = "turn" /\ UNCHANGED <<transfer, twiBuffer, sent>>
    ELSE EndTransfer("STATUS_OK")

\* The hardware has the byte at the chip's pointer, which moved on.
Received == registers[(pointer + REGISTERS - 1) % REGISTERS]

More(p) == transfer.data_count + 1 < Length(p)

twim_read_handler(p) ==
    IF transfer.data_count < Length(p)
    THEN /\ twiBuffer' = Append(twiBuffer, Received)
         /\ wire' = IF More(p) THEN "receive" ELSE "stop"
         /\ transfer' = [transfer EXCEPT
                            !.data_count = @ + 1,
                            !.status = IF More(p) THEN @ ELSE "STATUS_OK"]
         /\ UNCHANGED sent
    ELSE EndTransfer("ERR_NO_MEMORY")

\* Faulty: a byte that was not acknowledged is taken for sent.
twim_interrupt_handlerDeaf ==
    /\ flags \cap {"WIF", "RIF"} # {}
    /\ LET p == package[1]
       IN  CASE "ARBLOST" \in flags -> EndTransfer("ERR_BUSY")
             [] "ARBLOST" \notin flags /\ "BUSERR" \in flags ->
                   EndTransfer("ERR_IO_ERROR")
             [] flags \in {{"WIF"}, {"WIF", "RXACK"}} -> twim_write_handler(p)
             [] OTHER -> twim_read_handler(p)
    /\ flags' = {}
    /\ UNCHANGED <<twiPc, package, result, bus, chipVars>>

twim_interrupt_handler ==
    /\ flags \cap {"WIF", "RIF"} # {}
    /\ LET p == package[1]
       IN  CASE "ARBLOST" \in flags -> EndTransfer("ERR_BUSY")
             [] "ARBLOST" \notin flags /\ flags \cap {"BUSERR", "RXACK"} # {} ->
                   EndTransfer("ERR_IO_ERROR")
             [] flags = {"WIF"} -> twim_write_handler(p)
             [] flags = {"RIF"} -> twim_read_handler(p)
             [] OTHER -> EndTransfer("ERR_PROTOCOL")
    /\ flags' = {}
    /\ UNCHANGED <<twiPc, package, result, bus, chipVars>>

-----------------------------------------------------------------------------
\* The bus hardware, and the chip.

\* The chip takes the first byte it is sent as the register's address and
\* the next as its value.
Acknowledge ==
    /\ wire \in {"address", "byte", "turn", "receive"}
    /\ flags' = IF wire \in {"address", "byte"} THEN {"WIF"} ELSE {"RIF"}
    /\ CASE wire = "address" -> UNCHANGED chipVars
         [] wire = "byte" /\ pointer = -1 ->
               pointer' = sent /\ UNCHANGED <<registers, stored>>
         [] wire = "byte" /\ pointer # -1 ->
               /\ registers' = [registers EXCEPT ![pointer] = sent]
               /\ stored' = TRUE
               /\ UNCHANGED pointer
         [] OTHER ->
               /\ pointer' = (pointer + 1) % REGISTERS
               /\ UNCHANGED <<registers, stored>>
    /\ wire' = "none"
    /\ UNCHANGED <<driver, bus, sent>>

Refuse ==
    /\ "nack" \in Faults
    /\ wire \in {"address", "byte", "turn"}
    /\ flags' = {"WIF", "RXACK"} /\ wire' = "none"
    /\ UNCHANGED <<driver, bus, sent, chipVars>>

BusError ==
    /\ "error" \in Faults
    /\ wire \in {"address", "byte", "turn", "receive"}
    /\ flags' = {"WIF", "BUSERR"} /\ wire' = "none"
    /\ UNCHANGED <<driver, bus, sent, chipVars>>

LoseArbitration ==
    /\ "lost" \in Faults
    /\ wire \in {"address", "byte", "turn"}
    /\ flags' = {"WIF", "ARBLOST"} /\ wire' = "none" /\ bus' = "BUSY"
    /\ UNCHANGED <<driver, sent, chipVars>>

Stopped ==
    /\ wire = "stop"
    /\ wire' = "none" /\ bus' = "IDLE"
    /\ UNCHANGED <<driver, flags, sent, chipVars>>

Freed ==
    /\ bus = "BUSY" /\ bus' = "IDLE"
    /\ UNCHANGED <<driver, flags, wire, sent, chipVars>>

TwiNext ==
    \/ StartTransfer \/ SeeStatus \/ Release \/ twim_interrupt_handler
    \/ Acknowledge \/ Refuse \/ BusError \/ LoseArbitration \/ Stopped \/ Freed

TwiSpec == TwiInit /\ [][TwiNext]_twiVars

-----------------------------------------------------------------------------
Bus == INSTANCE RegisterBus WITH
    call <- package, answer <- result,
    done <- /\ package # <<>>
            /\ \/ stored
               \/ package[1].read /\ transfer.data_count = package[1].length

\* The interrupt handler and the spinning caller together implement
\* RegisterBus: a transfer that succeeds has read the registers or stored
\* the value, and one that fails leaves the others alone
\* (twi_master_transfer, twim_interrupt_handler).
Served == Bus!BusSpec
=============================================================================
