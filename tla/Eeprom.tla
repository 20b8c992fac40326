------------------------------- MODULE Eeprom -------------------------------
(***************************************************************************)
(* The EEPROM driver (nvm.c, nvm.h), used by the main loop and, between    *)
(* any two of its accesses to the controller, by the motors' save timer    *)
(* interrupt.  The controller has one command register, one address        *)
(* register, one mapping bit and one page buffer.  The interrupt saves and *)
(* restores the registers around its own use; the page buffer is not a     *)
(* register.                                                               *)
(*                                                                         *)
(* A byte is a set of bits, so that loading a location of the page buffer  *)
(* twice ANDs the bytes, as the controller does.                           *)
(***************************************************************************)
EXTENDS Naturals

CONSTANTS
    EEPROM_SIZE, EEPROM_PAGE_SIZE,
    BITS,                  \* the bits of a byte
    SAVED,                 \* addresses that the save interrupt writes
    ACCESSES               \* accesses of the main loop

EepromAssumption ==
    /\ EEPROM_SIZE \in Nat \ {0} /\ EEPROM_PAGE_SIZE \in Nat \ {0}
    /\ SAVED \subseteq 0 .. EEPROM_SIZE - 1 /\ ACCESSES \in Nat

Address == 0 .. EEPROM_SIZE - 1
Byte == SUBSET BITS
Erased == BITS
Offset(a) == a % EEPROM_PAGE_SIZE
Page(a) == {b \in Address : b \div EEPROM_PAGE_SIZE = a \div EEPROM_PAGE_SIZE}

NO_OPERATION == "NO_OPERATION"
ERASE_EEPROM_BUFFER == "ERASE_EEPROM_BUFFER"
ERASE_WRITE_EEPROM_PAGE == "ERASE_WRITE_EEPROM_PAGE"

VARIABLES
    eeprom,
    buffer,                \* page buffer: the locations loaded and their bytes
    NVM,                   \* registers: CMD, ADDR and the mapping bit of CTRLB
    pc, address, value, old_cmd,   \* the main loop's access
    written,               \* the bytes each cell was asked to hold
    accesses

eepromVars == <<eeprom, buffer, NVM, pc, address, value, old_cmd, written, accesses>>

Empty == [o \in {} |-> Erased]
EELOAD == DOMAIN buffer # {}

EepromTypeOK ==
    /\ eeprom \in [Address -> Byte]
    /\ DOMAIN buffer \subseteq 0 .. EEPROM_PAGE_SIZE - 1
    /\ \A o \in DOMAIN buffer : buffer[o] \in Byte
    /\ NVM \in [CMD : {NO_OPERATION, ERASE_EEPROM_BUFFER, ERASE_WRITE_EEPROM_PAGE},
                ADDR : Address, mapped : BOOLEAN]
    /\ pc \in {"ready", "flush", "map", "load", "unmap", "address", "command",
               "exec", "restore", "written", "read map", "read", "read unmap", "have"}
    /\ address \in Address /\ value \in Byte
    /\ old_cmd \in {NO_OPERATION, ERASE_EEPROM_BUFFER, ERASE_WRITE_EEPROM_PAGE}
    /\ written \in [Address -> SUBSET Byte]
    /\ accesses \in 0 .. ACCESSES

EepromInit ==
    /\ eeprom = [a \in Address |-> Erased]
    /\ buffer = Empty
    /\ NVM = [CMD |-> NO_OPERATION, ADDR |-> 0, mapped |-> FALSE]
    /\ pc = "ready" /\ address = 0 /\ value = Erased /\ old_cmd = NO_OPERATION
    /\ written = [a \in Address |-> {Erased}]
    /\ accesses = 0

-----------------------------------------------------------------------------
(* The controller.                                                         *)

\* A store to a mapped location loads the page buffer; bytes are ANDed.
Load(buf, a, byte) ==
    [o \in DOMAIN buf \cup {Offset(a)} |->
        IF o # Offset(a) THEN buf[o]
        ELSE IF o \in DOMAIN buf THEN buf[o] \cap byte ELSE byte]

\* Erase and write of the loaded locations of the page that holds ADDR.
Programmed(cells, buf, addr) ==
    [a \in Address |-> IF a \in Page(addr) /\ Offset(a) \in DOMAIN buf
                       THEN buf[Offset(a)] ELSE cells[a]]

nvm_exec ==
    /\ eeprom' = IF NVM.CMD = ERASE_WRITE_EEPROM_PAGE
                 THEN Programmed(eeprom, buffer, NVM.ADDR) ELSE eeprom
    /\ buffer' = IF NVM.CMD = NO_OPERATION THEN buffer ELSE Empty

-----------------------------------------------------------------------------
(* The main loop: nvm_eeprom_write_byte and nvm_eeprom_read_byte, one step *)
(* for each access to the controller.                                      *)

Goto(from, to) == pc = from /\ pc' = to
Access == <<address, value, old_cmd, written, accesses>>

StartWrite(a, byte) ==
    /\ Goto("ready", "flush")
    /\ accesses < ACCESSES /\ accesses' = accesses + 1
    /\ address' = a /\ value' = byte /\ old_cmd' = NVM.CMD
    /\ written' = [written EXCEPT ![a] = @ \cup {byte}]
    /\ UNCHANGED <<eeprom, buffer, NVM>>

nvm_eeprom_flush_buffer ==
    /\ Goto("flush", "map")
    /\ NVM' = IF EELOAD THEN [NVM EXCEPT !.CMD = ERASE_EEPROM_BUFFER] ELSE NVM
    /\ buffer' = Empty
    /\ UNCHANGED <<eeprom, Access>>

EnableMapping ==
    /\ Goto("map", "load") \/ Goto("read map", "read")
    /\ NVM' = [NVM EXCEPT !.mapped = TRUE]
    /\ UNCHANGED <<eeprom, buffer, Access>>

LoadByte ==
    /\ Goto("load", "unmap")
    /\ buffer' = IF NVM.mapped THEN Load(buffer, address, value) ELSE buffer
    /\ UNCHANGED <<eeprom, NVM, Access>>

DisableMapping ==
    /\ Goto("unmap", "address") \/ Goto("read unmap", "have")
    /\ NVM' = [NVM EXCEPT !.mapped = FALSE]
    /\ UNCHANGED <<eeprom, buffer, Access>>

SetAddress ==
    /\ Goto("address", "command")
    /\ NVM' = [NVM EXCEPT !.ADDR = address]
    /\ UNCHANGED <<eeprom, buffer, Access>>

SetCommand ==
    /\ Goto("command", "exec")
    /\ NVM' = [NVM EXCEPT !.CMD = ERASE_WRITE_EEPROM_PAGE]
    /\ UNCHANGED <<eeprom, buffer, Access>>

Execute ==
    /\ Goto("exec", "restore")
    /\ nvm_exec
    /\ UNCHANGED <<NVM, Access>>

RestoreCommand ==
    /\ Goto("restore", "written")
    /\ NVM' = [NVM EXCEPT !.CMD = old_cmd]
    /\ UNCHANGED <<eeprom, buffer, Access>>

StartRead(a) ==
    /\ Goto("ready", "read map")
    /\ accesses < ACCESSES /\ accesses' = accesses + 1
    /\ address' = a
    /\ UNCHANGED <<eeprom, buffer, NVM, value, old_cmd, written>>

\* Without the mapping the location is not EEPROM and holds no data.
ReadByte ==
    /\ Goto("read", "read unmap")
    /\ value' = IF NVM.mapped THEN eeprom[address] ELSE {}
    /\ UNCHANGED <<eeprom, buffer, NVM, address, old_cmd, written, accesses>>

Return ==
    /\ pc \in {"written", "have"} /\ pc' = "ready"
    /\ UNCHANGED <<eeprom, buffer, NVM, Access>>

-----------------------------------------------------------------------------
(* The save interrupt: waits until the controller is ready, writes a byte  *)
(* that changed, waits again and puts the registers back.                  *)

\* Faulty: the interrupt writes without emptying the page buffer first.
SaveWithoutFlush(a, byte) ==
    /\ eeprom[a] # byte
    /\ eeprom' = Programmed(eeprom, Load(buffer, a, byte), a)
    /\ buffer' = Empty
    /\ written' = [written EXCEPT ![a] = @ \cup {byte}]
    /\ UNCHANGED <<NVM, pc, address, value, old_cmd, accesses>>

Save(a, byte) ==
    /\ eeprom[a] # byte
    /\ eeprom' = Programmed(eeprom, Load(Empty, a, byte), a)
    /\ buffer' = Empty
    /\ written' = [written EXCEPT ![a] = @ \cup {byte}]
    /\ UNCHANGED <<NVM, pc, address, value, old_cmd, accesses>>

EepromNext ==
    \/ \E a \in Address, byte \in Byte : StartWrite(a, byte)
    \/ \E a \in Address : StartRead(a)
    \/ nvm_eeprom_flush_buffer \/ EnableMapping \/ LoadByte \/ DisableMapping
    \/ SetAddress \/ SetCommand \/ Execute \/ RestoreCommand \/ ReadByte \/ Return
    \/ \E a \in SAVED, byte \in Byte : Save(a, byte)

EepromSpec == EepromInit /\ [][EepromNext]_eepromVars

-----------------------------------------------------------------------------
(* A cell only ever holds a byte that was written to that very cell: no    *)
(* interleaving of the two writers merges their bytes in the page buffer   *)
(* or programs a byte into the other one's page.                           *)
CellsHoldWhatWasWritten == \A a \in Address : eeprom[a] \in written[a]

(* A read of the main loop returns what the cell held, although the        *)
(* interrupt uses the mapping bit in between.                              *)
ReadReturnsTheCell == [][pc = "read" /\ pc' = "read unmap" => value' = eeprom[address]]_eepromVars

(* A write of the main loop changes no other cell, and between accesses    *)
(* the registers and the page buffer are as the driver left them at reset. *)
WriteTouchesOneCell ==
    [][pc = "exec" /\ pc' = "restore" =>
          \A a \in Address \ {address} : eeprom'[a] = eeprom[a]]_eepromVars
QuietBetweenAccesses ==
    pc = "ready" => ~EELOAD /\ NVM.CMD = NO_OPERATION /\ ~NVM.mapped
=============================================================================
