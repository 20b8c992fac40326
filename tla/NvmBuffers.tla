----------------------------- MODULE NvmBuffers -----------------------------
(***************************************************************************)
(* The EEPROM's block functions of the non-volatile memory driver (nvm.c,   *)
(* nvm.h): buffers of bytes written through the controller's page buffer,   *)
(* which holds one page, keeps what was loaded until a write, and ANDs a    *)
(* location that is loaded twice.  Interrupts between the register accesses *)
(* of one byte are the subject of Eeprom; here the power may fail between   *)
(* two writes.                                                              *)
(***************************************************************************)
EXTENDS Integers, Sequences, FiniteSets, FiniteSetsExt

CONSTANTS
  BITS,                              \* bits of a byte
  EEPROM_SIZE, EEPROM_PAGE_SIZE,
  BUFFERS,                           \* buffers written
  LOADS                              \* whether single bytes may be left in the page buffer

NvmBuffersAssumption ==
  /\ EEPROM_SIZE % EEPROM_PAGE_SIZE = 0 /\ LOADS \in BOOLEAN
  /\ \A b \in BUFFERS : \A k \in 1 .. Len(b) : b[k] \subseteq BITS

VARIABLES
  eeprom,
  buffer,      \* EEPROM page buffer: locations loaded and their bytes
  call,        \* arguments of the function running, or Idle
  done,        \* bytes of the buffer used
  before       \* the memory when the function was called

vars == <<eeprom, buffer, call, done, before>>

Erased == BITS
None == [o \in {} |-> Erased]
Idle == [address |-> 0, bytes |-> <<>>]

Init ==
  /\ eeprom = [a \in 0 .. EEPROM_SIZE - 1 |-> Erased]
  /\ buffer = None /\ call = Idle /\ done = 0 /\ before = None

-----------------------------------------------------------------------------
\* The memory with some bytes of a buffer in place of its own, from an address on.
Overlay(memory, address, bytes) ==
  [a \in DOMAIN memory |->
     IF a - address \in 0 .. Len(bytes) - 1 THEN bytes[a - address + 1] ELSE memory[a]]

\* The page buffer after loading a location: twice is the AND of both.
Load(loaded, o, byte) ==
  [p \in DOMAIN loaded \union {o} |->
     CASE p # o -> loaded[p]
       [] p \in DOMAIN loaded -> loaded[p] \intersect byte
       [] OTHER -> byte]

\* An atomic write of a page: only the locations that were loaded.
WritePage(first, loaded) ==
  [a \in DOMAIN eeprom |->
     IF a - first \in DOMAIN loaded THEN loaded[a - first] ELSE eeprom[a]]

\* A split write of a page does not erase.
SplitWritePage(first, loaded) ==
  [a \in DOMAIN eeprom |->
     IF a - first \in DOMAIN loaded THEN eeprom[a] \intersect loaded[a - first] ELSE eeprom[a]]

PageOf(a) == a - (a % EEPROM_PAGE_SIZE)

\* Faulty: the page buffer is addressed by the whole address.
LocationWhole(a) == a

\* Only the low part of an address says where in the page buffer a byte goes.
Location(a) == a % EEPROM_PAGE_SIZE

-----------------------------------------------------------------------------
\* nvm_eeprom_erase_and_write_buffer is called.
Call(address, bytes) ==
  /\ call = Idle
  /\ address + Len(bytes) <= EEPROM_SIZE
  /\ call' = [address |-> address, bytes |-> bytes]
  /\ done' = 0 /\ before' = eeprom
  /\ UNCHANGED <<eeprom, buffer>>

Rest == Len(call.bytes) - done
At == call.address + done

Used(n) ==
  IF n >= Rest THEN call' = Idle /\ done' = 0 /\ before' = None
  ELSE done' = done + n /\ UNCHANGED <<call, before>>

\* A whole page of the buffer at the start of one.
WriteWholePage ==
  /\ At % EEPROM_PAGE_SIZE = 0 /\ Rest >= EEPROM_PAGE_SIZE
  /\ LET loaded == [o \in 0 .. EEPROM_PAGE_SIZE - 1 |->
                      IF o \in DOMAIN buffer THEN buffer[o] \intersect call.bytes[done + o + 1]
                      ELSE call.bytes[done + o + 1]]
     IN  eeprom' = WritePage(At, loaded)
  /\ buffer' = None /\ Used(EEPROM_PAGE_SIZE)

Flushed == None

\* Or a byte of it: nvm_eeprom_write_byte, which flushes the page buffer first.
WriteByte ==
  /\ Rest > 0
  /\ ~(At % EEPROM_PAGE_SIZE = 0 /\ Rest >= EEPROM_PAGE_SIZE)
  /\ eeprom' = WritePage(PageOf(At), Load(Flushed, Location(At), call.bytes[done + 1]))
  /\ buffer' = None /\ Used(1)

\* Functions on the page buffer itself.
LoadByte ==
  /\ LOADS /\ call = Idle
  /\ \E a \in DOMAIN eeprom, b \in SUBSET BITS : buffer' = Load(buffer, Location(a), b)
  /\ UNCHANGED <<eeprom, call, done, before>>

FillBuffer ==
  /\ LOADS /\ call = Idle
  /\ \E b \in SUBSET BITS : buffer' = [o \in 0 .. EEPROM_PAGE_SIZE - 1 |-> b]
  /\ UNCHANGED <<eeprom, call, done, before>>

SplitWrite ==
  /\ LOADS /\ call = Idle
  /\ \E p \in 0 .. (EEPROM_SIZE \div EEPROM_PAGE_SIZE) - 1 :
       eeprom' = SplitWritePage(p * EEPROM_PAGE_SIZE, buffer)
  /\ buffer' = None
  /\ UNCHANGED <<call, done, before>>

\* Erasing a page, or all of them, goes through a full page buffer.
ErasePage ==
  /\ LOADS /\ call = Idle
  /\ \/ \E p \in 0 .. (EEPROM_SIZE \div EEPROM_PAGE_SIZE) - 1 :
          eeprom' = WritePage(p * EEPROM_PAGE_SIZE,
                              [o \in 0 .. EEPROM_PAGE_SIZE - 1 |-> Erased])
     \/ eeprom' = [a \in DOMAIN eeprom |-> Erased]
  /\ buffer' = None
  /\ UNCHANGED <<call, done, before>>

-----------------------------------------------------------------------------
\* The power fails: the function is lost, the page buffer is empty.
PowerFails ==
  /\ buffer' = None /\ call' = Idle /\ done' = 0 /\ before' = None
  /\ UNCHANGED eeprom

Next ==
  \/ \E bytes \in BUFFERS, address \in 0 .. EEPROM_SIZE - 1 : Call(address, bytes)
  \/ WriteWholePage \/ WriteByte
  \/ LoadByte \/ FillBuffer \/ SplitWrite \/ ErasePage \/ PowerFails

Spec == Init /\ [][Next]_vars

-----------------------------------------------------------------------------
\* A call that ends without a power failure has written its whole buffer and
\* nothing else.
Ended == call # Idle /\ call' = Idle /\ ~PowerFails

WholeWritten == [][Ended => eeprom' = Overlay(before, call.address, call.bytes)]_vars
=============================================================================
