---------------------------- MODULE HostCommands ----------------------------
(***************************************************************************)
(* The host commands (main.cpp, ENABLE_HOST_COMMANDS): reports of the lock  *)
(* and fuse bytes, of every memory and signature of the controller, and of  *)
(* checksums that the CRC module computes over the flash (crc.c, nvm.c).    *)
(*                                                                          *)
(* Everything here goes through the registers of the one non-volatile       *)
(* memory controller, which the motors' save interrupt uses between any two *)
(* accesses.  A range checksum takes its ends from registers whose highest  *)
(* bytes the driver does not set on a device of this size.                  *)
(*                                                                          *)
(* A digit is one bit here: a byte is two digits, a checksum CRC_BYTES      *)
(* bytes.  The answer is the sequence of groups of digits that follow the   *)
(* ok.                                                                      *)
(***************************************************************************)
EXTENDS Integers, Sequences, SequencesExt, FiniteSetsExt, TLC

CONSTANTS
  FLASH,           \* bytes of the flash: application, then bootloader
  APPTABLE_SECTION_START, BOOT_SECTION_START,
  ROWS,            \* bytes of "Lock bits", "Fuse bytes", "Device ID", "Device
                   \* revision" and of the two signatures
  SERIAL,          \* bytes of the production signature that are the device serial
  EEPROM,          \* bytes of the EEPROM at the start
  SAVED,           \* address that the save interrupt writes
  CRC_BYTES,
  LEFT_OVER        \* high bytes that the bootloader may leave in ADDR2 and DATA2

HostCommandsAssumption ==
  /\ CRC_BYTES \in Nat \ {0}
  /\ 0 < APPTABLE_SECTION_START /\ APPTABLE_SECTION_START < BOOT_SECTION_START
  /\ BOOT_SECTION_START < Len(FLASH)

Byte == 0 .. 3
BITS == 2 * CRC_BYTES
UINT_MAX == 2 ^ BITS - 1
HIGH == 1000       \* what a high byte stands for in an address

VARIABLES
  command,    \* host command being processed, or "none"
  pc, i,      \* step of it and the loop's index
  sent,       \* groups of digits sent for it
  crc_initial_value, CHECKSUM,   \* CRC module
  NVM,        \* CMD, ADDR, ADDR2, DATA, DATA2
  old_cmd,
  eeprom

vars == <<command, pc, i, sent, crc_initial_value, CHECKSUM, NVM, old_cmd, eeprom>>

-----------------------------------------------------------------------------
\* ltoa: the digits of a number, most significant first, none before them.
RECURSIVE ltoa(_)
ltoa(n) == IF n < 2 THEN <<n>> ELSE Append(ltoa(n \div 2), n % 2)

\* Faulty: nothing is prepended.
PaddedNever(buffer, size) == buffer

leadingPadBuffer(buffer, size) ==
  [k \in 1 .. size - Len(buffer) |-> 0] \o buffer

\* The groups of digits of a checksum, byte by byte.
Groups(crc) ==
  LET digits == leadingPadBuffer(ltoa(crc), BITS)
  IN  [b \in 1 .. CRC_BYTES |->
         SubSeq(digits, 2 * b - 1, Min({2 * b, Len(digits)}))]

Group(byte) == leadingPadBuffer(ltoa(byte), 2)

Bit(n, k) == (n \div 2 ^ k) % 2

reverseBits(n) == MapThenSumSet(LAMBDA k : Bit(n, k) * 2 ^ (BITS - 1 - k), 0 .. BITS - 1)

Complement(n) == UINT_MAX - n

-----------------------------------------------------------------------------
\* Checksum the CRC module has after some bytes.
Sum(seed, bytes) == FoldLeft(LAMBDA c, b : (c * 5 + b + 1) % (UINT_MAX + 1), seed, bytes)

\* Bytes of the flash between two addresses.
Between(from, to) ==
  SelectSeq([k \in 1 .. Len(FLASH) |-> <<k - 1, FLASH[k]>>],
            LAMBDA e : from <= e[1] /\ e[1] <= to)

Bytes(from, to) == LET s == Between(from, to) IN [k \in 1 .. Len(s) |-> s[k][2]]

\* Last address of a range, as crc_flash_checksum gives it to the driver.
LastAddress(start, length) == start + length - 1

\* crc32_checksum_read.
ChecksumRead(raw) == Complement(reverseBits(raw))

\* What a host command reports: the bytes of a section of the flash, the checksums
\* of its first bytes, or its checksum, as a section or as a range of addresses.
Flash(first, size, what) == [start |-> first, size |-> size, report |-> what]
APP_SECTION_SIZE == BOOT_SECTION_START
APPTABLE_SECTION_SIZE == BOOT_SECTION_START - APPTABLE_SECTION_START
BOOT_SECTION_SIZE == Len(FLASH) - BOOT_SECTION_START

ApplicationContents == Flash(0, APP_SECTION_SIZE, "bytes")
ApplicationTableContents == Flash(APPTABLE_SECTION_START, APPTABLE_SECTION_SIZE, "bytes")
BootloaderContents == Flash(BOOT_SECTION_START, BOOT_SECTION_SIZE, "bytes")
BootloaderCrcSteps == Flash(BOOT_SECTION_START, BOOT_SECTION_SIZE, "steps")
ApplicationCrcSteps == Flash(0, APP_SECTION_SIZE, "steps")
ApplicationTableCrcSteps == Flash(APPTABLE_SECTION_START, APPTABLE_SECTION_SIZE, "steps")
ApplicationCrc == Flash(0, APP_SECTION_SIZE, "section")
ApplicationTableCrc == Flash(APPTABLE_SECTION_START, APPTABLE_SECTION_SIZE, "range")
BootloaderCrc == Flash(BOOT_SECTION_START, BOOT_SECTION_SIZE, "section")

Sections ==
  ("Application contents" :> ApplicationContents) @@
  ("Application table contents" :> ApplicationTableContents) @@
  ("Bootloader contents" :> BootloaderContents) @@
  ("Application CRC steps" :> ApplicationCrcSteps) @@
  ("Application table CRC steps" :> ApplicationTableCrcSteps) @@
  ("Bootloader CRC steps" :> BootloaderCrcSteps) @@
  ("Application CRC" :> ApplicationCrc) @@
  ("Application table CRC" :> ApplicationTableCrc) @@
  ("Bootloader CRC" :> BootloaderCrc)

Section(c) == Sections[c]
Reporting(what) == {c \in DOMAIN Sections : Section(c).report = what}
Contents == Reporting("bytes")
CrcSteps == Reporting("steps")
SectionCrc == Reporting("section")
Checksums == CrcSteps \union SectionCrc \union Reporting("range")
Signatures == {"User signature", "Production signature"}
Rows == {"Lock bits", "Fuse bytes", "Device ID", "Device revision"}

HostCommand ==
  DOMAIN Sections \union Signatures \union Rows \union {"Device serial", "EEPROM", "Unknown"}

-----------------------------------------------------------------------------
Init ==
  /\ command = "none" /\ pc = "idle" /\ i = 0 /\ sent = <<>>
  /\ crc_initial_value = 0 /\ CHECKSUM = 0 /\ old_cmd = 0
  /\ NVM \in [CMD : {0}, ADDR : {0}, ADDR2 : LEFT_OVER, DATA : {0}, DATA2 : LEFT_OVER]
  /\ eeprom = EEPROM

AfterUnknown == "idle"

\* The command is looked up; an unknown one is an error and sends nothing else.
Receive(c) ==
  /\ pc = "idle"
  /\ command' = c /\ sent' = <<>>
  /\ i' = IF c \in CrcSteps THEN 1 ELSE 0
  /\ pc' = CASE c \in Checksums -> "seed" [] c = "Unknown" -> AfterUnknown
             [] OTHER -> "report"
  /\ UNCHANGED <<crc_initial_value, CHECKSUM, NVM, old_cmd, eeprom>>

\* The rest is one response: lock bits, fuse bytes, device ID and revision.
Respond(bytes) ==
  /\ sent' = [k \in 1 .. Len(bytes) |-> Group(bytes[k])] /\ pc' = "idle"
  /\ UNCHANGED <<command, i, crc_initial_value, CHECKSUM, NVM, old_cmd, eeprom>>

ReportRow == pc = "report" /\ command \in Rows /\ Respond(ROWS[command])

\* The device serial is some of the production signature, in an order of its own.
ReportSerial ==
  /\ pc = "report" /\ command = "Device serial"
  /\ Respond([k \in 1 .. Len(SERIAL) |-> ROWS["Production signature"][SERIAL[k]]])

LoopEnds(size) == i + 1 >= size

\* A turn of a loop that sends a byte.
Send(byte, size) ==
  /\ sent' = Append(sent, Group(byte))
  /\ IF LoopEnds(size) THEN pc' = "idle" /\ i' = 0 ELSE i' = i + 1 /\ UNCHANGED pc
  /\ UNCHANGED <<command, crc_initial_value, CHECKSUM, NVM, old_cmd, eeprom>>

CommandRestored == old_cmd

\* A read of the flash is one only while no other command is set.
FlashByte(a) == IF NVM.CMD = 0 THEN FLASH[a + 1] ELSE 0

DumpFlash ==
  /\ pc = "report" /\ command \in Contents
  /\ Send(FlashByte(Section(command).start + i), Section(command).size)

DumpEeprom ==
  /\ pc = "report" /\ command = "EEPROM"
  /\ Send(eeprom[i + 1], Len(EEPROM))

DumpSignature ==
  /\ pc = "report" /\ command \in Signatures
  /\ Send(ROWS[command][i + 1], Len(ROWS[command]))

-----------------------------------------------------------------------------
\* crc_set_initial_value.
Seed ==
  /\ pc = "seed" /\ crc_initial_value' = UINT_MAX
  /\ pc' = IF command \in SectionCrc THEN "reset" ELSE "clear"
  /\ UNCHANGED <<command, i, sent, CHECKSUM, NVM, old_cmd, eeprom>>

HighCleared == [NVM EXCEPT !.ADDR2 = 0, !.DATA2 = 0]

\* The range commands clear the high bytes of the address registers.
Clear ==
  /\ pc = "clear" /\ pc' = "reset" /\ NVM' = HighCleared
  /\ UNCHANGED <<command, i, sent, crc_initial_value, CHECKSUM, old_cmd, eeprom>>

SeedUsed == 0

\* crc_reset, and the flash as the source.
Reset ==
  /\ pc = "reset"
  /\ CHECKSUM' = crc_initial_value /\ crc_initial_value' = SeedUsed
  /\ pc' = "command"
  /\ UNCHANGED <<command, i, sent, NVM, old_cmd, eeprom>>

\* nvm_issue_flash_range_crc and nvm_issue_command: the command is set.
SetCommand ==
  /\ pc = "command" /\ old_cmd' = NVM.CMD
  /\ NVM' = [NVM EXCEPT !.CMD = IF command \in SectionCrc THEN 2 ELSE 1]
  /\ pc' = IF command \in SectionCrc THEN "exec" ELSE "address"
  /\ UNCHANGED <<command, i, sent, crc_initial_value, CHECKSUM, eeprom>>

\* Bytes a range checksum is to have.
Length == IF command \in CrcSteps THEN i + 1 ELSE Section(command).size

SetAddress ==
  /\ pc = "address" /\ pc' = "data"
  /\ NVM' = [NVM EXCEPT !.ADDR = Section(command).start]
  /\ UNCHANGED <<command, i, sent, crc_initial_value, CHECKSUM, old_cmd, eeprom>>

SetData ==
  /\ pc = "data" /\ pc' = "exec"
  /\ NVM' = [NVM EXCEPT !.DATA = LastAddress(Section(command).start, Length)]
  /\ UNCHANGED <<command, i, sent, crc_initial_value, CHECKSUM, old_cmd, eeprom>>

\* The controller runs through the flash; the command register is restored.
Exec ==
  /\ pc = "exec" /\ pc' = "read"
  /\ LET s == Section(command)
     IN  CHECKSUM' = Sum(CHECKSUM,
           CASE NVM.CMD = 1 -> Bytes(NVM.ADDR + HIGH * NVM.ADDR2, NVM.DATA + HIGH * NVM.DATA2)
             [] NVM.CMD = 2 -> Bytes(s.start, s.start + s.size - 1)
             [] OTHER -> <<>>)
  /\ NVM' = [NVM EXCEPT !.CMD = CommandRestored]
  /\ UNCHANGED <<command, i, sent, crc_initial_value, old_cmd, eeprom>>

\* The checksum is read and sent; a command for the steps goes on to the next.
SendChecksum ==
  /\ pc = "read"
  /\ sent' = sent \o Groups(reverseBits(Complement(ChecksumRead(CHECKSUM))))
  /\ CHECKSUM' = 0 /\ old_cmd' = 0
  /\ IF command \in CrcSteps /\ i + 2 < Section(command).size
     THEN pc' = "seed" /\ i' = i + 2
     ELSE pc' = "idle" /\ i' = 0
  /\ UNCHANGED <<command, crc_initial_value, NVM, eeprom>>

-----------------------------------------------------------------------------
Restored(saved) == saved

\* The save interrupt: it writes a byte and restores all the registers.
SaveInterrupt ==
  /\ \E b \in Byte : b # eeprom[SAVED + 1] /\ eeprom' = [eeprom EXCEPT ![SAVED + 1] = b]
  /\ NVM' = Restored(NVM)
  /\ UNCHANGED <<command, pc, i, sent, crc_initial_value, CHECKSUM, old_cmd>>

Process ==
  ReportRow \/ ReportSerial \/ DumpFlash \/ DumpEeprom \/ DumpSignature \/ Seed \/ Clear \/ Reset \/ SetCommand
    \/ SetAddress \/ SetData \/ Exec \/ SendChecksum

Next == (\E c \in HostCommand : Receive(c)) \/ Process \/ SaveInterrupt

Spec == Init /\ [][Next]_vars

-----------------------------------------------------------------------------
Value(group) == FoldLeft(LAMBDA n, d : 2 * n + d, 0, group)

Values(groups) == [k \in 1 .. Len(groups) |-> Value(groups[k])]

\* A memory's report has every byte of it, once, in order and with both digits,
\* whatever is saved in the meantime (but to the one byte that is saved).
ReportsMemory ==
  pc = "idle" /\ command \in Contents \union Signatures \union {"EEPROM"} =>
    LET bytes == CASE command \in Contents ->
                        LET s == Section(command) IN Bytes(s.start, s.start + s.size - 1)
                   [] command \in Signatures -> ROWS[command]
                   [] OTHER -> EEPROM
    IN  /\ Len(sent) = Len(bytes)
        /\ \A k \in 1 .. Len(sent) :
             /\ Len(sent[k]) = 2
             /\ Value(sent[k]) = bytes[k] \/ (command = "EEPROM" /\ k = SAVED + 1)

\* What a checksum is: the module's, from all ones, over the first bytes.
SumOf(c, length) ==
  LET s == Section(c) IN Values(Groups(Sum(UINT_MAX, Bytes(s.start, s.start + length - 1))))

\* The checksum of a section, and those of every even number of its first bytes,
\* are over exactly these bytes, whatever was asked before, the bootloader left
\* in the registers, or is saved in the meantime.
ReportsChecksum ==
  pc = "idle" /\ command \in Checksums =>
    IF command \in CrcSteps
    THEN Values(sent) =
           FlattenSeq([n \in 1 .. Section(command).size \div 2 |-> SumOf(command, 2 * n)])
    ELSE Values(sent) = SumOf(command, Section(command).size)
=============================================================================
