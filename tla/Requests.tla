------------------------------ MODULE Requests ------------------------------
(***************************************************************************)
(* What becomes of the host's requests: the parts that read them (gcode.cpp, *)
(* common.cpp) and that obey them (main.cpp), each with the instances that *)
(* TLC explores.  The models of the parts share no variables; a behaviour is *)
(* one of a single part, and the other parts stay as they begin.           *)
(***************************************************************************)
EXTENDS LineNumbers, Commands, TLC

VARIABLES
    part,           \* the part that moves
    \* GcodeParser
    request,
    \* HostCommands
    command, pc, i, sent, crc_initial_value, CHECKSUM, NVM, old_cmd,
    hostEeprom

parserVars ==
    <<request>>

hostVars ==
    <<command, pc, i, sent, crc_initial_value, CHECKSUM, NVM, old_cmd,
      hostEeprom>>

allVars == <<part, parserVars, lineVars, commandVars, hostVars>>

-----------------------------------------------------------------------------
(* The constants and the instances.  The modules that this one extends     *)
(* are a host that sends three lines ahead and whose last number is past   *)
(* the largest that is accepted, and the commands about memory, with an    *)
(* EEPROM of eight bytes whose last two are the decryption table.          *)

MemoryRegions == [serial |-> 1, bed |-> 2, heater |-> 4]

None == [x \in {} |-> 0]
MCode(n, p) == [letter |-> "M", number |-> n, params |-> p]
GCode(n, p) == [letter |-> "G", number |-> n, params |-> p]

\* The commands that write memory and those about the heater, writes that reach from one
\* region into the next and into the decryption table among them.
MemoryCommands ==
    {MCode(618, [S |-> 4, T |-> 1, P |-> 0]), MCode(618, [S |-> 5, T |-> 2, P |-> 0]),
     MCode(618, [S |-> 1, T |-> 4, P |-> 65 + 256 + 256 ^ 3]), MCode(618, [P |-> 1]),
     MCode(619, [S |-> 4, T |-> 1]), MCode(619, None), MCode(104, [S |-> 200]),
     MCode(109, None), GCode(32, None), GCode(33, None), GCode(1, [E |-> 1])}

\* The commands about motors and movements.
MotorCommands ==
    {MCode(18, None), MCode(82, None), MCode(83, None), MCode(114, None),
     MCode(104, [S |-> 200]), GCode(0, [X |-> 1]), GCode(1, [X |-> 1, E |-> 1]),
     GCode(28, None), GCode(33, None), GCode(90, None), GCode(91, None),
     GCode(20, None), GCode(21, None), GCode(92, None), GCode(92, [X |-> 1])}

\* The other commands.
OtherCommands ==
    {MCode(17, None), MCode(109, None), MCode(104, [S |-> 1]), MCode(105, None), MCode(115, None),
     MCode(106, [S |-> 200]), MCode(107, None), MCode(400, None), MCode(420, [T |-> 1]),
     GCode(2, None), GCode(4, [P |-> 0]), GCode(30, None), GCode(32, None),
     GCode(92, [E |-> 1]), [letter |-> "T", number |-> 0, params |-> [T |-> 257]]}

RowContents ==
    ("Lock bits" :> <<3>>) @@ ("Fuse bytes" :> <<3, 0, 1, 3, 2, 1>>) @@ ("Device ID" :> <<1, 2, 0>>) @@
    ("Device revision" :> <<2>>) @@ ("User signature" :> <<3, 3, 0, 1>>) @@ ("Production signature" :> <<0, 2, 1>>)

\* Requests of up to five characters with parameters, signs, decimals and
\* comments, and with what a checksum is made of.
GP == INSTANCE GcodeParser WITH
    CHARACTERS <- {"G", "X", "-", ".", "1", "6", "SP", ";"}, MAX_LENGTH <- 5,
    INDEX <- 256, FLT_DIG <- 2

GC == INSTANCE GcodeParser WITH
    CHARACTERS <- {"M", "N", "*", "1", "6", "7", "LF", ";"}, MAX_LENGTH <- 5,
    INDEX <- 256, FLT_DIG <- 2

\* The same requests, whose lines reach the end of a shorter offset and pass it.
GS == INSTANCE GcodeParser WITH
    CHARACTERS <- {"G", "X", "-", ".", "1", "6", "SP", ";"}, MAX_LENGTH <- 5,
    INDEX <- 4, FLT_DIG <- 2

\* A host that waits for each answer, which is the one that gets through.
LW == INSTANCE LineNumbers WITH
    WINDOW <- 1, FAULTS <- 3, LAST <- 3, MAX_NUMBER <- 5

CV == INSTANCE Commands WITH COMMANDS <- MotorCommands
CO == INSTANCE Commands WITH COMMANDS <- OtherCommands

\* Eight bytes of flash in three sections.
HC == INSTANCE HostCommands WITH
    FLASH <- <<0, 3, 1, 2, 3, 0, 2, 1>>, APPTABLE_SECTION_START <- 2,
    BOOT_SECTION_START <- 4, ROWS <- RowContents, SERIAL <- <<3, 1>>,
    EEPROM <- <<1, 0, 3>>, SAVED <- 1, CRC_BYTES <- 2, LEFT_OVER <- {0, 1},
    eeprom <- hostEeprom

ASSUME RequestsAssumption ==
    /\ GP!ParserAssumption /\ GC!ParserAssumption /\ GS!ParserAssumption
    /\ NumberAssumption /\ SizeAssumption
    /\ LW!NumberAssumption /\ LW!SizeAssumption
    /\ CommandsAssumption /\ CV!CommandsAssumption /\ CO!CommandsAssumption
    /\ HC!HostCommandsAssumption

-----------------------------------------------------------------------------
Init ==
    /\ part \in {"parameters", "checksums", "lines", "waiting", "memory", "motors", "others",
                "host"}
    /\ GP!Init /\ LineInit /\ CommandsInit /\ HC!Init
    /\ part # "host" => NVM.ADDR2 = 0 /\ NVM.DATA2 = 0

\* A request of the largest length.
Finished ==
    /\ part \in {"parameters", "checksums"} /\ Len(request) = 5
    /\ UNCHANGED allVars

Next ==
    \/ part = "parameters" /\ GP!Next /\ UNCHANGED <<part, lineVars, commandVars, hostVars>>
    \/ part = "checksums" /\ GC!Next /\ UNCHANGED <<part, lineVars, commandVars, hostVars>>
    \/ part = "lines" /\ LineNext /\ UNCHANGED <<part, parserVars, commandVars, hostVars>>
    \/ part = "waiting" /\ LW!LineNext /\ UNCHANGED <<part, parserVars, commandVars, hostVars>>
    \/ part = "memory" /\ CommandsNext /\ UNCHANGED <<part, parserVars, lineVars, hostVars>>
    \/ part = "motors" /\ CV!CommandsNext /\ UNCHANGED <<part, parserVars, lineVars, hostVars>>
    \/ part = "others" /\ CO!CommandsNext /\ UNCHANGED <<part, parserVars, lineVars, hostVars>>
    \/ part = "host" /\ HC!Next /\ UNCHANGED <<part, parserVars, lineVars, commandVars>>
    \/ Finished

Spec == Init /\ [][Next]_allVars

-----------------------------------------------------------------------------
\* parseCommand finds in every line that is not blank exactly the parameters
\* that stand in it, each with the value of its first occurrence that has
\* one, in whatever order and with whatever between them, signs, decimals
\* and comments included, as long as the command ends before offset 256: the
\* offsets have 8 bits and a request may be longer.  A command with a valid
\* checksum does not have one any more when one of the characters it covers
\* is changed on the way into another one than an asterisk.
ParametersMeant ==
    /\ part = "parameters" => GP!ParametersMeant /\ GS!ParametersMeant
    /\ part = "checksums" => GC!ParametersMeant /\ GC!DamageNoticed

\* A host that keeps sending what is not confirmed gets every command confirmed,
\* also one whose ok a stop suppressed (main.cpp 1938): that is what skip is for.
\* Only a stop that finds the main loop waiting for room in the transmit buffers
\* (main.cpp 1940, 2036) ends that.
AllConfirmed == part = "waiting" /\ LW!Fairness => LW!EveryCommandConfirmed

\* A memory's report has every byte of it, once, in order and with both
\* digits, and the checksum of a section is over exactly its bytes, whatever
\* was asked before, the bootloader left in the registers, or is saved in
\* the meantime (but to the one byte that is saved).
ReportsTrue == part = "host" => HC!ReportsMemory /\ HC!ReportsChecksum
=============================================================================
