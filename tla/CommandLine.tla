----------------------------- MODULE CommandLine -----------------------------
(***************************************************************************)
(* M33 Manager without a window (M33 Manager/main.cpp): the arguments, the  *)
(* driver installation, switching the printer's mode, installing firmware,  *)
(* the manual mode, and the end of the process, which destroys the Printer  *)
(* object and joins its status thread.  The break handler ends the process  *)
(* from whatever thread the signal finds, inside whatever that does.        *)
(*                                                                          *)
(* A printer operation holds the printer's recursive lock from its first    *)
(* step to its last.  What it does is the subject of PrinterRequests,       *)
(* SerialPorts and PrinterUpkeep; here it succeeds or not.                  *)
(***************************************************************************)
EXTENDS Integers, Sequences, FiniteSets

CONSTANTS
  ARGLISTS,   \* command lines: sequences of words, the program's name first
  ROMS,       \* ROM files there are: name |-> [last |-> index of the last digit of
              \* the name, digits |-> how many digits end there]
  FILES       \* udev rules the driver installation unpacks

CommandLineAssumption == FILES \in Nat

VARIABLES
  args, i,      \* argv and the index in it
  task,         \* what the option asks for
  port,         \* serial port to use, or "" to look for one
  rom,          \* firmware file
  pc,           \* main thread
  files,        \* udev rules written, each "whole" or "partial"
  unpacked,     \* the firmware file that came with the manager
  plugged, connected,
  mode,         \* mode the printer is in
  believed,     \* printer.operatingMode
  installed,    \* a firmware was installed
  lock,         \* thread that holds the lock, or "none"
  status,       \* status thread
  stop,         \* stopThread
  exiting,      \* thread that runs exit, or "none"
  code, ended   \* exit status and how the process ended

world == <<files, unpacked, plugged, mode, installed>>
threads == <<lock, status, stop, exiting, code, ended>>
vars == <<args, i, task, port, rom, pc, world, connected, believed, threads>>

Init ==
  /\ args \in ARGLISTS /\ i = 0 /\ task = "none" /\ port = "" /\ rom = ""
  /\ pc = "option" /\ files = <<>> /\ unpacked = "none"
  /\ plugged \in BOOLEAN /\ connected = FALSE
  /\ mode \in {"firmware", "bootloader"} /\ believed = "none" /\ installed = FALSE
  /\ lock = "none" /\ status = "idle" /\ stop = FALSE
  /\ exiting = "none" /\ code = 0 /\ ended = "no"

-----------------------------------------------------------------------------
\* main returns: exit runs the destructor of the printer.
Return(c) ==
  IF exiting = "none" THEN exiting' = "main" /\ code' = c /\ pc' = "destroy"
  ELSE pc' = "returned" /\ UNCHANGED <<exiting, code>>

Stay == UNCHANGED <<exiting, code>>

\* What an argument is an option for.
Meaning(word) ==
  CASE word \in {"-h", "--help"} -> "help"
    [] word \in {"-d", "--drivers"} -> "drivers"
    [] word \in {"-f", "--firmware"} -> "firmware"
    [] word \in {"-b", "--bootloader"} -> "bootloader"
    [] word \in {"-i", "--ime"} -> "ime"
    [] word \in {"-3", "--m3d"} -> "m3d"
    [] word \in {"-r", "--firmwarerom"} -> "rom"
    [] word \in {"-m", "--manual"} -> "manual"
    [] OTHER -> "none"

\* The last argument is the serial port, unless it is argument k itself.
SerialPort(k) == IF k < Len(args) - 1 THEN args[Len(args)] ELSE ""

\* The loop over the arguments, up to the first option.
Option ==
  /\ pc = "option"
  /\ IF i >= Len(args) \/ Len(args) = 1 THEN Return(1) /\ UNCHANGED <<i, task, port, rom>>
     ELSE LET t == Meaning(args[i + 1])
              k == IF t = "rom" THEN i + 1 ELSE i
          IN  /\ task' = t
              /\ CASE t = "none" -> i' = i + 1 /\ pc' = "option" /\ Stay
                                    /\ UNCHANGED <<port, rom>>
                   [] t = "help" -> Return(0) /\ UNCHANGED <<i, port, rom>>
                   [] t = "drivers" -> pc' = "drivers" /\ Stay /\ UNCHANGED <<i, port, rom>>
                   [] t = "rom" /\ i >= Len(args) - 1 -> Return(1) /\ UNCHANGED <<i, port, rom>>
                   [] OTHER -> /\ i' = k /\ port' = SerialPort(k)
                               /\ rom' = IF t = "rom" THEN args[k + 1] ELSE t
                               /\ pc' = CASE t \in {"ime", "m3d"} -> "unpack"
                                          [] t = "rom" -> "name"
                                          [] OTHER -> "connect"
                               /\ Stay
  /\ UNCHANGED <<args, world, connected, believed, lock, status, stop, ended>>

-----------------------------------------------------------------------------
\* What a file that was opened has once it is closed: that the disk is not full
\* is not checked.
Contents == {"whole", "partial"}

NotCreated == Return(1) /\ UNCHANGED files

\* The next udev rule, the elevated privileges being needed for the first.
UnpackRule ==
  /\ pc = "drivers" /\ Len(files) < FILES
  /\ \/ NotCreated
     \/ \E c \in Contents : files' = Append(files, c) /\ UNCHANGED pc /\ Stay
  /\ UNCHANGED <<args, i, task, port, rom, unpacked, plugged, mode, installed, connected,
                 believed, lock, status, stop, ended>>

\* udevadm is told of the rules.
ApplyRules ==
  /\ pc = "drivers" /\ Len(files) = FILES
  /\ Return(0) \/ Return(1)
  /\ UNCHANGED <<args, i, task, port, rom, world, connected, believed, lock, status, stop,
                 ended>>

\* -i and -3 write the firmware they come with to a temporary file.
UnpackFirmware ==
  /\ pc = "unpack"
  /\ \/ Return(1) /\ UNCHANGED unpacked
     \/ unpacked' \in Contents /\ pc' = "connect" /\ Stay
  /\ UNCHANGED <<args, i, task, port, rom, files, plugged, mode, installed, connected,
                 believed, lock, status, stop, ended>>

-----------------------------------------------------------------------------
\* An 8-bit signed number.
Int8(n) == IF n % 256 < 128 THEN n % 256 ELSE (n % 256) - 256

\* The name ends in ten digits: the index of the last is kept in 8 bits, the one
\* before the first in 8 bits with a sign.
NameValid(r) ==
  LET end == r.last % 256
      begin == IF Int8(end) < 0 THEN Int8(end)
               ELSE end - (IF r.last < 256 THEN r.digits ELSE 0)
  IN  begin = end - 10

\* installFirmware's checks of the file.
CheckRom ==
  /\ pc = "name"
  /\ IF rom \in DOMAIN ROMS /\ NameValid(ROMS[rom]) THEN pc' = "connect" /\ Stay ELSE Return(1)
  /\ UNCHANGED <<args, i, task, port, rom, world, connected, believed, lock, status, stop,
                 ended>>

-----------------------------------------------------------------------------
Free == lock = "none"

\* Operations of the printer take the lock, and leave it when they are done.
Begin ==
  /\ pc \in {"connect", "switch", "install", "send", "receive"}
  /\ Free /\ lock' = "main"
  /\ pc' = CASE pc = "connect" -> "connecting" [] pc = "switch" -> "switching"
             [] pc = "install" -> "installing" [] pc = "send" -> "sending"
             [] OTHER -> "receiving"
  /\ UNCHANGED <<args, i, task, port, rom, world, connected, believed, status, stop,
                 exiting, code, ended>>

Unlock == lock' = "none"

\* connect finds out the mode of the printer it connects to.
Connect ==
  /\ pc = "connecting" /\ Unlock
  /\ \/ plugged /\ connected' = TRUE /\ believed' = mode /\ Stay
        /\ pc' = (CASE task \in {"firmware", "bootloader"} -> "switch"
                    [] task = "manual" -> "prompt" [] OTHER -> "install")
     \/ Return(1) /\ UNCHANGED <<connected, believed>>
  /\ UNCHANGED <<args, i, task, port, rom, world, status, stop, ended>>

StillConnected == connected'

\* What inFirmwareMode and inBootloaderMode take an answer for: every answer
\* that does not begin with B, also an empty one, is firmware mode's.
Answers == IF plugged THEN {mode, "firmware"} ELSE {"none"}

\* main and switchToFirmwareMode or switchToBootloaderMode each ask for the mode
\* and go on only when it is the other one.  The manager takes the printer to be
\* in the new mode once the request was sent; firmware that is broken does not
\* start.
Switch ==
  /\ pc = "switching" /\ Unlock
  /\ \E first, second \in Answers :
       \/ /\ task \in {first, second}
          /\ believed' = task /\ Return(0) /\ UNCHANGED <<connected, mode>>
       \/ /\ task \notin {first, second} /\ plugged
          /\ believed' = task
          /\ mode' \in IF task = "firmware" THEN {mode, task} ELSE {task}
          /\ connected' \in BOOLEAN
          /\ Return(IF StillConnected THEN 0 ELSE 1)
       \/ /\ ~plugged
          /\ connected' = FALSE /\ Return(1) /\ UNCHANGED <<believed, mode>>
  /\ UNCHANGED <<args, i, task, port, rom, files, unpacked, plugged, installed, status,
                 stop, ended>>

\* printer.installFirmware, which checks what it wrote.
Install ==
  /\ pc = "installing" /\ Unlock
  /\ \/ plugged /\ installed' = TRUE /\ Return(0)
     \/ installed' = FALSE /\ Return(1)
  /\ UNCHANGED <<args, i, task, port, rom, files, unpacked, plugged, mode, connected,
                 believed, status, stop, ended>>

\* Manual mode: a line, or quit.
Prompt ==
  /\ pc = "prompt"
  /\ Return(0) \/ (pc' = "send" /\ Stay)
  /\ UNCHANGED <<args, i, task, port, rom, world, connected, believed, lock, status, stop,
                 ended>>

\* A line that changes the mode is not answered.
Send ==
  /\ pc = "sending" /\ Unlock
  /\ \/ plugged /\ pc' \in {"receive", "prompt"} /\ Stay /\ UNCHANGED connected
     \/ ~plugged /\ connected' = FALSE /\ Return(1)
  /\ UNCHANGED <<args, i, task, port, rom, world, believed, status, stop, ended>>

\* An answer, or the end of the connection.
Receive ==
  /\ pc = "receiving" /\ Unlock
  /\ \/ plugged /\ pc' = "prompt" /\ Stay /\ UNCHANGED connected
     \/ ~plugged /\ connected' = FALSE /\ Return(1)
  /\ UNCHANGED <<args, i, task, port, rom, world, believed, status, stop, ended>>

\* Nothing, or something that is no answer.
ReceiveOther ==
  /\ pc = "receiving" /\ plugged /\ Unlock
  /\ pc' = "receive"
  /\ UNCHANGED <<args, i, task, port, rom, world, connected, believed, status, stop,
                 exiting, code, ended>>

-----------------------------------------------------------------------------
\* ~Printer of the thread that exits: it disconnects and asks the status thread
\* to stop, both with the lock.
MayLock(t) == lock \in {"none", t}

Destroy(t) ==
  /\ exiting = t /\ ~stop /\ MayLock(t)
  /\ IF t = "main" THEN pc = "destroy" ELSE status = "destroy"
  /\ stop' = TRUE /\ connected' = FALSE
  /\ UNCHANGED <<args, i, task, port, rom, pc, world, believed, lock, status, exiting,
                 code, ended>>

\* It joins the status thread; a thread that joins itself ends the process.
Join(t) ==
  /\ exiting = t /\ stop /\ ended = "no"
  /\ t = "main" => status = "stopped"
  /\ ended' = IF t = "main" THEN "exited" ELSE "aborted"
  /\ UNCHANGED <<args, i, task, port, rom, pc, world, connected, believed, lock, status,
                 stop, exiting, code>>

\* Faulty: the thread does not look whether it is to stop.
GoesOn == "inside"

Turn == IF stop THEN "stopped" ELSE "inside"

\* updateStatus: a turn of its loop, from taking the lock to leaving it.
StatusBegin ==
  /\ status = "idle" /\ Free
  /\ status' = Turn /\ lock' = IF Turn = "inside" THEN "status" ELSE "none"
  /\ UNCHANGED <<args, i, task, port, rom, pc, world, connected, believed, stop, exiting,
                 code, ended>>

StatusEnd ==
  /\ status = "inside" /\ status' = "idle" /\ lock' = "none"
  /\ UNCHANGED <<args, i, task, port, rom, pc, world, connected, believed, stop, exiting,
                 code, ended>>

\* The signal: its handler calls exit on the thread it interrupts.
BreakHandler(t) ==
  /\ exiting = "none" /\ ended = "no"
  /\ exiting' = t /\ code' = 1
  /\ IF t = "main" THEN pc' = "destroy" /\ UNCHANGED status
     ELSE status' = "destroy" /\ UNCHANGED pc
  /\ UNCHANGED <<args, i, task, port, rom, world, connected, believed, lock, stop, ended>>

Unplug ==
  /\ plugged /\ plugged' = FALSE
  /\ UNCHANGED <<args, i, task, port, rom, pc, files, unpacked, mode, installed, connected,
                 believed, threads>>

Main ==
  Option \/ UnpackRule \/ ApplyRules \/ UnpackFirmware \/ CheckRom \/ Begin \/ Connect
    \/ Switch \/ Install \/ Send \/ Receive

Next ==
  /\ ended = "no"
  /\ \/ Main \/ Prompt \/ ReceiveOther
     \/ \E t \in {"main", "status"} : Destroy(t) \/ Join(t) \/ BreakHandler(t)
     \/ StatusBegin \/ StatusEnd \/ Unplug

Fairness ==
  /\ SF_vars(ended = "no" /\ Main)
  /\ SF_vars(ended = "no" /\ Receive)
  /\ \A t \in {"main", "status"} :
       SF_vars(ended = "no" /\ Destroy(t)) /\ WF_vars(ended = "no" /\ Join(t))
  /\ SF_vars(ended = "no" /\ StatusBegin) /\ WF_vars(ended = "no" /\ StatusEnd)

Spec == Init /\ [][Next]_vars /\ Fairness

-----------------------------------------------------------------------------
Success == ended = "exited" /\ code = 0

\* A process that ends with success did what its first option asks for: the
\* firmware is installed and has a name as it must be, every rule was created
\* (M33 Manager/main.cpp; with a full disk a rule may be cut short).
SuccessIsTrue ==
  Success =>
    /\ task \in {"ime", "m3d", "rom"} => installed
    /\ task = "rom" => rom \in DOMAIN ROMS /\ ROMS[rom].digits = 10
    /\ task = "drivers" => Len(files) = FILES /\ \A k \in 1 .. FILES : files[k] # "missing"

\* A printer that is said to be in bootloader mode is: it said so, or got the
\* request.  (In firmware mode it is only taken to be: an answer that did not
\* come counts as one, and nothing looks whether the firmware started.)
ModeIsTrue ==
  Success /\ task \in {"firmware", "bootloader"} =>
    believed = task /\ (task = "bootloader" => mode = task)

\* Once main has returned, or a break has come to the main thread, the process
\* ends in order, unless the break came inside an operation of the printer: the
\* destructor then joins a thread that waits for the lock.
ExitEnds == (exiting = "main") ~> (ended = "exited" \/ lock = "main")
=============================================================================
