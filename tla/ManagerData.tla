----------------------------- MODULE ManagerData ----------------------------
(***************************************************************************)
(* What M33 Manager writes to a printer and reads from it: the installation *)
(* of firmware, the repairs of the printer's information, the settings the *)
(* user saves, and lines of G-code in their binary form.  The models of the parts share no variables; *)
(* a behaviour is one of a single part, and the other parts stay as they   *)
(* begin.                                                                  *)
(***************************************************************************)
EXTENDS Integers, PrinterUpkeep, PrinterSettings

VARIABLES
    part,           \* the part that moves, next to the variables of the modules above
    \* BinaryGcode
    line, object, edited, pc, turn, request, sums, decoded

gcodeVars ==
    <<line, object, edited, pc, turn, request, sums, decoded>>

allVars == <<part, installVars, informationVars, gcodeVars, settingsVars>>

-----------------------------------------------------------------------------
(* The instances.                                                          *)

Item(l, n) == <<l, <<n>>>>
Chars(n) == <<"a", [k \in 1 .. n |-> 97]>>

\* The backlash speed, a corner and a bed offset, and an integer that only iMe
\* has, in the order of the checks.
FourFields == <<
    [kind |-> "float", imeOnly |-> FALSE, role |-> "speed"],
    [kind |-> "float", imeOnly |-> FALSE, role |-> "corner"],
    [kind |-> "float", imeOnly |-> FALSE, role |-> "offset"],
    [kind |-> "int", imeOnly |-> TRUE, role |-> "other"]>>

GcodeLines ==
    {<<Item("G", g), Item("X", x)>> : g \in {0, 28, 300}, x \in {0, 255, 300}}
    \cup {<<Item("N", n), Item("M", m)>> : n \in {0, 255, 65535}, m \in {115, 618}}
    \cup {<<Item("M", 618), Item("S", s), Item("T", t), Item("P", 65536)>> :
             s \in {0, 256, 16909060}, t \in {4, 255}}
    \cup {<<Item("N", 5), Item("M", 117), Chars(3), Item("X", 2)>>,
          <<Item("M", 117)>>, <<Item("M", 23), Chars(1)>>,
          <<Item("Y", 1), Item("Z", 2), Item("E", 3), Item("F", 4), Item("I", 5), Item("J", 6),
            Item("R", 7), Item("D", 8)>>,
          <<Item("X", 1), Item("X", 2)>>, <<Item("H", 1)>>, <<Chars(4)>>,
          <<Item("G", 28), <<"X", <<>>>>>>, <<Item("N", 300), Item("G", 28), <<"Y", <<>>>>, Item("F", 9)>>,
          <<Chars(2), Item("T", 1)>>, <<<<"@", <<1>>>>, Chars(3)>>}

LongestLines == {<<Item("M", 117), Chars(245)>>, <<Item("G", 1), Chars(250)>>}

Edits == {<<"N", <<7>>>>, <<"X", <<9>>>>, <<"X", <<>>>>, <<"H", <<>>>>}

\* Lines with numbers at the edges of their widths, letters without a number,
\* unknown and repeated letters, texts and a host command, and lines as long as
\* the 8-bit counters can count.
BG == INSTANCE BinaryGcode WITH
    LINES <- GcodeLines, EDITS <- Edits, WIDTH <- 256, i <- turn

BL == INSTANCE BinaryGcode WITH
    LINES <- LongestLines, EDITS <- {}, WIDTH <- 256, i <- turn

ASSUME ManagerDataAssumption ==
    /\ RomsAssumption /\ FieldsAssumption
    /\ SettingsAssumption /\ LayoutAssumption
    /\ BG!BinaryGcodeAssumption

-----------------------------------------------------------------------------
\* Printers to begin with: every value of the corner, and the others right or
\* wrong.
ShortInformation ==
    /\ memory[1] \in {"nan", "min"} /\ memory[3] = memory[1] /\ memory[4] \in {"low", "default"}
    /\ fan.scale = fan.offset /\ (fan.type = "known" => current = fan.scale)
    /\ marked \/ memory[2] = "min"

\* Stands for the EEPROM's bytes while another part moves, which never looks at
\* them.
NoSettings ==
    /\ bytes = <<>> /\ bytesCopy = <<>> /\ choice = "none" /\ place = "none" /\ job = NoJob
    /\ checking = 1 /\ connecting = FALSE /\ fresh = FALSE /\ saved = NoJob /\ touched = {}
    /\ saves = 0 /\ faults = 0

Init ==
    /\ part \in {"install", "information", "binary", "longest line", "settings"}
    /\ part # "install" => chip = "m3d" /\ zValid = TRUE
    /\ part # "information" =>
           /\ memory = [k \in Settings |-> "default"]
           /\ fan = [scale |-> FALSE, offset |-> FALSE, type |-> "known"]
           /\ current = TRUE /\ old = FALSE /\ ime = TRUE /\ dated = TRUE /\ marked = TRUE
    /\ InstallInit /\ BG!Init /\ InformationInit
    /\ part = "information" => ShortInformation
    /\ IF part = "settings" THEN SettingsInit ELSE NoSettings

\* The printer was given up, an entry that is no number ended the program, or no
\* more settings are saved.
Finished ==
    /\ \/ part = "information" /\ at = "failed"
       \/ part = "settings" /\ (place = "terminated" \/ (place = "idle" /\ saves = SAVES))
    /\ UNCHANGED allVars

Next ==
    \/ part = "install" /\ InstallNext
       /\ UNCHANGED <<part, informationVars, gcodeVars, settingsVars>>
    \/ part = "information" /\ InformationNext
       /\ UNCHANGED <<part, installVars, gcodeVars, settingsVars>>
    \/ part = "binary" /\ BG!Next
       /\ UNCHANGED <<part, installVars, informationVars, settingsVars>>
    \/ part = "longest line" /\ BL!Next
       /\ UNCHANGED <<part, installVars, informationVars, settingsVars>>
    \/ part = "settings" /\ SettingsNext
       /\ UNCHANGED <<part, installVars, informationVars, gcodeVars>>
    \/ Finished

Spec == Init /\ [][Next]_allVars

-----------------------------------------------------------------------------
\* What is decoded from a binary request is what the line said, edits
\* included, and nothing of the line before, up to the first letter without a
\* number (for which getBinary writes nothing and parseBinary reads four bytes);
\* the line made of it again says the same, unless parameters follow the M of a command that takes the rest
\* of the line; and a request with one byte changed, other than 0 for 255,
\* or two unequal neighbours swapped does not have its checksum.
GcodePreserved ==
    /\ part \in {"binary", "longest line"} => BG!BinaryRoundTrip
    /\ part = "binary" => BG!OfThisLine /\ BG!AsciiRoundTrip /\ BG!DetectsChange

\* A setting that was said to be saved is there as it was entered, every
\* setting that was collected is in its range and shown as it is, and no byte
\* outside the fields that were saved or repaired was touched, wherever a write
\* stopped between two bytes.
SavedSettingsKept == part = "settings" => SettingsKept
=============================================================================
