--------------------------- MODULE PrinterSettings --------------------------
(***************************************************************************)
(* The settings of the printer in M33 Manager: one is chosen and shown     *)
(* from Manager's copy of the EEPROM, a text is entered for it and written *)
(* to the printer byte by byte, and then the printer's information is      *)
(* collected anew, which brings every setting into its range (byte by byte *)
(* too) and reads the EEPROM again.  Any byte's answer may be lost, any    *)
(* reading may fail, and the printer may be unplugged at any moment.       *)
(*                                                                         *)
(* The firmware is iMe, and the fan and the motor currents, which          *)
(* PrinterUpkeep is about, are right.                                      *)
(***************************************************************************)
EXTENDS Integers, Sequences, FiniteSets

CONSTANTS
    CHOICES,         \* the settings that the user chooses from the list
    NUMBERS,         \* whole numbers that the user enters, with either sign
    WORDS,           \* other texts that the user enters
    SAVES,           \* bound on texts entered
    FAILURES         \* bound on lost answers, failed readings and unpluggings

VARIABLES
    bytes,       \* the printer's EEPROM
    bytesCopy,   \* Manager's copy of the first 768 bytes
    choice,      \* the chosen setting
    place,       \* the step of the window, of the save or of the collection
    job,         \* field, bytes and place of the write that goes on
    checking,    \* place in the order in which the ranges are checked
    connecting,  \* the collection belongs to connect(), not to a saved setting
    fresh,       \* the copy is the one read at the end of a collection
    saved,       \* field and word of the last text said to be saved, unless a
                 \* write was broken off since
    touched,     \* fields written since the start
    saves, faults

settingsVars == <<bytes, bytesCopy, choice, place, job, checking, connecting, fresh, saved, touched, saves, faults>>
window == <<choice, saved, saves>>

-----------------------------------------------------------------------------
(* The printer's EEPROM as eeprom.h lays it out for the firmware and for    *)
(* M33 Manager: where each field lies, the type of the settings, and the    *)
(* range they are kept in.  A float is its four bytes, lowest first.        *)

\* Offset and length of every field; the six fields of the backlash expansion,
\* which follow one another, are one here.
Layout == [
    FIRMWARE_VERSION |-> <<0, 4>>, FIRMWARE_CRC |-> <<4, 4>>, LAST_RECORDED_Z_VALUE |-> <<8, 4>>,
    BACKLASH_X |-> <<12, 4>>, BACKLASH_Y |-> <<16, 4>>,
    BED_ORIENTATION_BACK_RIGHT |-> <<20, 4>>, BED_ORIENTATION_BACK_LEFT |-> <<24, 4>>,
    BED_ORIENTATION_FRONT_LEFT |-> <<28, 4>>, BED_ORIENTATION_FRONT_RIGHT |-> <<32, 4>>,
    FILAMENT_COLOR |-> <<36, 4>>, FILAMENT_TYPE_AND_LOCATION |-> <<40, 1>>,
    FILAMENT_TEMPERATURE |-> <<41, 1>>, FILAMENT_AMOUNT |-> <<42, 4>>,
    BACKLASH_EXPANSION |-> <<46, 24>>,
    BED_OFFSET_BACK_LEFT |-> <<70, 4>>, BED_OFFSET_BACK_RIGHT |-> <<74, 4>>,
    BED_OFFSET_FRONT_RIGHT |-> <<78, 4>>, BED_OFFSET_FRONT_LEFT |-> <<82, 4>>,
    BED_HEIGHT_OFFSET |-> <<86, 4>>, RESERVED |-> <<90, 4>>, BACKLASH_SPEED |-> <<94, 4>>,
    BED_ORIENTATION_VERSION |-> <<98, 1>>,
    SPEED_LIMIT_X |-> <<102, 4>>, SPEED_LIMIT_Y |-> <<106, 4>>, SPEED_LIMIT_Z |-> <<110, 4>>,
    SPEED_LIMIT_E_POSITIVE |-> <<114, 4>>, SPEED_LIMIT_E_NEGATIVE |-> <<118, 4>>,
    FILAMENT_SIZE |-> <<130, 1>>, FILAMENT_UID |-> <<131, 4>>,
    BED_ORIENTATION_FIRST_SAMPLE |-> <<262, 4>>,
    HEATBED_TEMPERATURE |-> <<651, 1>>, SKEW_X |-> <<652, 4>>, SKEW_Y |-> <<656, 4>>,
    EXPAND_PRINTABLE_REGION |-> <<660, 1>>, EXTERNAL_BED_HEIGHT |-> <<661, 4>>,
    CALIBRATE_Z0_CORRECTION |-> <<665, 4>>,
    X_JERK_SENSITIVITY |-> <<669, 1>>, Y_JERK_SENSITIVITY |-> <<670, 1>>,
    LAST_RECORDED_X_VALUE |-> <<671, 4>>, LAST_RECORDED_Y_VALUE |-> <<675, 4>>,
    LAST_RECORDED_X_DIRECTION |-> <<679, 1>>, LAST_RECORDED_Y_DIRECTION |-> <<680, 1>>,
    SAVED_X_STATE |-> <<681, 1>>, SAVED_Y_STATE |-> <<682, 1>>,
    FAN_TYPE |-> <<683, 1>>, FAN_OFFSET |-> <<684, 1>>, FAN_SCALE |-> <<685, 4>>,
    HEATER_CALIBRATION_MODE |-> <<689, 1>>, X_MOTOR_CURRENT |-> <<690, 2>>,
    Y_MOTOR_CURRENT |-> <<692, 2>>, Z_MOTOR_CURRENT |-> <<694, 2>>, HARDWARE_STATUS |-> <<696, 2>>,
    HEATER_TEMPERATURE_MEASUREMENT_B |-> <<698, 4>>, HOURS_COUNTER |-> <<704, 4>>,
    X_MOTOR_STEPS_PER_MM |-> <<726, 4>>, Y_MOTOR_STEPS_PER_MM |-> <<730, 4>>,
    Z_MOTOR_STEPS_PER_MM |-> <<734, 4>>, E_MOTOR_STEPS_PER_MM |-> <<738, 4>>,
    SAVED_Z_STATE |-> <<742, 2>>, E_MOTOR_CURRENT |-> <<744, 2>>,
    HEATER_RESISTANCE_M |-> <<746, 4>>, SERIAL_NUMBER |-> <<751, 16>>,
    DECRYPTION_TABLE |-> <<768, 256>>]

Fields == DOMAIN Layout
Addresses == 0 .. 1023

-----------------------------------------------------------------------------
(* Values as the bytes of a 32-bit word.                                   *)

\* An int as its word: two's complement.
Int32(n) == [i \in 1 .. 4 |-> (n \div 256^(i - 1)) % 256]

\* A whole number as a single-precision float.
Float(n) ==
    LET size == IF n < 0 THEN -n ELSE n
        e == CHOOSE k \in 0 .. 23 : 2^k <= size /\ size < 2^(k + 1)
        mantissa == size * 2^(23 - e) - 2^23
        exponent == e + 127
    IN  IF n = 0 THEN <<0, 0, 0, 0>>
        ELSE <<mantissa % 256, (mantissa \div 256) % 256,
               (mantissa \div 65536) + 128 * (exponent % 2),
               (exponent \div 2) + (IF n < 0 THEN 128 ELSE 0)>>

FLT_MAX == <<255, 255, 127, 127>>
FLT_LOW == <<255, 255, 127, 255>>      \* -FLT_MAX
FLT_MIN == <<0, 0, 128, 0>>

\* Floats are ordered like their words without the sign, turned round for the
\* negative ones.
Magnitude(word) == (word[4] % 128) * 16777216 + word[3] * 65536 + word[2] * 256 + word[1]
FloatOrder(word) == IF word[4] >= 128 THEN -Magnitude(word) ELSE Magnitude(word)
isnan(word) == Magnitude(word) > 127 * 16777216 + 128 * 65536

\* Unsigned words that are as short as the integer settings.
IntOrder(word) == word[2] * 256 + word[1]

-----------------------------------------------------------------------------
(* Type of the settings, and the range and the default of those that M33   *)
(* Manager keeps within one.                                               *)
Integral == {"FILAMENT_TEMPERATURE", "X_JERK_SENSITIVITY", "Y_JERK_SENSITIVITY", "HEATBED_TEMPERATURE"}
Type(f) == CASE f \in Integral -> "int" [] f = "EXPAND_PRINTABLE_REGION" -> "bool" [] OTHER -> "float"

Zero == <<0, 0, 0, 0>>

Default == [
    BACKLASH_X |-> <<154, 153, 153, 62>>, BACKLASH_Y |-> <<154, 153, 25, 63>>,
    BACKLASH_SPEED |-> Float(1500),
    FILAMENT_TEMPERATURE |-> Int32(115),
    SPEED_LIMIT_X |-> Float(1500), SPEED_LIMIT_Y |-> Float(1500), SPEED_LIMIT_Z |-> Float(60),
    SPEED_LIMIT_E_POSITIVE |-> Float(102), SPEED_LIMIT_E_NEGATIVE |-> Float(360),
    LAST_RECORDED_X_VALUE |-> Float(54), LAST_RECORDED_Y_VALUE |-> Float(50),
    LAST_RECORDED_Z_VALUE |-> Float(5),
    X_MOTOR_STEPS_PER_MM |-> <<77, 116, 154, 65>>, Y_MOTOR_STEPS_PER_MM |-> <<32, 18, 144, 65>>,
    Z_MOTOR_STEPS_PER_MM |-> <<23, 149, 33, 68>>, E_MOTOR_STEPS_PER_MM |-> <<141, 115, 0, 67>>,
    X_JERK_SENSITIVITY |-> Int32(195), Y_JERK_SENSITIVITY |-> Int32(195),
    HEATBED_TEMPERATURE |-> Int32(70),
    BED_ORIENTATION_BACK_RIGHT |-> Zero, BED_ORIENTATION_BACK_LEFT |-> Zero, BED_ORIENTATION_FRONT_LEFT |-> Zero,
    BED_ORIENTATION_FRONT_RIGHT |-> Zero, BED_OFFSET_BACK_RIGHT |-> Zero, BED_OFFSET_BACK_LEFT |-> Zero,
    BED_OFFSET_FRONT_LEFT |-> Zero, BED_OFFSET_FRONT_RIGHT |-> Zero, BED_HEIGHT_OFFSET |-> Zero,
    CALIBRATE_Z0_CORRECTION |-> Zero, EXPAND_PRINTABLE_REGION |-> Zero, EXTERNAL_BED_HEIGHT |-> Zero,
    SKEW_X |-> Zero, SKEW_Y |-> Zero]

Limits ==
    [f \in DOMAIN Default |->
    CASE f \in {"BACKLASH_X", "BACKLASH_Y"} -> <<Float(0), Float(2)>>
      [] f = "BACKLASH_SPEED" -> <<Float(1), FLT_MAX>>
      [] f \in {"BED_ORIENTATION_BACK_RIGHT", "BED_ORIENTATION_BACK_LEFT",
                "BED_ORIENTATION_FRONT_LEFT", "BED_ORIENTATION_FRONT_RIGHT"} -> <<Float(-3), Float(3)>>
      [] f = "FILAMENT_TEMPERATURE" -> <<Int32(50), Int32(215)>>
      [] f \in {"SPEED_LIMIT_X", "SPEED_LIMIT_Y"} -> <<Float(120), Float(4800)>>
      [] f = "SPEED_LIMIT_Z" -> <<Float(30), Float(60)>>
      [] f = "SPEED_LIMIT_E_POSITIVE" -> <<Float(60), Float(600)>>
      [] f = "SPEED_LIMIT_E_NEGATIVE" -> <<Float(60), Float(720)>>
      [] f \in {"X_MOTOR_STEPS_PER_MM", "Y_MOTOR_STEPS_PER_MM", "Z_MOTOR_STEPS_PER_MM",
                "E_MOTOR_STEPS_PER_MM"} -> <<FLT_MIN, FLT_MAX>>
      [] f \in {"X_JERK_SENSITIVITY", "Y_JERK_SENSITIVITY"} -> <<Int32(1), Int32(255)>>
      [] f = "EXTERNAL_BED_HEIGHT" -> <<Float(0), Float(50)>>
      [] f \in {"SKEW_X", "SKEW_Y"} -> <<Float(-40), Float(40)>>
      [] f = "HEATBED_TEMPERATURE" -> <<Int32(0), Int32(110)>>
      [] OTHER -> <<FLT_LOW, FLT_MAX>>]

-----------------------------------------------------------------------------
ReadSize == 768

\* getEepromOffsetLengthAndType: the field of a setting in the list.
ListedFields == {
    <<"Backlash X", "BACKLASH_X">>, <<"Backlash Y", "BACKLASH_Y">>, <<"Backlash speed", "BACKLASH_SPEED">>,
    <<"Back right orientation", "BED_ORIENTATION_BACK_RIGHT">>,
    <<"Back left orientation", "BED_ORIENTATION_BACK_LEFT">>,
    <<"Front left orientation", "BED_ORIENTATION_FRONT_LEFT">>,
    <<"Front right orientation", "BED_ORIENTATION_FRONT_RIGHT">>,
    <<"Back right offset", "BED_OFFSET_BACK_RIGHT">>, <<"Back left offset", "BED_OFFSET_BACK_LEFT">>,
    <<"Front left offset", "BED_OFFSET_FRONT_LEFT">>, <<"Front right offset", "BED_OFFSET_FRONT_RIGHT">>,
    <<"Bed height offset", "BED_HEIGHT_OFFSET">>,
    <<"Speed limit X", "SPEED_LIMIT_X">>, <<"Speed limit Y", "SPEED_LIMIT_Y">>,
    <<"Speed limit Z", "SPEED_LIMIT_Z">>, <<"Speed limit E+", "SPEED_LIMIT_E_POSITIVE">>,
    <<"Speed limit E-", "SPEED_LIMIT_E_NEGATIVE">>,
    <<"X motor steps/mm", "X_MOTOR_STEPS_PER_MM">>, <<"Y motor steps/mm", "Y_MOTOR_STEPS_PER_MM">>,
    <<"Z motor steps/mm", "Z_MOTOR_STEPS_PER_MM">>, <<"E motor steps/mm", "E_MOTOR_STEPS_PER_MM">>,
    <<"X jerk homing sensitivity", "X_JERK_SENSITIVITY">>,
    <<"Y jerk homing sensitivity", "Y_JERK_SENSITIVITY">>,
    <<"Calibrate Z0 correction", "CALIBRATE_Z0_CORRECTION">>,
    <<"External bed height", "EXTERNAL_BED_HEIGHT">>,
    <<"Expand printable region", "EXPAND_PRINTABLE_REGION">>,
    <<"Skew X", "SKEW_X">>, <<"Skew Y", "SKEW_Y">>}
FieldOf ==
    [name \in {row[1] : row \in ListedFields} |-> (CHOOSE row \in ListedFields : row[1] = name)[2]]

getEepromSettingsNames == DOMAIN FieldOf

SettingsAssumption ==
    /\ CHOICES \subseteq getEepromSettingsNames /\ CHOICES # {}
    /\ NUMBERS \subseteq Nat
    /\ WORDS \subseteq {"false", "true", "FLT_MAX"}
    /\ SAVES \in Nat /\ FAILURES \in Nat

\* No two fields of the EEPROM share a byte.
LayoutAssumption ==
    \A f, g \in Fields : f # g =>
        Layout[f][1] + Layout[f][2] <= Layout[g][1] \/ Layout[g][1] + Layout[g][2] <= Layout[f][1]

\* The fields whose range is checked, in the order of
\* collectPrinterInformation.
Checked == <<
    "BACKLASH_X", "BACKLASH_Y", "BACKLASH_SPEED", "BED_ORIENTATION_BACK_RIGHT", "BED_ORIENTATION_BACK_LEFT",
    "BED_ORIENTATION_FRONT_LEFT", "BED_ORIENTATION_FRONT_RIGHT", "BED_OFFSET_BACK_RIGHT", "BED_OFFSET_BACK_LEFT",
    "BED_OFFSET_FRONT_LEFT", "BED_OFFSET_FRONT_RIGHT", "BED_HEIGHT_OFFSET", "FILAMENT_TEMPERATURE",
    "SPEED_LIMIT_X", "SPEED_LIMIT_Y", "SPEED_LIMIT_Z", "SPEED_LIMIT_E_POSITIVE", "SPEED_LIMIT_E_NEGATIVE",
    "LAST_RECORDED_X_VALUE", "LAST_RECORDED_Y_VALUE", "X_MOTOR_STEPS_PER_MM", "Y_MOTOR_STEPS_PER_MM",
    "Z_MOTOR_STEPS_PER_MM", "E_MOTOR_STEPS_PER_MM", "X_JERK_SENSITIVITY", "Y_JERK_SENSITIVITY",
    "CALIBRATE_Z0_CORRECTION", "EXTERNAL_BED_HEIGHT", "SKEW_X", "SKEW_Y", "HEATBED_TEMPERATURE",
    "LAST_RECORDED_Z_VALUE" >>

-----------------------------------------------------------------------------
(* Access to the EEPROM.                                                   *)

\* A field's bytes as a word; bytes that the field does not have are 0.
\* eepromGetInt and eepromGetFloat put it together from the copy.
Word(image, f) == [i \in 1 .. 4 |-> IF i <= Layout[f][2] THEN image[Layout[f][1] + i - 1] ELSE 0]

\* Faulty: the highest byte first.
ByteOfReversed(word, length, i) == word[length - i]

\* Byte i (from 0) of a word as eepromWriteInt writes it.
ByteOf(word, length, i) == IF i < 4 THEN word[i + 1] ELSE 0

\* How many bytes are written to a field.
Length(f) == Layout[f][2]

Truncated(f, word) == [i \in 1 .. 4 |-> IF i <= Layout[f][2] THEN word[i] ELSE 0]

\* eepromKeepIntWithinRange and eepromKeepFloatWithinRange.
Kept(f, word) ==
    LET Order(w) == IF Type(f) = "int" THEN IntOrder(w) ELSE FloatOrder(w) IN
    CASE Type(f) = "float" /\ isnan(word) -> Default[f]
      [] Order(word) < Order(Limits[f][1]) -> Limits[f][1]
      [] Order(word) > Order(Limits[f][2]) -> Limits[f][2]
      [] OTHER -> word

NoJob == [field |-> "BACKLASH_X", word |-> <<0, 0, 0, 0>>, next |-> 0]

\* A printer whose settings have their defaults; the other bytes are some 7s.
FieldAt == [a \in Addresses |-> {f \in Fields : Layout[f][1] <= a /\ a < Layout[f][1] + Layout[f][2]}]
Delivered ==
    [a \in Addresses |->
        LET known == FieldAt[a] \cap DOMAIN Default
        IN  IF known = {} THEN 7
            ELSE LET f == CHOOSE f \in known : TRUE IN Default[f][a - Layout[f][1] + 1]]

FirstBytes(image) == [a \in 0 .. ReadSize - 1 |-> image[a]]

SettingsInit ==
    /\ bytes = Delivered /\ bytesCopy = FirstBytes(bytes)
    /\ choice = CHOOSE c \in CHOICES : TRUE
    /\ place = "idle" /\ job = NoJob /\ checking = 1 /\ connecting = FALSE
    /\ fresh = TRUE /\ saved = [field |-> "BACKLASH_X", word |-> Default["BACKLASH_X"]]
    /\ touched = {} /\ saves = 0 /\ faults = 0

Fault == faults < FAILURES /\ faults' = faults + 1

-----------------------------------------------------------------------------
(* The window.                                                             *)

\* The list of settings: setPrinterSettingValue shows the chosen one from the
\* copy.  (After the last save nothing more is chosen.)
Choose(c) ==
    /\ place = "idle" /\ choice # c /\ saves < SAVES
    /\ choice' = c
    /\ UNCHANGED <<bytes, bytesCopy, place, job, checking, connecting, fresh, saved, touched, saves, faults>>

Shown == Word(bytesCopy, FieldOf[choice])

Write(f, word) == job' = [field |-> f, word |-> word, next |-> 0]

\* savePrinterSetting with a number.
SaveNumber(n) ==
    /\ place = "idle" /\ saves < SAVES
    /\ LET f == FieldOf[choice] IN
       Write(f, CASE Type(f) = "int" -> Int32(n) [] Type(f) = "float" -> Float(n) [] OTHER -> Int32(1))
    /\ place' = "save" /\ saves' = saves + 1
    /\ UNCHANGED <<bytes, bytesCopy, choice, checking, connecting, fresh, saved, touched, faults>>

\* savePrinterSetting with another text.  stoi() and stof() throw an exception
\* that nobody catches for what is no number of their type.
SaveWord(word) ==
    /\ place = "idle" /\ saves < SAVES
    /\ LET f == FieldOf[choice] IN
       CASE Type(f) = "bool" -> Write(f, Int32(IF word = "false" THEN 0 ELSE 1)) /\ place' = "save"
         [] Type(f) = "float" /\ word = "FLT_MAX" -> Write(f, FLT_MAX) /\ place' = "save"
         [] OTHER -> place' = "terminated" /\ UNCHANGED job
    /\ saves' = saves + 1
    /\ UNCHANGED <<bytes, bytesCopy, choice, checking, connecting, fresh, saved, touched, faults>>

-----------------------------------------------------------------------------
(* A write of a field: eepromWriteInt, for a setting or for a repair.      *)

Store(stored) ==
    LET address == Layout[job.field][1] + job.next IN
    /\ bytes' = IF stored THEN [bytes EXCEPT ![address] = ByteOf(job.word, Length(job.field), job.next)]
                 ELSE bytes
    /\ touched' = touched \cup {job.field}

\* The byte is written and answered.  After the last one a setting counts as
\* saved, and enableSettingsControls has the information collected; a repair is
\* followed by the next check.
WriteByte ==
    /\ place \in {"save", "repair"}
    /\ Store(TRUE)
    /\ IF job.next + 1 < Length(job.field)
       THEN job' = [job EXCEPT !.next = @ + 1] /\ UNCHANGED <<place, saved, fresh, checking>>
       ELSE /\ job' = NoJob
            /\ place' = IF place = "save" THEN "collect" ELSE "check"
            /\ saved' = IF place = "save" THEN [field |-> job.field, word |-> job.word] ELSE saved
            /\ fresh' = IF place = "save" THEN FALSE ELSE fresh
            /\ checking' = IF place = "save" THEN 1 ELSE checking
    /\ UNCHANGED <<bytesCopy, choice, connecting, saves, faults>>

\* collectPrinterInformation fails: connect() gives up, a saved setting's
\* window does not look at the result and shows the copy as it is.
CollectFails == place' = IF connecting THEN "off" ELSE "idle"

\* The answer is lost, and so may be the byte: the write ends in an error.
WriteByteLost ==
    /\ place \in {"save", "repair"} /\ Fault
    /\ \E stored \in BOOLEAN : Store(stored)
    /\ job' = NoJob /\ fresh' = FALSE /\ checking' = 1
    /\ IF place = "save" THEN place' = "collect" ELSE CollectFails
    /\ saved' = [saved EXCEPT !.field = "none"]
    /\ UNCHANGED <<bytesCopy, choice, connecting, saves>>

-----------------------------------------------------------------------------
(* collectPrinterInformation.                                              *)

\* refreshEeprom at its start.
Refresh ==
    /\ place = "collect"
    /\ bytesCopy' = FirstBytes(bytes) /\ place' = "check" /\ checking' = 1 /\ fresh' = FALSE
    /\ UNCHANGED <<bytes, window, job, connecting, touched, faults>>

RefreshFails ==
    /\ place \in {"collect", "reread"} /\ Fault
    /\ CollectFails /\ fresh' = FALSE
    /\ UNCHANGED <<bytes, bytesCopy, window, job, checking, connecting, touched>>

\* The next range to check after a repair.
NextCheck(i) == i + 1

OutOfRange(image, f) == Kept(f, Word(image, f)) # Word(image, f)

\* The first setting out of range from here on is repaired, as the copy has it.
Check ==
    /\ place = "check"
    /\ LET bad == {i \in checking .. Len(Checked) : OutOfRange(bytesCopy, Checked[i])} IN
       IF bad = {} THEN place' = "reread" /\ UNCHANGED <<job, checking>>
       ELSE LET i == CHOOSE i \in bad : \A j \in bad : i <= j IN
            /\ Write(Checked[i], Kept(Checked[i], Word(bytesCopy, Checked[i])))
            /\ place' = "repair" /\ checking' = NextCheck(i)
    /\ UNCHANGED <<bytes, bytesCopy, window, connecting, fresh, touched, faults>>

\* refreshEeprom at its end; the controls are there again and show the copy.
RefreshAgain ==
    /\ place = "reread"
    /\ bytesCopy' = FirstBytes(bytes)
    /\ place' = "idle" /\ connecting' = FALSE /\ fresh' = TRUE
    /\ UNCHANGED <<bytes, window, job, checking, touched, faults>>

-----------------------------------------------------------------------------
\* The printer is unplugged; a write that went on ends in an error.
Unplug ==
    /\ place \notin {"off", "terminated"} /\ Fault
    /\ place' = "off" /\ job' = NoJob /\ fresh' = FALSE /\ connecting' = FALSE
    /\ saved' = IF place \in {"save", "repair"} THEN [saved EXCEPT !.field = "none"] ELSE saved
    /\ UNCHANGED <<bytes, bytesCopy, choice, checking, touched, saves>>

\* The printer is connected again.
Connect ==
    /\ place = "off"
    /\ place' = "collect" /\ connecting' = TRUE
    /\ UNCHANGED <<bytes, bytesCopy, window, job, checking, fresh, touched, faults>>

Collecting == WriteByte \/ Refresh \/ Check \/ RefreshAgain
Entered == (\E c \in CHOICES : Choose(c)) \/ (\E n \in NUMBERS : SaveNumber(n) \/ SaveNumber(-n)) \/ (\E w \in WORDS : SaveWord(w))
SettingsNext == Entered \/ Collecting \/ WriteByteLost \/ RefreshFails \/ Unplug \/ Connect

SettingsSpec == SettingsInit /\ [][SettingsNext]_settingsVars

-----------------------------------------------------------------------------
\* However a save or a repair ends, it reaches no byte but those of its own
\* field: the other settings, the axes the firmware saves there, the serial
\* number, the decryption table and the bytes nobody uses stay as they were.
OthersKept ==
    \A a \in Addresses : bytes[a] # Delivered[a] => FieldAt[a] \cap touched # {}

\* What is said to be saved is there: once the information is collected, the
\* copy and the printer hold the number that was entered, cut to the size of
\* the field and brought into its range, whatever was torn before the save.
SavedStands ==
    place = "idle" /\ fresh /\ saved.field \in Fields =>
        LET word == Kept(saved.field, Truncated(saved.field, saved.word))
        IN  Word(bytesCopy, saved.field) = word /\ Word(bytes, saved.field) = word

\* A collection that succeeds leaves every setting in its range and shows the
\* printer as it is, even after a write that stopped between two bytes left a
\* value that nobody entered.
CollectedInRange ==
    place = "idle" /\ fresh =>
        /\ \A a \in DOMAIN bytesCopy : bytesCopy[a] = bytes[a]
        /\ Shown = Word(bytes, FieldOf[choice])
        /\ \A i \in 1 .. Len(Checked) :
              LET f == Checked[i]
                  w == Word(bytes, f)
                  Order(x) == IF Type(f) = "int" THEN IntOrder(x) ELSE FloatOrder(x)
              IN  /\ Order(Limits[f][1]) <= Order(w) /\ Order(w) <= Order(Limits[f][2])
                  /\ Type(f) = "float" => ~isnan(w)

\* A setting that was said to be saved is there as it was entered, every
\* setting that was collected is in its range and shown as it is, and no byte
\* outside the fields that were saved or repaired was touched.
SettingsKept == SavedStands /\ CollectedInRange /\ OthersKept
=============================================================================
