---------------------------- MODULE GcodeParser ----------------------------
(***************************************************************************)
(* The parser of G-code commands (gcode.cpp) and the number conversions it *)
(* uses (common.cpp).  A command is a sequence of characters that ends     *)
(* where the request it stands in ends, so parsing one line sees the lines *)
(* behind it.  Offsets count from 0 as in the code.                        *)
(*                                                                         *)
(* As a specification it types requests character by character, so that    *)
(* every request up to MAX_LENGTH characters of CHARACTERS is parsed.      *)
(***************************************************************************)
EXTENDS Integers, Sequences, SequencesExt, Bitwise

CONSTANTS
    CHARACTERS,     \* what a host types: a subset of the domain of ASCII
    MAX_LENGTH,     \* bound on a request's length
    INDEX,          \* offsets are kept modulo INDEX: 256, for uint8_t
    FLT_DIG         \* decimals of a number that count

VARIABLE
    request         \* the characters of a request

ASCII == [ch \in {"LF", "SP", "*", "+", "-", ".", "0", "1", "2", "6", "7", ";", "@",
                  "G", "M", "N", "S", "X", "g"} |->
          CASE ch = "LF" -> 10 [] ch = "SP" -> 32 [] ch = "*" -> 42 [] ch = "+" -> 43
            [] ch = "-" -> 45 [] ch = "." -> 46 [] ch = "0" -> 48 [] ch = "1" -> 49
            [] ch = "2" -> 50 [] ch = "6" -> 54 [] ch = "7" -> 55 [] ch = ";" -> 59
            [] ch = "@" -> 64 [] ch = "G" -> 71 [] ch = "M" -> 77 [] ch = "N" -> 78
            [] ch = "S" -> 83 [] ch = "X" -> 88 [] ch = "g" -> 103]

ParserAssumption ==
    /\ CHARACTERS \subseteq DOMAIN ASCII
    /\ MAX_LENGTH \in Nat /\ INDEX \in Nat \ {0} /\ FLT_DIG \in Nat

\* A character of a terminated string.
At(c, i) == IF i < Len(c) THEN c[i + 1] ELSE "NUL"

From(c, i) == SubSeq(c, i + 1, Len(c))

-----------------------------------------------------------------------------
(* Numbers.  A conversion yields a value and the offset behind it; it found *)
(* none when that is the offset it began at.                                *)

isDigit(ch) == ch \in {"0", "1", "2", "6", "7"}

DigitsEnd(c, i) ==
    CHOOSE j \in i .. Len(c) : ~isDigit(At(c, j)) /\ \A k \in i .. j - 1 : isDigit(At(c, k))

Digits(c, i, j) == FoldLeft(LAMBDA value, ch : 10 * value + (ASCII[ch] - 48), 0, SubSeq(c, i + 1, j))

strtoull(c, i) ==
    LET start == IF At(c, i) = "+" /\ isDigit(At(c, i + 1)) THEN i + 1 ELSE i
        end == DigitsEnd(c, start)
    IN  [value |-> Digits(c, start, end), end |-> end]

strtoll(c, i) ==
    IF At(c, i) = "-" /\ isDigit(At(c, i + 1))
      THEN [strtoull(c, i + 1) EXCEPT !.value = -@]
      ELSE strtoull(c, i)

\* Values in units of the last decimal that counts.
strtof(c, i) ==
    LET signed == /\ At(c, i) \in {"-", "+"}
                  /\ \/ isDigit(At(c, i + 1))
                     \/ At(c, i + 1) = "." /\ isDigit(At(c, i + 2))
        start == IF signed THEN i + 1 ELSE i
        point == DigitsEnd(c, start)
        decimals == IF At(c, point) = "." /\ isDigit(At(c, point + 1)) THEN point + 1 ELSE point
        end == DigitsEnd(c, decimals)
        used == IF end - decimals > FLT_DIG THEN FLT_DIG ELSE end - decimals
        value == Digits(c, start, point) * 10 ^ FLT_DIG
                   + Digits(c, decimals, decimals + used) * 10 ^ (FLT_DIG - used)
    IN  [value |-> IF signed /\ At(c, i) = "-" THEN -value ELSE value, end |-> end]

-----------------------------------------------------------------------------
(* Commands.                                                               *)

isWhitespace(ch) == ch \in {"SP", "LF"}

lowerCase(ch) ==
    CASE ch \in {"G", "g"} -> "g" [] ch = "M" -> "m" [] ch = "N" -> "n"
      [] ch = "S" -> "s" [] ch = "X" -> "x" [] OTHER -> "none"

\* The field each parameter is stored in has its own type.
Parameter(letter, c, i) ==
    CASE letter = "g" -> [strtoull(c, i) EXCEPT !.value = @ % 2^8]
      [] letter = "m" -> [strtoull(c, i) EXCEPT !.value = @ % 2^16]
      [] letter = "n" -> strtoull(c, i)
      [] letter = "s" -> strtoll(c, i)
      [] letter = "x" -> strtof(c, i)

firstValidCharacter(c) ==
    CHOOSE i \in 0 .. Len(c) : ~isWhitespace(At(c, i)) /\ \A k \in 0 .. i - 1 : isWhitespace(At(c, k))

\* Where the comment, the checksum or the end of the line begins.
LineEnd(c, i) ==
    CHOOSE j \in i .. Len(c) :
        /\ At(c, j) \in {"NUL", ";", "*", "LF"}
        /\ \A k \in i .. j - 1 : At(c, k) \notin {"NUL", ";", "*", "LF"}

\* Trailing whitespace removed.
lastValidCharacter(c) ==
    LET first == firstValidCharacter(c)
    IN  CHOOSE j \in first .. LineEnd(c, first) :
            /\ \A k \in j .. LineEnd(c, first) - 1 : isWhitespace(At(c, k))
            /\ j > first => ~isWhitespace(At(c, j - 1))

\* Faulty: the loop goes on one character behind the number.
RECURSIVE ScanPastNumber(_, _, _, _)

ScanPastNumber(c, i, stop, found) ==
    IF i >= stop THEN found
    ELSE LET letter == lowerCase(At(c, i))
         IN  IF letter = "none" \/ letter \in DOMAIN found THEN ScanPastNumber(c, i + 1, stop, found)
             ELSE LET at == (i + 1) % INDEX
                      number == Parameter(letter, c, at)
                  IN  IF number.end = at THEN ScanPastNumber(c, at, stop, found)
                      ELSE ScanPastNumber(c, (number.end + 1) % INDEX, stop,
                                [l \in DOMAIN found \cup {letter} |->
                                     IF l = letter THEN number.value ELSE found[l]])

\* Faulty: a repeated parameter replaces the first.
RECURSIVE ScanLast(_, _, _, _)

ScanLast(c, i, stop, found) ==
    IF i >= stop THEN found
    ELSE LET letter == lowerCase(At(c, i))
         IN  IF letter = "none" THEN ScanLast(c, i + 1, stop, found)
             ELSE LET at == (i + 1) % INDEX
                      number == Parameter(letter, c, at)
                  IN  IF number.end = at THEN ScanLast(c, at, stop, found)
                      ELSE ScanLast(c, number.end % INDEX, stop,
                                [l \in DOMAIN found \cup {letter} |->
                                     IF l = letter THEN number.value ELSE found[l]])

\* The loop over the characters from i on: parameters, each the first time it
\* has a value.
RECURSIVE Scan(_, _, _, _)

Scan(c, i, stop, found) ==
    IF i >= stop THEN found
    ELSE LET letter == lowerCase(At(c, i))
         IN  IF letter = "none" \/ letter \in DOMAIN found THEN Scan(c, i + 1, stop, found)
             ELSE LET at == (i + 1) % INDEX
                      number == Parameter(letter, c, at)
                  IN  IF number.end = at THEN Scan(c, at, stop, found)
                      ELSE Scan(c, number.end % INDEX, stop,
                                [l \in DOMAIN found \cup {letter} |->
                                     IF l = letter THEN number.value ELSE found[l]])

\* Exclusive or of the first i characters.
Sum8(c, i) == FoldLeft(LAMBDA sum, ch : sum ^^ ASCII[ch], 0, SubSeq(c, 1, i))

Asterisks(c, i) == {j \in i .. Len(c) - 1 : At(c, j) = "*"}

\* The first asterisk from the end of the command on, of this line or of one
\* behind it, starts the checksum; the loop that sums up to it has an offset
\* that wraps around, and never ends when the asterisk lies beyond its reach.
Checksum(c) ==
    LET stars == Asterisks(c, lastValidCharacter(c))
        star == CHOOSE j \in stars : \A k \in stars : j <= k
        provided == strtoull(c, star + 1)
    IN  CASE stars = {} -> "none"
          [] stars # {} /\ provided.end = star + 1 -> "none"
          [] stars # {} /\ provided.end > star + 1 /\ star >= INDEX -> "endless"
          [] OTHER -> IF Sum8(c, star) = provided.value % 2^8 THEN "valid" ELSE "invalid"

NoParameters == [l \in {} |-> 0]

parseCommand(c) ==
    LET first == firstValidCharacter(c)
        last == lastValidCharacter(c)
    IN  IF first = last \/ At(c, first) = "@"
          THEN [parameters |-> NoParameters, checksum |-> "none"]
          ELSE [parameters |-> Scan(c, first % INDEX, last % INDEX, NoParameters),
                checksum |-> Checksum(c)]

\* The offsets at which cdcRxNotifyCallback has a command parsed: the first
\* character, and each one behind a line feed.
Offsets(c) == {i \in 0 .. Len(c) - 1 : i = 0 \/ At(c, i - 1) = "LF"}

-----------------------------------------------------------------------------
Init == request = <<>>

Type == Len(request) < MAX_LENGTH /\ \E ch \in CHARACTERS : request' = Append(request, ch)

Next == Type

Spec == Init /\ [][Next]_request

-----------------------------------------------------------------------------
Line(c, i) == SubSeq(c, i + 1, CHOOSE j \in i .. Len(c) : At(c, j) \in {"LF", "NUL"}
                                     /\ \A k \in i .. j - 1 : At(c, k) # "LF")

Blank(line) == \A i \in 1 .. Len(line) : isWhitespace(line[i])

\* Where a parameter with a value stands in a line.
Places(line, letter) ==
    {i \in 0 .. LineEnd(line, 0) - 1 :
        lowerCase(At(line, i)) = letter /\ Parameter(letter, line, i + 1).end > i + 1}

Meant(line) ==
    LET letters == {l \in {"g", "m", "n", "s", "x"} : Places(line, l) # {}}
    IN  [l \in letters |->
            Parameter(l, line, 1 + CHOOSE i \in Places(line, l) : \A j \in Places(line, l) : i <= j).value]

\* parseCommand finds in every line that is not blank and whose command ends
\* within reach of an offset exactly the parameters that stand in it, each
\* with the value of its first occurrence that has one, in whatever order and
\* with whatever between them, signs, decimals and comments included.
ParametersMeant ==
    \A i \in Offsets(request) :
        LET line == Line(request, i)
        IN  ~Blank(line) /\ At(line, firstValidCharacter(line)) # "@" /\ lastValidCharacter(line) < INDEX
              => parseCommand(From(request, i)).parameters = Meant(line)

\* The checksum's purpose (Gcode::parseCommand, VALID_CHECKSUM_OFFSET): a
\* command with a valid checksum does not have one any more when one of the
\* characters it covers is changed on the way.  A change into an asterisk is
\* the exception: what stands behind it may happen to be the sum of what
\* stands before it.
DamageNoticed ==
    LET c == request
        star == CHOOSE j \in Asterisks(c, 0) : \A k \in Asterisks(c, 0) : j <= k
    IN  Asterisks(c, 0) # {} /\ parseCommand(c).checksum = "valid"
          => \A i \in 1 .. star, ch \in CHARACTERS \ {"*"} :
                ch # c[i] => parseCommand([c EXCEPT ![i] = ch]).checksum # "valid"
=============================================================================
