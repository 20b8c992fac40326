----------------------------- MODULE BinaryGcode -----------------------------
(***************************************************************************)
(* M33 Manager's Gcode class: a line of G-code becomes an object            *)
(* (parseLine), the object a request in the Repetier protocol (getBinary)   *)
(* or a line again (getAscii), and a request an object (parseBinary).  The  *)
(* manager parses a line and sends it as one or the other, according to the *)
(* firmware the printer has; an object is used for one line after another.  *)
(*                                                                          *)
(* A line is a sequence of items: a letter with its number, <<>> when there *)
(* is none, or a run of other characters, the letter "a" with their bytes.  *)
(* Loops over a line or a request count in 8 bits and are taken step by     *)
(* step, so that a loop that never ends can be seen.                        *)
(***************************************************************************)
EXTENDS Integers, SequencesExt, FiniteSetsExt

CONSTANTS
  LINES,     \* lines the manager is given, each a sequence of items
  EDITS,     \* <<letter, value>> setValue may be called with
  WIDTH      \* 256: what a byte and the loops' counters hold

BinaryGcodeAssumption == WIDTH \in Nat \ {0, 1}

\* ORDER and orderToOffset: the parameters and their places in dataType.
Offset == [N |-> 0, M |-> 1, G |-> 2, X |-> 3, Y |-> 4, Z |-> 5, E |-> 6, F |-> 8,
           T |-> 9, S |-> 10, P |-> 11, I |-> 16, J |-> 17, R |-> 18, D |-> 19]
ORDER == <<"N", "M", "G", "X", "Y", "Z", "E", "F", "T", "S", "P", "I", "J", "R", "D">>
Letters == DOMAIN Offset
Text == 15

\* M commands whose parameter is the rest of the line.
TextCommands == {23, 28, 29, 30, 32, 117}

VARIABLES
  line,      \* the line that was given
  object,    \* dataType's parameters, their values, the text, the host command
  edited,    \* setValue or removeParameter changed the object
  pc,        \* what is being done
  i,         \* the counter of the loop
  request,   \* what getBinary has so far
  sums,      \* the two sums of the checksum
  decoded    \* what parseBinary makes of the request

vars == <<line, object, edited, pc, i, request, sums, decoded>>

-----------------------------------------------------------------------------
\* Objects.

Empty == [flags |-> {}, values |-> [l \in Letters |-> <<>>], text |-> <<>>,
          hasText |-> FALSE, host |-> <<>>]

SetValue(o, l, v) ==
  [o EXCEPT !.flags = @ \cup {l}, !.values = [@ EXCEPT ![l] = v]]

RemoveParameter(o, l) ==
  [o EXCEPT !.flags = @ \ {l}, !.values = [@ EXCEPT ![l] = <<>>]]

SetString(o, t) == [o EXCEPT !.hasText = TRUE, !.text = t]

-----------------------------------------------------------------------------
\* Lines.

\* Characters as bytes; a letter's place in ORDER stands for its code.
ItemBytes(item) ==
  IF item[1] = "a" THEN item[2]
  ELSE <<64 + (IF item[1] \in Letters THEN Offset[item[1]] ELSE 26)>>
       \o (IF item[2] = <<>> THEN <<>> ELSE <<48 + (item[2][1] % 10)>>)

RECURSIVE LineBytes(_)
LineBytes(l) ==
  IF l = <<>> THEN <<>>
  ELSE IF Len(l) = 1 THEN ItemBytes(l[1])
  ELSE ItemBytes(l[1]) \o <<32>> \o LineBytes(Tail(l))

IsHost(l) == l[1][1] = "@"

IsTextCommand(item) ==
  item[1] = "M" /\ item[2] # <<>> /\ item[2][1] \in TextCommands

\* What parseLine finds from the next item on, o being found so far.
RECURSIVE Parsed(_, _)
Parsed(l, o) ==
  IF l = <<>> THEN o
  ELSE LET item == Head(l)
           found == IF item[1] \in Letters THEN SetValue(o, item[1], item[2]) ELSE o
       IN  IF IsTextCommand(item)
           THEN IF Tail(l) = <<>> THEN found ELSE SetString(found, LineBytes(Tail(l)))
           ELSE Parsed(Tail(l), found)

\* The line getAscii makes: parameters in ORDER, the text behind M.
Ascii(o) ==
  FlattenSeq([k \in 1 .. Len(ORDER) |->
    LET l == ORDER[k]
    IN  (IF l \in o.flags THEN << <<l, o.values[l]>> >> ELSE <<>>)
        \o (IF l = "M" /\ l \in o.flags /\ o.hasText THEN << <<"a", o.text>> >> ELSE <<>>)])

-----------------------------------------------------------------------------
\* Requests.

Bytes(n, count) == [k \in 1 .. count |-> (n \div WIDTH ^ (k - 1)) % WIDTH]

\* The four bytes of a float; parsing and formatting it are the library's.
FloatBytes(n) == <<n % WIDTH, n \div WIDTH, 0, 63>>

Integers2 == {"N", "M", "G"}
Integers4 == {"S", "P"}

\* Bytes a value takes.
Size(l) == IF l \in Integers2 THEN 2 ELSE IF l = "T" THEN 1 ELSE 4

ValueBytes(l, n) ==
  IF l \in Integers2 \cup Integers4 \cup {"T"} THEN Bytes(n, Size(l)) ELSE FloatBytes(n)

\* dataType of an object: bits 7 and 12 are always set.
DataType(o) ==
  4224 + MapThenSumSet(LAMBDA l : 2 ^ Offset[l], o.flags)
       + (IF o.hasText THEN 2 ^ Text ELSE 0)

\* Faulty: S and P are written in two bytes.
EncodedShort(o) ==
  Bytes(DataType(o), 4)
  \o (IF o.text = <<>> THEN <<>> ELSE <<Len(o.text) % WIDTH>>)
  \o FlattenSeq([k \in 1 .. Len(ORDER) |->
       LET l == ORDER[k]
       IN  IF o.values[l] = <<>> THEN <<>>
           ELSE IF l \in Integers4 THEN Bytes(o.values[l][1], 2)
           ELSE ValueBytes(l, o.values[l][1])])
  \o o.text

\* getBinary up to the checksum: a parameter is written when it has a value.
Encoded(o) ==
  Bytes(DataType(o), 4)
  \o (IF o.text = <<>> THEN <<>> ELSE <<Len(o.text) % WIDTH>>)
  \o FlattenSeq([k \in 1 .. Len(ORDER) |->
       LET l == ORDER[k]
       IN  IF o.values[l] = <<>> THEN <<>> ELSE ValueBytes(l, o.values[l][1])])
  \o o.text

\* One step of the Fletcher sums.
Sums(s, b) ==
  LET first == (s[1] + b) % (WIDTH - 1)
  IN  <<first, (first + s[2]) % (WIDTH - 1)>>

Checksum(r) == FoldLeft(Sums, <<0, 0>>, r)

\* A byte of a request; behind its end there is nothing to rely on.
At(r, k) == IF k \in DOMAIN r THEN r[k] ELSE 0

Number(r, k, count) ==
  MapThenSumSet(LAMBDA j : At(r, k + j) * WIDTH ^ j, 0 .. count - 1)

DecodedValue(l, r, k) ==
  IF l \in Integers2 \cup Integers4 \cup {"T"} THEN Number(r, k, Size(l))
  ELSE Number(r, k, 2)

Bit(d, o) == (d \div 2 ^ o) % 2 = 1

\* Where the bytes of a letter start, for a parameter dataType has.
Place(d, l) ==
  5 + (IF Bit(d, Text) THEN 1 ELSE 0)
    + MapThenSumSet(LAMBDA m : Size(m),
                    {m \in Letters : Offset[m] < Offset[l] /\ Bit(d, Offset[m])})

\* parseBinary: a parameter is read when dataType has it.
Decoded(r) ==
  LET d == Number(r, 1, 4)
      flags == {l \in Letters : Bit(d, Offset[l])}
      start == 5 + (IF Bit(d, Text) THEN 1 ELSE 0) + MapThenSumSet(Size, flags)
  IN  IF d = 0 \/ d = 4224 THEN Empty
      ELSE [flags |-> flags,
            values |-> [l \in Letters |->
                          IF l \in flags THEN <<DecodedValue(l, r, Place(d, l))>> ELSE <<>>],
            text |-> IF Bit(d, Text) THEN [k \in 1 .. At(r, 5) |-> At(r, start + k - 1)]
                     ELSE <<>>,
            hasText |-> Bit(d, Text),
            host |-> <<>>]

-----------------------------------------------------------------------------
Init ==
  /\ line = <<>> /\ object = Empty /\ edited = FALSE
  /\ pc = "idle" /\ i = 0 /\ request = <<>> /\ sums = <<0, 0>> /\ decoded = Empty

\* parseLine first forgets what the object held.
Cleaned(o) == Empty

NextTurn == (i + 1) % WIDTH

ParseLine(l) ==
  /\ pc = "idle"
  /\ line' = l /\ object' = Cleaned(object) /\ edited' = FALSE
  /\ request' = <<>> /\ decoded' = Empty
  /\ pc' = "scan" /\ i' = 0
  /\ UNCHANGED sums

\* A turn of the loop over the line; a text takes the rest of it at once.
Scan ==
  /\ pc = "scan"
  /\ LET bytes == LineBytes(line)
         text == \E k \in DOMAIN line : IsTextCommand(line[k])
     IN  IF ~IsHost(line) /\ (IF text THEN i < Len(bytes) ELSE i <= Len(bytes))
         THEN i' = NextTurn /\ UNCHANGED <<pc, object>>
         ELSE /\ object' = IF IsHost(line) THEN [object EXCEPT !.host = bytes]
                           ELSE Parsed(line, object)
              /\ pc' = "parsed" /\ i' = 0
  /\ UNCHANGED <<sums, line, edited, request, decoded>>

\* setValue and removeParameter, before the object is used.
Edit(l, v) ==
  /\ pc = "parsed" /\ ~edited /\ object.flags # {}
  /\ object' = IF l \notin Letters THEN object
               ELSE IF v = <<>> THEN RemoveParameter(object, l) ELSE SetValue(object, l, v)
  /\ edited' = TRUE
  /\ UNCHANGED <<sums, line, pc, i, request, decoded>>

\* parseLine's verdict; a line without a parameter is not sent.
Refuse ==
  /\ pc = "parsed" /\ ~edited /\ object.host = <<>> /\ object.flags = {}
  /\ pc' = "idle"
  /\ UNCHANGED <<sums, line, object, edited, i, request, decoded>>

GetBinary ==
  /\ pc = "parsed" /\ (edited \/ object.host # <<>> \/ object.flags # {})
  /\ IF object.host # <<>> THEN request' = <<>> /\ pc' = "copy"
     ELSE (\E r \in {Encoded(object)} : request' = r) /\ pc' = "sum"
  /\ UNCHANGED <<sums, line, object, edited, i, decoded>>

\* A turn of the loop that copies a host command, which has no checksum.
Copy ==
  /\ pc = "copy"
  /\ IF i < Len(object.host) THEN i' = NextTurn /\ UNCHANGED <<pc, request>>
     ELSE request' = object.host /\ pc' = "sent" /\ i' = 0
  /\ UNCHANGED <<sums, line, object, edited, decoded>>

\* A turn of the loop over the request that makes the checksum.
Sum ==
  /\ pc = "sum"
  /\ IF i < Len(request)
     THEN /\ i' = NextTurn /\ sums' = Sums(sums, request[i + 1])
          /\ UNCHANGED <<pc, request>>
     ELSE request' = request \o sums /\ pc' = "sent" /\ i' = 0 /\ sums' = <<0, 0>>
  /\ UNCHANGED <<line, object, edited, decoded>>

\* Whoever receives the request reads it the way parseBinary does.
ParseBinary ==
  /\ pc = "sent"
  /\ \E o \in {IF object.host # <<>> THEN [Empty EXCEPT !.host = request]
              ELSE Decoded(request)} : decoded' = o
  /\ pc' = "idle"
  /\ UNCHANGED <<sums, line, object, edited, i, request>>

Next ==
  \/ \E l \in LINES : ParseLine(l)
  \/ Scan
  \/ \E e \in EDITS : Edit(e[1], e[2])
  \/ Refuse \/ GetBinary \/ Copy \/ Sum \/ ParseBinary

Spec == Init /\ [][Next]_vars

-----------------------------------------------------------------------------
\* The letters of an object up to the first one, in ORDER, without a number.
Readable(o) ==
  {l \in o.flags : \A m \in o.flags : Offset[m] <= Offset[l] => o.values[m] # <<>>}

\* What is decoded from a request is what the line said, edits included, if every
\* letter has a number.  getBinary writes no bytes for one that has none, as in
\* "G28 X", and parseBinary reads some: the letters are still those of the line,
\* and so are the numbers before it, but not what is behind it.
BinaryRoundTrip ==
  request # <<>> /\ pc = "idle" =>
    /\ Readable(object) = object.flags => decoded = object
    /\ decoded.flags = object.flags
    /\ object.text = <<>> =>
         \A l \in Readable(object) : decoded.values[l] = object.values[l]

\* The object holds nothing of the line before: a host command is one only
\* if its line was.
OfThisLine == pc = "parsed" => (object.host # <<>> <=> IsHost(line))

\* The line made of an object says the same, unless parameters follow the M of
\* a command that takes the rest of the line.
AsciiRoundTrip ==
  pc = "parsed" /\ object.host = <<>>
    /\ (IsTextCommand(<<"M", object.values["M"]>>) => object.flags \subseteq {"N", "M"})
    => Parsed(Ascii(object), Empty) = object

\* A request with one byte changed, other than 0 for 255, or with two unequal
\* neighbours swapped does not have its checksum (the sums of Fletcher).
DetectsChange ==
  LET n == Len(request) - 2
      body == SubSeq(request, 1, n)
      had == SubSeq(request, n + 1, n + 2)
  IN  pc = "sent" /\ object.host = <<>> =>
        \A k \in 1 .. n :
          /\ \A d \in {1, 100, WIDTH - 2} :
               Checksum([body EXCEPT ![k] = (@ + d) % (WIDTH - 1)]) # had
          /\ k < n /\ body[k] % (WIDTH - 1) # body[k + 1] % (WIDTH - 1) =>
               Checksum([body EXCEPT ![k] = body[k + 1], ![k + 1] = body[k]]) # had
=============================================================================
