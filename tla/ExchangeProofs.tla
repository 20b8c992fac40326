--------------------------- MODULE ExchangeProofs ---------------------------
(***************************************************************************)
(* Exchanges that may fail in the middle.                                  *)
(*                                                                         *)
(* The TWI master is a bus of registers, for every chip, every package and *)
(* every fault of the bus: a read that returns well returns what the       *)
(* chip's registers hold, in order and once each, and a write that returns *)
(* well has been stored (TwiMaster).                                       *)
(*                                                                         *)
(* M33 Manager installs firmware and repairs the settings of a printer     *)
(* over a connection that may end or lose answers, for every set of ROMs,  *)
(* number of pages, list of settings and number of faults (PrinterUpkeep). *)
(***************************************************************************)
EXTENDS TwiMaster, PrinterUpkeep, SequenceTheorems, TLAPS

-----------------------------------------------------------------------------
(* The TWI master.                                                         *)

Status == {"OPERATION_IN_PROGRESS", "STATUS_OK", "ERR_BUSY", "ERR_IO_ERROR", "ERR_NO_MEMORY",
           "ERR_PROTOCOL"}

\* The flags that the hardware raises together.
Raised == {{}, {"WIF"}, {"RIF"}, {"WIF", "RXACK"}, {"WIF", "BUSERR"}, {"WIF", "ARBLOST"}}

TwiType ==
    /\ twiPc \in {"idle", "status", "bus"} /\ (twiPc = "idle" <=> package = <<>>)
    /\ package # <<>> => package[1] \in Packages
    /\ transfer \in [locked : BOOLEAN, status : Status, addr_count : Nat, data_count : Nat]
    /\ stored \in BOOLEAN
    /\ wire \in {"none", "address", "byte", "turn", "receive", "stop"}
    /\ flags \in Raised

\* A transfer is under way while the hardware works or a flag is up, and never
\* both; after that at most the stop remains.
BusyInv ==
    /\ wire # "none" => flags = {}
    /\ transfer.status # "OPERATION_IN_PROGRESS" => wire \in {"none", "stop"} /\ flags = {}
    /\ wire = "stop" => transfer.status # "OPERATION_IN_PROGRESS"
    /\ twiPc = "bus" => transfer.status # "OPERATION_IN_PROGRESS"
    /\ twiPc = "idle" => transfer.status # "OPERATION_IN_PROGRESS"

Untold == pointer = -1 /\ stored = FALSE
Told(p) == pointer = p.register /\ stored = FALSE
Place(p, n) == (p.register + n) % REGISTERS

\* How far the chip is when the hardware works or has finished a byte of the
\* transfer of package p.
Sending(p) ==
    /\ wire = "address" => transfer.addr_count = 0 /\ transfer.data_count = 0 /\ Untold
    /\ wire = "byte" =>
         /\ transfer.data_count = 0
         /\ \/ transfer.addr_count = 1 /\ Untold /\ sent = p.register
            \/ p.read = FALSE /\ transfer.addr_count = 2 /\ Told(p) /\ sent = p.value
    /\ flags = {"WIF"} =>
         /\ transfer.data_count = 0
         /\ \/ transfer.addr_count = 0 /\ Untold
            \/ transfer.addr_count = 1 /\ Told(p)
            \/ transfer.addr_count = 2 /\ p.read = FALSE /\ stored = TRUE

Receiving(p) ==
    /\ wire \in {"turn", "receive"} => p.read = TRUE /\ pointer = Place(p, transfer.data_count)
    /\ flags = {"RIF"} => p.read = TRUE /\ pointer = Place(p, transfer.data_count + 1)

\* What was received is what the registers hold, and a transfer that ended well
\* is complete.
Gathered(p) ==
    /\ p.read = FALSE => twiBuffer = <<>> /\ transfer.data_count = 0
    /\ p.read = TRUE => /\ stored = FALSE
                        /\ twiBuffer = Bus!Bytes(registers, p.register, transfer.data_count)
    /\ p.read = TRUE /\ transfer.status = "OPERATION_IN_PROGRESS" => transfer.data_count < p.length
    /\ transfer.status = "STATUS_OK" =>
         IF p.read THEN transfer.data_count = p.length ELSE stored = TRUE

TwiInv ==
    /\ TwiType /\ BusyInv
    /\ package # <<>> => Sending(package[1]) /\ Receiving(package[1]) /\ Gathered(package[1])

-----------------------------------------------------------------------------
\* The remainder is the one number below n that differs from x by a multiple.
LEMMA Remainder ==
    ASSUME NEW n \in Nat \ {0}, NEW x \in Int, NEW q \in Int, NEW r \in 0 .. n - 1, x = n * q + r
    PROVE  x % n = r
BY SMTT(30)

\* The chip's register pointer after one more byte.
LEMMA NextPlace ==
    ASSUME TwiAssumption, NEW x \in Nat
    PROVE  /\ x % REGISTERS \in 0 .. REGISTERS - 1
           /\ ((x % REGISTERS) + 1) % REGISTERS = (x + 1) % REGISTERS
           /\ (((x + 1) % REGISTERS) + REGISTERS - 1) % REGISTERS = x % REGISTERS
           /\ x < REGISTERS => x % REGISTERS = x
<1> DEFINE n == REGISTERS
           r == x % n
           q == x \div n
<1>1. n \in Nat \ {0} BY DEF TwiAssumption
<1> HIDE DEF n
<1>2. r \in 0 .. n - 1 /\ q \in Int /\ x = n * q + r
  BY <1>1, SMTT(30)
<1> HIDE DEF r, q
<1>3. CASE r + 1 < n
  <2>1. x + 1 = n * q + (r + 1) BY <1>1, <1>2
  <2>2. (x + 1) % n = r + 1
    BY <1>1, <1>2, <1>3, <2>1, Remainder
  <2>3. r + 1 = n * 0 + (r + 1) /\ r + n = n * 1 + r BY <1>1, <1>2
  <2>4. (r + 1) % n = r + 1 BY <1>1, <1>2, <1>3, <2>3, Remainder
  <2>5. (r + 1 + n - 1) % n = r BY <1>1, <1>2, <1>3, <2>3, Remainder
  <2> QED BY <1>1, <1>2, <2>2, <2>4, <2>5, SMTT(30) DEF r, n
<1>4. CASE r + 1 = n
  <2>1. x + 1 = n * (q + 1) + 0 BY <1>1, <1>2, <1>4
  <2>2. (x + 1) % n = 0
    BY <1>1, <1>2, <1>4, <2>1, Remainder
  <2>3. r + 1 = n * 1 + 0 /\ r = n * 0 + r BY <1>1, <1>2, <1>4
  <2>4. (r + 1) % n = 0 BY <1>1, <2>3, Remainder
  <2>5. r % n = r BY <1>1, <1>2, <2>3, Remainder
  <2>6. 0 + n - 1 = r BY <1>1, <1>2, <1>4
  <2> QED BY <1>1, <1>2, <1>4, <2>2, <2>4, <2>5, <2>6, SMTT(30) DEF r, n
<1> QED BY <1>1, <1>2, <1>3, <1>4

\* One more byte.
LEMMA OneMore ==
    ASSUME TwiAssumption, NEW c, NEW f \in Nat, NEW n \in Nat
    PROVE  /\ Append(Bus!Bytes(c, f, n), c[(f + n) % REGISTERS]) = Bus!Bytes(c, f, n + 1)
           /\ Bus!Bytes(c, f, 0) = <<>>
<1> DEFINE e(k) == c[(f + k - 1) % REGISTERS]
           S == {e(k) : k \in 1 .. n + 1}
           b == [k \in 1 .. n |-> e(k)]
           d == [k \in 1 .. n + 1 |-> e(k)]
<1>1. e(n + 1) = c[(f + n) % REGISTERS]
  <2>1. f + (n + 1) - 1 = f + n
    OBVIOUS
  <2> QED
    BY <2>1
<1>2. Append(b, e(n + 1)) = d
  <2> HIDE DEF e
  <2>1. b \in Seq(S) /\ e(n + 1) \in S /\ Len(b) = n
    OBVIOUS
  <2> DEFINE last == e(n + 1)
  <2> HIDE DEF S
  <2>2. /\ Append(b, last) \in Seq(S) /\ Len(Append(b, last)) = n + 1
        /\ \A k \in 1 .. n : Append(b, last)[k] = b[k]
        /\ Append(b, last)[n + 1] = last
    BY <2>1
  <2>3. d \in Seq(S) /\ Len(d) = n + 1
    BY DEF S
  <2>4. \A k \in 1 .. n + 1 : Append(b, last)[k] = d[k]
    BY <2>2
  <2> QED
    BY <2>2, <2>3, <2>4, SeqEqual
<1>3. [k \in 1 .. 0 |-> e(k)] = <<>>
  OBVIOUS
<1> QED
  BY <1>1, <1>2, <1>3 DEF Bus!Bytes

\* The flags tell what has happened.
LEMMA FlagFacts ==
    ASSUME flags \in Raised
    PROVE  /\ flags \cap {"WIF", "RIF"} # {} <=> flags # {}
           /\ "ARBLOST" \in flags <=> flags = {"WIF", "ARBLOST"}
           /\ flags \cap {"BUSERR", "RXACK"} # {} <=> flags \in {{"WIF", "RXACK"}, {"WIF", "BUSERR"}}
           /\ {"WIF"} # {"RIF"} /\ {"WIF"} # {} /\ {"RIF"} # {}
           /\ {"WIF", "RXACK"} \notin {{"WIF"}, {"RIF"}, {}}
           /\ {"WIF", "BUSERR"} \notin {{"WIF"}, {"RIF"}, {}}
           /\ {"WIF", "ARBLOST"} \notin {{"WIF"}, {"RIF"}, {}}
BY DEF Raised

\* What the handler does, flag by flag.
LEMMA HandlerCases ==
    ASSUME TwiType, twim_interrupt_handler
    PROVE  /\ flags # {} /\ flags' = {}
           /\ UNCHANGED <<twiPc, package, result, bus, registers, pointer, stored>>
           /\ \/ flags = {"WIF"} /\ twim_write_handler(package[1])
              \/ flags = {"RIF"} /\ twim_read_handler(package[1])
              \/ \E e \in {"ERR_BUSY", "ERR_IO_ERROR"} : EndTransfer(e)
<1>1. flags \in Raised
  BY DEF TwiType
<1>2. CASE flags = {"WIF", "ARBLOST"}
  BY <1>1, <1>2, FlagFacts DEF twim_interrupt_handler, chipVars
<1>3. CASE flags \in {{"WIF", "RXACK"}, {"WIF", "BUSERR"}}
  <2>1. "ARBLOST" \notin flags
    BY <1>3
  <2> QED
    BY <1>1, <1>3, <2>1, FlagFacts DEF twim_interrupt_handler, chipVars
<1>4. CASE flags = {"WIF"}
  <2>1. "ARBLOST" \notin flags /\ flags \cap {"BUSERR", "RXACK"} = {} /\ flags # {"RIF"}
    BY <1>4
  <2> QED
    BY <1>1, <1>4, <2>1, FlagFacts DEF twim_interrupt_handler, chipVars
<1>5. CASE flags = {"RIF"}
  <2>1. "ARBLOST" \notin flags /\ flags \cap {"BUSERR", "RXACK"} = {} /\ flags # {"WIF"}
    BY <1>5
  <2> QED
    BY <1>1, <1>5, <2>1, FlagFacts DEF twim_interrupt_handler, chipVars
<1>6. flags # {}
  BY <1>1, FlagFacts DEF twim_interrupt_handler
<1> QED
  BY <1>1, <1>2, <1>3, <1>4, <1>5, <1>6 DEF Raised

\* twim_interrupt_handler keeps the invariant.
LEMMA HandlerKeeps ==
    ASSUME TwiAssumption, TwiInv, twim_interrupt_handler
    PROVE  TwiInv'
<1> USE DEF TwiInv
<1>1. TwiType /\ BusyInv
  OBVIOUS
<1> PICK p : p = package[1]
  OBVIOUS
<1>2. /\ transfer.status = "OPERATION_IN_PROGRESS" /\ wire = "none" /\ twiPc = "status"
      /\ package # <<>> /\ p \in Packages
  BY <1>1, HandlerCases DEF TwiType, BusyInv
<1>3. p.read \in BOOLEAN /\ p.register \in Nat /\ p.length \in Nat /\ (p.read => p.length > 0)
  BY <1>2 DEF TwiAssumption
<1>4. Sending(p) /\ Receiving(p) /\ Gathered(p)
  BY <1>2
<1>5. /\ flags # {} /\ flags' = {}
      /\ UNCHANGED <<twiPc, package, result, bus, registers, pointer, stored>>
  BY <1>1, HandlerCases
<1>6. SUFFICES TwiType' /\ BusyInv' /\ Sending(p)' /\ Receiving(p)' /\ Gathered(p)'
  BY <1>2, <1>5
<1>7. {} # {"WIF"} /\ {} # {"RIF"} /\ {} \in Raised
  BY DEF Raised
<1>8. CASE \E e \in {"ERR_BUSY", "ERR_IO_ERROR"} : EndTransfer(e)
  <2>1. PICK e \in {"ERR_BUSY", "ERR_IO_ERROR"} : EndTransfer(e)
    BY <1>8
  <2>2. /\ wire' \in {"stop", "none"} /\ twiBuffer' = twiBuffer
        /\ transfer' \in [locked : BOOLEAN, status : Status, addr_count : Nat, data_count : Nat]
        /\ transfer'.status = e /\ transfer'.data_count = transfer.data_count
    BY <1>1, <2>1 DEF EndTransfer, TwiType, Status
  <2>3. TwiType' /\ BusyInv'
    BY <1>1, <1>2, <1>5, <1>7, <2>1, <2>2 DEF TwiType, BusyInv
  <2>4. Sending(p)' /\ Receiving(p)'
    BY <1>5, <1>7, <2>2 DEF Sending, Receiving
  <2>5. Gathered(p)'
    BY <1>4, <1>5, <2>1, <2>2 DEF Gathered
  <2> QED
    BY <2>3, <2>4, <2>5
<1>9. CASE flags = {"WIF"} /\ twim_write_handler(p)
  <2>1. CASE transfer.addr_count < AddressLength(p)
    <3>1. /\ wire' = "byte" /\ twiBuffer' = twiBuffer
          /\ sent' = (IF transfer.addr_count = 0 THEN p.register ELSE p.value)
          /\ transfer' \in [locked : BOOLEAN, status : Status, addr_count : Nat, data_count : Nat]
          /\ transfer'.status = transfer.status /\ transfer'.data_count = transfer.data_count
          /\ transfer'.addr_count = transfer.addr_count + 1
      BY <1>1, <1>9, <2>1 DEF twim_write_handler, TwiType, AddressByte
    <3>2. TwiType' /\ BusyInv'
      BY <1>1, <1>2, <1>5, <1>7, <3>1 DEF TwiType, BusyInv
    <3>3. Sending(p)'
      BY <1>3, <1>4, <1>5, <1>7, <1>9, <2>1, <3>1 DEF Sending, AddressLength, Untold, Told
    <3>4. Receiving(p)' /\ Gathered(p)'
      BY <1>4, <1>5, <1>7, <3>1 DEF Receiving, Gathered
    <3> QED
      BY <3>2, <3>3, <3>4
  <2>2. CASE ~(transfer.addr_count < AddressLength(p)) /\ transfer.data_count < Length(p)
    <3>1. p.read = TRUE /\ transfer.data_count = 0 /\ transfer.addr_count \in Nat
      BY <1>1, <1>3, <1>4, <1>9, <2>2 DEF Sending, Length, TwiType
    <3>2. Told(p)
      BY <1>3, <1>4, <1>9, <2>2, <3>1 DEF Sending, AddressLength, Untold
    <3>3. wire' = "turn" /\ UNCHANGED <<transfer, twiBuffer, sent>>
      BY <1>9, <2>2 DEF twim_write_handler
    <3>4. Place(p, 0) = p.register
      <4>1. p.register \in 0 .. REGISTERS - 1 /\ REGISTERS \in Nat \ {0} /\ p.register + 0 = p.register
        BY <1>2 DEF TwiAssumption
      <4>2. p.register \in Nat /\ p.register < REGISTERS
        BY <4>1
      <4>3. p.register % REGISTERS = p.register
        BY <4>2, NextPlace
      <4> QED
        BY <4>1, <4>3 DEF Place
    <3>5. TwiType' /\ BusyInv'
      BY <1>1, <1>2, <1>5, <1>7, <3>3 DEF TwiType, BusyInv
    <3>6. Sending(p)' /\ Gathered(p)'
      BY <1>4, <1>5, <1>7, <3>3 DEF Sending, Gathered
    <3>7. Receiving(p)'
      BY <1>5, <1>7, <3>1, <3>2, <3>3, <3>4 DEF Receiving, Told, Place
    <3> QED
      BY <3>5, <3>6, <3>7
  <2>3. CASE ~(transfer.addr_count < AddressLength(p)) /\ ~(transfer.data_count < Length(p))
    <3>1. transfer.data_count = 0 /\ p.read = FALSE
      BY <1>3, <1>4, <1>9, <2>3 DEF Sending, Length
    <3>2. stored = TRUE
      BY <1>3, <1>4, <1>9, <2>3, <3>1 DEF Sending, AddressLength
    <3>3. EndTransfer("STATUS_OK")
      BY <1>9, <2>3 DEF twim_write_handler
    <3>4. /\ wire' \in {"stop", "none"} /\ twiBuffer' = twiBuffer
          /\ transfer' \in [locked : BOOLEAN, status : Status, addr_count : Nat, data_count : Nat]
          /\ transfer'.status = "STATUS_OK" /\ transfer'.data_count = transfer.data_count
      BY <1>1, <3>3 DEF EndTransfer, TwiType, Status
    <3>5. TwiType' /\ BusyInv'
      BY <1>1, <1>2, <1>5, <1>7, <3>4 DEF TwiType, BusyInv
    <3>6. Sending(p)' /\ Receiving(p)'
      BY <1>5, <1>7, <3>4 DEF Sending, Receiving
    <3>7. Gathered(p)'
      BY <1>4, <1>5, <3>1, <3>2, <3>4 DEF Gathered
    <3> QED
      BY <3>5, <3>6, <3>7
  <2> QED
    BY <2>1, <2>2, <2>3
<1>10. CASE flags = {"RIF"} /\ twim_read_handler(p)
  <2> PICK n : n = transfer.data_count
    OBVIOUS
  <2>1. /\ n \in Nat /\ p.read = TRUE /\ n < p.length /\ Length(p) = p.length
        /\ pointer = Place(p, n + 1) /\ stored = FALSE
        /\ twiBuffer = Bus!Bytes(registers, p.register, n)
    BY <1>1, <1>2, <1>4, <1>10 DEF Receiving, Gathered, TwiType, Length
  <2>2. Received = registers[Place(p, n)]
    <3>1. p.register + n \in Nat /\ p.register + (n + 1) = p.register + n + 1
      BY <1>3, <2>1
    <3> QED
      BY <2>1, <3>1, NextPlace DEF Received, Place
  <2>3. twiBuffer' = Bus!Bytes(registers, p.register, n + 1)
    <3>1. twiBuffer' = Append(twiBuffer, Received)
      BY <1>10, <2>1 DEF twim_read_handler
    <3> QED
      BY <1>3, <2>1, <2>2, <3>1, OneMore DEF Place
  <2>4. /\ transfer' \in [locked : BOOLEAN, status : Status, addr_count : Nat, data_count : Nat]
        /\ transfer'.data_count = n + 1
        /\ transfer'.status = (IF n + 1 < p.length THEN "OPERATION_IN_PROGRESS" ELSE "STATUS_OK")
        /\ wire' = (IF n + 1 < p.length THEN "receive" ELSE "stop")
    <3>1. More(p) <=> n + 1 < p.length
      BY <2>1 DEF More
    <3> PICK s \in Status : s = IF n + 1 < p.length THEN "OPERATION_IN_PROGRESS" ELSE "STATUS_OK"
      BY DEF Status
    <3>2. transfer' = [transfer EXCEPT !.data_count = n + 1, !.status = s]
      BY <1>2, <1>10, <2>1, <3>1 DEF twim_read_handler
    <3>3. wire' = IF n + 1 < p.length THEN "receive" ELSE "stop"
      BY <1>10, <2>1, <3>1 DEF twim_read_handler
    <3>4. /\ transfer' \in [locked : BOOLEAN, status : Status, addr_count : Nat, data_count : Nat]
          /\ transfer'.data_count = n + 1 /\ transfer'.status = s
      <4>1. transfer \in [locked : BOOLEAN, status : Status, addr_count : Nat, data_count : Nat]
        BY <1>1 DEF TwiType
      <4>2. n + 1 \in Nat
        BY <2>1
      <4> QED
        BY <3>2, <4>1, <4>2
    <3> QED
      BY <3>3, <3>4
  <2>5. TwiType' /\ BusyInv'
    BY <1>1, <1>2, <1>5, <1>7, <2>1, <2>4 DEF TwiType, BusyInv
  <2>6. Sending(p)'
    BY <1>5, <1>7, <2>4 DEF Sending
  <2>7. Receiving(p)'
    <3>1. pointer' = Place(p, transfer'.data_count)
      BY <1>5, <2>1, <2>4
    <3> QED
      BY <1>5, <1>7, <2>1, <3>1 DEF Receiving, Place
  <2>8. Gathered(p)'
    BY <1>3, <1>5, <2>1, <2>3, <2>4 DEF Gathered
  <2> QED
    BY <2>5, <2>6, <2>7, <2>8
<1> QED
  BY <1>1, <1>8, <1>9, <1>10, HandlerCases

\* So does the chip when a byte has gone over the bus.
LEMMA AcknowledgeKeeps ==
    ASSUME TwiAssumption, TwiInv, Acknowledge
    PROVE  TwiInv'
<1> USE DEF TwiInv
<1>1. TwiType /\ BusyInv
  OBVIOUS
<1> PICK p : p = package[1]
  OBVIOUS
<1>2. /\ transfer.status = "OPERATION_IN_PROGRESS" /\ flags = {} /\ package # <<>> /\ p \in Packages
      /\ wire \in {"address", "byte", "turn", "receive"}
  BY <1>1 DEF TwiType, BusyInv, Acknowledge
<1>3. p.read \in BOOLEAN /\ p.register \in Nat /\ p.length \in Nat
  BY <1>2 DEF TwiAssumption
<1>4. Sending(p) /\ Receiving(p) /\ Gathered(p)
  BY <1>2
<1>5. /\ flags' = (IF wire \in {"address", "byte"} THEN {"WIF"} ELSE {"RIF"})
      /\ wire' = "none" /\ UNCHANGED <<twiPc, package, transfer, twiBuffer, result, bus, sent>>
  BY DEF Acknowledge, driver
<1>6. SUFFICES TwiType' /\ BusyInv' /\ Sending(p)' /\ Receiving(p)' /\ Gathered(p)'
  BY <1>2, <1>5
<1>7. {"WIF"} # {"RIF"} /\ {"WIF"} \in Raised /\ {"RIF"} \in Raised
  BY DEF Raised
<1>8. BusyInv'
  BY <1>1, <1>2, <1>5 DEF BusyInv
<1>9. stored' \in BOOLEAN => TwiType'
  BY <1>1, <1>2, <1>5, <1>7 DEF TwiType
<1>10. stored \in BOOLEAN
  BY <1>1 DEF TwiType
<1>11. CASE wire = "address"
  <2>1. UNCHANGED <<registers, pointer, stored>>
    BY <1>11 DEF Acknowledge, chipVars
  <2>2. Sending(p)' /\ Receiving(p)'
    BY <1>4, <1>5, <1>7, <1>11, <2>1 DEF Sending, Receiving, Untold
  <2>3. Gathered(p)'
    BY <1>4, <1>5, <2>1 DEF Gathered
  <2> QED
    BY <1>8, <1>9, <1>10, <2>1, <2>2, <2>3
<1>12. CASE wire = "byte" /\ pointer = -1
  <2>1. pointer' = sent /\ UNCHANGED <<registers, stored>>
    BY <1>12 DEF Acknowledge
  <2>2. transfer.addr_count = 1 /\ transfer.data_count = 0 /\ stored = FALSE /\ sent = p.register
    BY <1>3, <1>4, <1>12 DEF Sending, Untold, Told
  <2>3. Sending(p)' /\ Receiving(p)'
    BY <1>5, <1>7, <1>12, <2>1, <2>2 DEF Sending, Receiving, Told
  <2>4. Gathered(p)'
    BY <1>4, <1>5, <2>1 DEF Gathered
  <2> QED
    BY <1>8, <1>9, <1>10, <2>1, <2>3, <2>4
<1>13. CASE wire = "byte" /\ pointer # -1
  <2>1. stored' = TRUE
    BY <1>13 DEF Acknowledge
  <2>2. transfer.addr_count = 2 /\ transfer.data_count = 0 /\ p.read = FALSE
    BY <1>4, <1>13 DEF Sending, Untold
  <2>3. Sending(p)' /\ Receiving(p)'
    BY <1>5, <1>7, <1>13, <2>1, <2>2 DEF Sending, Receiving
  <2>4. Gathered(p)'
    BY <1>4, <1>5, <2>1, <2>2 DEF Gathered
  <2> QED
    BY <1>8, <1>9, <2>1, <2>3, <2>4
<1>14. CASE wire \in {"turn", "receive"}
  <2> PICK n : n = transfer.data_count
    OBVIOUS
  <2>1. pointer' = (pointer + 1) % REGISTERS /\ UNCHANGED <<registers, stored>>
    BY <1>14 DEF Acknowledge
  <2>2. n \in Nat /\ p.read = TRUE /\ pointer = Place(p, n)
    BY <1>1, <1>4, <1>14 DEF Receiving, TwiType
  <2>3. pointer' = Place(p, n + 1)
    <3>1. p.register + n \in Nat /\ p.register + (n + 1) = p.register + n + 1
      BY <1>3, <2>2
    <3> QED
      BY <2>1, <2>2, <3>1, NextPlace DEF Place
  <2>4. Sending(p)'
    BY <1>5, <1>7, <1>14 DEF Sending
  <2>5. Receiving(p)'
    BY <1>5, <1>7, <1>14, <2>2, <2>3 DEF Receiving, Place
  <2>6. Gathered(p)'
    BY <1>4, <1>5, <2>1 DEF Gathered
  <2> QED
    BY <1>8, <1>9, <1>10, <2>1, <2>4, <2>5, <2>6
<1> QED
  BY <1>2, <1>11, <1>12, <1>13, <1>14

\* The invariant is kept, one step per action.
LEMMA TwiStep ==
    ASSUME TwiAssumption, TwiInv, [TwiNext]_twiVars
    PROVE  TwiInv'
<1> USE DEF TwiInv
<1>1. TwiType /\ BusyInv
  OBVIOUS
<1>2. {} # {"WIF"} /\ {} # {"RIF"} /\ {} \in Raised
  BY DEF Raised
<1>3. CASE StartTransfer
  <2>1. PICK p \in Packages : package' = <<p>>
    BY <1>3 DEF StartTransfer
  <2>2. /\ package' # <<>> /\ package'[1] = p
        /\ transfer'.status = "OPERATION_IN_PROGRESS" /\ transfer'.data_count = 0
        /\ transfer'.addr_count = 0 /\ twiBuffer' = <<>> /\ twiPc' = "status" /\ wire' = "address"
        /\ stored' = FALSE /\ pointer' = -1 /\ flags' = flags
        /\ transfer' \in [locked : BOOLEAN, status : Status, addr_count : Nat, data_count : Nat]
    BY <1>3, <2>1 DEF StartTransfer, Acquired, Status
  <2>3. flags = {}
    BY <1>1, <1>3 DEF BusyInv, StartTransfer
  <2>4. TwiType' /\ BusyInv'
    BY <1>1, <1>2, <2>2, <2>3 DEF TwiType, BusyInv
  <2>5. Sending(p)' /\ Receiving(p)'
    BY <1>2, <2>2, <2>3 DEF Sending, Receiving, Untold
  <2>6. Gathered(p)'
    <3>1. p.register \in Nat /\ (p.read => p.length > 0) /\ 0 \in Nat
      BY DEF TwiAssumption
    <3>2. Bus!Bytes(registers', p.register, 0) = <<>>
      BY <3>1, OneMore
    <3> QED
      BY <2>2, <3>1, <3>2 DEF Gathered, Bus!Bytes
  <2> QED
    BY <2>2, <2>4, <2>5, <2>6
<1>4. CASE SeeStatus
  BY <1>1, <1>4 DEF SeeStatus, TwiType, BusyInv, Sending, Receiving, Gathered, Untold, Told,
     twiHardware, chipVars, Bus!Bytes
<1>5. CASE Release
  <2>1. /\ package' = <<>> /\ twiPc' = "idle" /\ transfer' = NoTransfer /\ stored' = FALSE
        /\ UNCHANGED <<wire, flags>>
    BY <1>5 DEF Release, twiHardware
  <2>2. wire \in {"none", "stop"} /\ flags = {}
    BY <1>1, <1>5 DEF Release, BusyInv
  <2>3. /\ transfer'.status = "STATUS_OK"
        /\ transfer' \in [locked : BOOLEAN, status : Status, addr_count : Nat, data_count : Nat]
    BY <2>1 DEF NoTransfer, Status
  <2> QED
    BY <1>1, <1>2, <2>1, <2>2, <2>3 DEF TwiType, BusyInv
<1>6. CASE twim_interrupt_handler
  BY <1>6, HandlerKeeps
<1>7. CASE Acknowledge
  BY <1>7, AcknowledgeKeeps
<1>8. CASE Refuse \/ BusError \/ LoseArbitration
  <2>1. /\ flags' \in {{"WIF", "RXACK"}, {"WIF", "BUSERR"}, {"WIF", "ARBLOST"}}
        /\ wire \in {"address", "byte", "turn", "receive"} /\ wire' = "none"
        /\ UNCHANGED <<twiPc, package, transfer, twiBuffer, result, sent, registers, pointer, stored>>
    BY <1>8 DEF Refuse, BusError, LoseArbitration, driver, chipVars
  <2>2. flags' \in Raised /\ flags' # {"WIF"} /\ flags' # {"RIF"}
    <3>1. flags \in Raised
      BY <1>1 DEF TwiType
    <3>2. \A f \in {{"WIF", "RXACK"}, {"WIF", "BUSERR"}, {"WIF", "ARBLOST"}} : f # {"WIF"} /\ f # {"RIF"}
      BY <3>1, FlagFacts
    <3> QED
      BY <2>1, <3>2 DEF Raised
  <2>3. transfer.status = "OPERATION_IN_PROGRESS"
    BY <1>1, <2>1 DEF BusyInv
  <2>4. TwiType' /\ BusyInv'
    BY <1>1, <2>1, <2>2, <2>3 DEF TwiType, BusyInv
  <2>5. ASSUME package # <<>>
        PROVE  Sending(package[1])' /\ Receiving(package[1])' /\ Gathered(package[1])'
    <3>1. Sending(package[1])' /\ Receiving(package[1])'
      BY <2>1, <2>2 DEF Sending, Receiving
    <3>2. Gathered(package[1])'
      BY <2>1, <2>5 DEF Gathered, Bus!Bytes
    <3> QED
      BY <3>1, <3>2
  <2> QED
    BY <2>1, <2>4, <2>5
<1>9. CASE Stopped \/ Freed
  <2>1. /\ flags' = flags /\ (wire' = "none" \/ wire' = wire)
        /\ UNCHANGED <<twiPc, package, transfer, twiBuffer, result, sent, registers, pointer, stored>>
    BY <1>9 DEF Stopped, Freed, driver, chipVars
  <2>2. TwiType' /\ BusyInv'
    BY <1>1, <2>1 DEF TwiType, BusyInv
  <2>3. ASSUME package # <<>>
        PROVE  Sending(package[1])' /\ Receiving(package[1])' /\ Gathered(package[1])'
    <3>1. Sending(package[1])' /\ Receiving(package[1])'
      BY <2>1, <2>3 DEF Sending, Receiving, Untold, Told, Place
    <3>2. Gathered(package[1])'
      BY <2>1, <2>3 DEF Gathered, Bus!Bytes
    <3> QED
      BY <3>1, <3>2
  <2> QED
    BY <2>1, <2>2, <2>3
<1>10. CASE UNCHANGED twiVars
  <2>1. UNCHANGED <<twiPc, package, transfer, twiBuffer, flags, wire, sent, registers, pointer, stored>>
    BY <1>10 DEF twiVars, driver, twiHardware, chipVars
  <2>2. TwiType' /\ BusyInv'
    BY <1>1, <2>1 DEF TwiType, BusyInv
  <2>3. ASSUME package # <<>>
        PROVE  Sending(package[1])' /\ Receiving(package[1])' /\ Gathered(package[1])'
    <3>1. Sending(package[1])' /\ Receiving(package[1])'
      BY <2>1, <2>3 DEF Sending, Receiving, Untold, Told, Place
    <3>2. Gathered(package[1])'
      BY <2>1, <2>3 DEF Gathered, Bus!Bytes
    <3> QED
      BY <3>1, <3>2
  <2> QED
    BY <2>1, <2>2, <2>3
<1> QED
  BY <1>3, <1>4, <1>5, <1>6, <1>7, <1>8, <1>9, <1>10 DEF TwiNext

\* Each step is a step of RegisterBus or none.
LEMMA TwiImplements ==
    ASSUME TwiAssumption, TwiInv, TwiInv', [TwiNext]_twiVars
    PROVE  [Bus!BusNext]_(<<registers, package,
                            (/\ package # <<>>
                             /\ \/ stored
                                \/ package[1].read /\ transfer.data_count = package[1].length),
                            result>>)
<1> DEFINE done == /\ package # <<>>
                   /\ \/ stored
                      \/ package[1].read /\ transfer.data_count = package[1].length
<1>1. TwiType /\ BusyInv
  BY DEF TwiInv
<1>2. ASSUME package # <<>>
      PROVE  /\ package[1] \in Packages /\ package[1].read \in BOOLEAN /\ stored \in BOOLEAN
             /\ Sending(package[1]) /\ Receiving(package[1]) /\ Gathered(package[1])
  BY <1>1, <1>2 DEF TwiInv, TwiType, TwiAssumption
<1>3. CASE StartTransfer
  <2>1. PICK p \in Packages : package' = <<p>>
    BY <1>3 DEF StartTransfer
  <2>2. package = <<>>
    BY <1>1, <1>3 DEF TwiType, StartTransfer
  <2>3. /\ transfer'.data_count = 0 /\ stored' = FALSE /\ package'[1] = p /\ package' # <<>>
        /\ registers' = registers /\ result' = result
    BY <1>3, <2>1 DEF StartTransfer, Acquired
  <2>4. ~(p.read /\ 0 = p.length)
    BY DEF TwiAssumption
  <2>5. done = FALSE /\ done' = FALSE
    BY <2>2, <2>3, <2>4
  <2>6. Bus!Call
    BY <2>1, <2>2, <2>3, <2>5 DEF Bus!Call
  <2> QED
    BY <2>6 DEF Bus!BusNext
<1>4. CASE SeeStatus \/ Refuse \/ BusError \/ LoseArbitration \/ Stopped \/ Freed \/ UNCHANGED twiVars
  <2>1. UNCHANGED <<package, transfer, result, registers, stored>>
    <3>1. CASE SeeStatus
      BY <3>1 DEF SeeStatus, chipVars
    <3>2. CASE Refuse \/ BusError \/ LoseArbitration \/ Stopped \/ Freed
      BY <3>2 DEF Refuse, BusError, LoseArbitration, Stopped, Freed, driver, chipVars
    <3>3. CASE UNCHANGED twiVars
      BY <3>3 DEF twiVars, driver, chipVars
    <3> QED
      BY <1>4, <3>1, <3>2, <3>3
  <2> QED
    BY <2>1
<1>5. CASE Release
  <2>1. package # <<>>
    BY <1>1, <1>5 DEF TwiType, Release
  <2> PICK p : p = package[1]
    OBVIOUS
  <2>2. p \in Packages /\ p.read \in BOOLEAN /\ stored \in BOOLEAN /\ Gathered(p)
    BY <1>2, <2>1
  <2>3. package' = <<>> /\ registers' = registers /\ done' = FALSE
    BY <1>5 DEF Release
  <2>4. CASE transfer.status = "STATUS_OK"
    <3>1. result' = [ok |-> TRUE, bytes |-> twiBuffer]
      BY <1>5, <2>4 DEF Release
    <3>2. done = TRUE
      BY <2>1, <2>2, <2>4 DEF Gathered
    <3>3. twiBuffer = IF p.read THEN Bus!Bytes(registers, p.register, p.length) ELSE <<>>
      BY <2>2, <2>4 DEF Gathered
    <3>4. Bus!Return
      BY <2>1, <2>3, <3>1, <3>2, <3>3 DEF Bus!Return
    <3> QED
      BY <3>4 DEF Bus!BusNext
  <2>5. CASE transfer.status # "STATUS_OK"
    <3>1. result' = [ok |-> FALSE, bytes |-> <<>>]
      BY <1>5, <2>5 DEF Release
    <3>2. Bus!Return
      BY <2>1, <2>3, <3>1 DEF Bus!Return
    <3> QED
      BY <3>2 DEF Bus!BusNext
  <2> QED
    BY <2>4, <2>5
<1>6. CASE twim_interrupt_handler
  <2>1. package # <<>>
    BY <1>1, <1>6, HandlerCases DEF TwiType, BusyInv
  <2> PICK p : p = package[1]
    OBVIOUS
  <2>2. p.read \in BOOLEAN /\ stored \in BOOLEAN /\ Gathered(p) /\ Receiving(p)
    BY <1>2, <2>1
  <2>3. UNCHANGED <<package, result, registers, stored>>
    BY <1>1, <1>6, HandlerCases
  <2>4. CASE transfer'.data_count = transfer.data_count
    BY <2>3, <2>4
  <2>5. CASE flags = {"RIF"} /\ twim_read_handler(p)
    <3>1. p.read = TRUE /\ transfer.status = "OPERATION_IN_PROGRESS" /\ stored = FALSE
      BY <1>1, <1>6, <2>2, <2>5, HandlerCases DEF Receiving, Gathered, BusyInv
    <3>2. transfer.data_count < p.length
      BY <2>2, <3>1 DEF Gathered
    <3>3. p.length \in Nat /\ transfer.data_count \in Nat
      BY <1>1, <1>2, <2>1 DEF TwiType, TwiAssumption
    <3>4. done = FALSE
      BY <3>1, <3>2, <3>3
    <3>5. CASE done' = TRUE
      <4>1. Bus!Serve
        BY <2>1, <2>3, <3>1, <3>4, <3>5 DEF Bus!Serve
      <4> QED
        BY <4>1 DEF Bus!BusNext
    <3>6. CASE done' = FALSE
      BY <2>3, <3>4, <3>6
    <3> QED
      BY <3>5, <3>6
  <2>6. CASE flags = {"WIF"} /\ twim_write_handler(p)
    BY <1>1, <2>4, <2>6 DEF twim_write_handler, EndTransfer, TwiType
  <2>7. CASE \E e \in {"ERR_BUSY", "ERR_IO_ERROR"} : EndTransfer(e)
    BY <1>1, <2>4, <2>7 DEF EndTransfer, TwiType
  <2> QED
    BY <1>1, <1>6, <2>5, <2>6, <2>7, HandlerCases
<1>7. CASE Acknowledge
  <2>1. package # <<>>
    BY <1>1, <1>7 DEF TwiType, BusyInv, Acknowledge
  <2> PICK p : p = package[1]
    OBVIOUS
  <2>2. p.read \in BOOLEAN /\ stored \in BOOLEAN /\ Gathered(p) /\ Sending(p)
    BY <1>2, <2>1
  <2>3. UNCHANGED <<package, transfer, result>>
    BY <1>7 DEF Acknowledge, driver
  <2>4. CASE UNCHANGED <<registers, stored>>
    BY <2>3, <2>4
  <2>5. CASE wire = "byte" /\ pointer # -1
    <3>1. p.read = FALSE /\ stored = FALSE /\ pointer = p.register /\ sent = p.value
      BY <2>2, <2>5 DEF Sending, Untold, Told
    <3>2. stored' = TRUE /\ registers' = [registers EXCEPT ![p.register] = p.value]
      BY <1>7, <2>5, <3>1 DEF Acknowledge
    <3>3. done = FALSE /\ done' = TRUE
      BY <2>1, <2>3, <3>1, <3>2
    <3>4. Bus!Serve
      BY <2>1, <2>3, <3>1, <3>2, <3>3 DEF Bus!Serve
    <3> QED
      BY <3>4 DEF Bus!BusNext
  <2> QED
    BY <1>7, <2>4, <2>5 DEF Acknowledge, chipVars
<1> QED
  BY <1>3, <1>4, <1>5, <1>6, <1>7 DEF TwiNext

\* The invariant holds.
LEMMA TwiInvariance ==
    ASSUME TwiAssumption
    PROVE  TwiSpec => []TwiInv
<1>1. TwiInit => TwiInv
  <2> SUFFICES ASSUME TwiInit PROVE TwiInv
    OBVIOUS
  <2>1. transfer \in [locked : BOOLEAN, status : Status, addr_count : Nat, data_count : Nat]
    <3>1. 0 \in Nat
      OBVIOUS
    <3> QED
      BY <3>1 DEF TwiInit, NoTransfer, Status
  <2>2. transfer.status = "STATUS_OK" /\ flags \in Raised
    BY DEF TwiInit, NoTransfer, Raised
  <2> QED
    BY <2>1, <2>2 DEF TwiInit, TwiInv, TwiType, BusyInv
<1>2. TwiInv /\ [TwiNext]_twiVars => TwiInv'
  BY TwiStep
<1> QED
  BY <1>1, <1>2, PTL DEF TwiSpec

\* For every chip, every package and every fault of the bus: the interrupt handler
\* and the caller that spins implement RegisterBus (twi_master_transfer,
\* twim_interrupt_handler).
THEOREM TwiServes ==
    ASSUME TwiAssumption
    PROVE  TwiSpec => Served
<1>1. TwiInit => Bus!BusInit
  BY DEF TwiInit, Bus!BusInit
<1>2. TwiInv /\ TwiInv' /\ [TwiNext]_twiVars =>
        [Bus!BusNext]_(<<registers, package,
                         (/\ package # <<>>
                          /\ \/ stored
                             \/ package[1].read /\ transfer.data_count = package[1].length),
                         result>>)
  BY TwiImplements
<1> QED
  BY <1>1, <1>2, TwiInvariance, PTL DEF TwiSpec, Served, Bus!BusSpec

-----------------------------------------------------------------------------
(* The installation of firmware.                                           *)

Written == {"clear", "convert", "settings", "cleared", "version", "crc", "collect", "done"}

\* The inductive invariant: the chip has the ROM once it was verified, the
\* recorded version and CRC agree until the version is written if nothing was cut
\* off, and a chip that has the firmware of the CRC, after one cut, that of the
\* version too.
InstallInv ==
    /\ stage \in {"idle", "erase", "write", "verify"} \cup Written
    /\ cuts \in Nat
    /\ stage \in Written => chip = rom
    /\ stage = "settings" => ToOther /\ copy.zValid
    /\ stage = "cleared" => ToM3D
    /\ cuts = 0 /\ stage \notin {"crc", "collect", "done"} => version = crc
    /\ stage \in {"crc", "collect", "done"} => version = rom
    /\ stage \in {"collect", "done"} => crc = rom
    /\ cuts <= 1 /\ stage = "verify" => chip = rom \/ version = crc
    /\ cuts <= 1 /\ stage = "idle" /\ chip = crc => chip = version
    /\ stage \in {"version", "crc", "collect", "done"} /\ ToOther /\ copy.zValid => settings = "good"

LEMMA InstallInvariance ==
    ASSUME RomsAssumption
    PROVE  InstallSpec => []InstallInv
<1>1. InstallInit => InstallInv
  BY DEF InstallInit, InstallInv, Written
<1>2. InstallInv /\ [InstallNext]_installVars => InstallInv'
  <2> SUFFICES ASSUME InstallInv, [InstallNext]_installVars PROVE InstallInv'
    OBVIOUS
  <2> USE DEF InstallInv, Written, ToOther, ToM3D, flash, record, height
  <2>1. ASSUME NEW r \in ROMS, Start(r) PROVE InstallInv'
    BY <2>1 DEF Start
  <2>2. CASE Erase
    BY <2>2 DEF Erase, GoOn
  <2>3. CASE WritePage
    BY <2>3 DEF WritePage, GoOn
  <2>4. CASE WriteWrong
    BY <2>4 DEF WriteWrong, Cut
  <2>5. CASE Verify
    BY <2>5 DEF Verify, GoOn
  <2>6. CASE ClearZ
    BY <2>6 DEF ClearZ, GoOn
  <2>7. CASE ConvertToFloat
    BY <2>7 DEF ConvertToFloat, GoOn
  <2>8. CASE SaveDefaults
    BY <2>8 DEF SaveDefaults, GoOn
  <2>9. CASE ConvertToInt
    BY <2>9 DEF ConvertToInt, GoOn
  <2>10. CASE ClearSettings
    BY <2>10, RomsAssumption DEF ClearSettings, GoOn, RomsAssumption
  <2>11. CASE KeepForm
    BY <2>11 DEF KeepForm, GoOn
  <2>12. CASE WriteVersion
    BY <2>12 DEF WriteVersion, GoOn
  <2>13. CASE WriteCrc
    BY <2>13 DEF WriteCrc, GoOn
  <2>14. CASE Collect
    BY <2>14 DEF Collect, KeptSettings
  <2>15. CASE Finish
    BY <2>15 DEF Finish, GoOn
  <2>16. CASE CutOff
    BY <2>16 DEF CutOff, Cut
  <2>17. CASE Reconnect
    BY <2>17 DEF Reconnect
  <2>18. CASE RunFirmware
    BY <2>18 DEF RunFirmware
  <2>19. CASE UNCHANGED installVars
    BY <2>19 DEF installVars
  <2> QED
    BY <2>1, <2>2, <2>3, <2>4, <2>5, <2>6, <2>7, <2>8, <2>9, <2>10, <2>11, <2>12, <2>13, <2>14,
       <2>15, <2>16, <2>17, <2>18, <2>19 DEF InstallNext, Step
<1> QED
  BY <1>1, <1>2, PTL DEF InstallSpec

\* Whatever is installed, in whichever order and wherever installations are cut
\* off, firmware that is shown as valid has the version that is shown, unless
\* two were cut off since one was finished, and iMe over M3D firmware finds its
\* defaults.
THEOREM InstallCorrect ==
    ASSUME RomsAssumption
    PROVE  InstallSpec => []ValidMeansRecordedVersion
<1>1. InstallInv => ValidMeansRecordedVersion
  <2> SUFFICES ASSUME InstallInv PROVE ValidMeansRecordedVersion
    OBVIOUS
  <2>1. VersionShown
    <3> SUFFICES ASSUME shown.valid, stage \in {"idle", "done"}, shown = Found, cuts <= 1
                 PROVE  chip = shown.version
      BY DEF VersionShown
    <3>1. chip = crc /\ shown.version = version
      BY DEF Found
    <3> QED
      BY <3>1 DEF InstallInv, Written
  <2>2. DefaultsSaved
    BY DEF DefaultsSaved, InstallInv, Written, ToOther
  <2> QED
    BY <2>1, <2>2 DEF ValidMeansRecordedVersion
<1> QED
  BY <1>1, InstallInvariance, PTL

-----------------------------------------------------------------------------
(* The printer's information.                                              *)

InformationType ==
    /\ memory \in [Settings -> FloatValues] /\ \A i \in Settings : memory[i] \in FieldValues(i)
    /\ eeprom \in [memory : [Settings -> FloatValues], fan : Fans, current : BOOLEAN]
    /\ \A i \in Settings : eeprom.memory[i] \in FieldValues(i)
    /\ fan \in Fans /\ current \in BOOLEAN /\ lost \in Nat /\ setting \in Settings
    /\ zeroed \in BOOLEAN
    /\ at # "keep" => setting = 1

\* Until settings are repaired the copy is the EEPROM; then those behind the
\* one being checked are in range and those before it as in the copy, or reset.
SettingsInv ==
    /\ at \in {"scale", "offset", "type", "current", "offsets"} => memory = eeprom.memory
    /\ at = "speed" => \A i \in Settings : memory[i] = eeprom.memory[i] \/ memory[i] = "default"
    /\ at = "keep" => \A i \in Settings :
           IF i < setting THEN Applies(i) => memory[i] \in InRange
                          ELSE memory[i] = eeprom.memory[i] \/ memory[i] = "default"
    /\ at \in {"reread", "accepted"} =>
           \A i \in Settings : Applies(i) => memory[i] \in InRange

\* A corner is 0 in the EEPROM exactly when it is in the copy.
SameCorners ==
    \A i \in Settings : Corner(i) => (memory[i] = "default" <=> eeprom.memory[i] = "default")

\* Unless a corner that is no number was repaired, the repairs so far leave the
\* corners that are 0, and what is said of the orientation is as in the EEPROM.
OrientationInv ==
    ~zeroed =>
        /\ at \in {"scale", "offset", "type", "current", "offsets", "speed", "keep"} => SameCorners
        /\ at \in {"reread", "accepted"} => oriented = Leveled(memory)

\* As long as no answer was lost, a place of setFanType is reached only with
\* what the places before it repair in order, since a repair that succeeds there
\* begins the collection anew.
FanInv ==
    /\ at \in {"scale", "offset", "type", "current"} => current = eeprom.current
    /\ at = "scale" => fan = eeprom.fan
    /\ at \in {"offset", "type"} => fan.scale = TRUE /\ fan.type = eeprom.fan.type
    /\ at = "offset" => fan.offset = eeprom.fan.offset
    /\ at = "type" => fan.offset = TRUE
    /\ at \in {"current", "offsets", "speed", "keep", "reread", "accepted"} => FanRight
    /\ at \in {"offsets", "speed", "keep", "reread", "accepted"} => current = TRUE

InformationInv == InformationType /\ SettingsInv /\ OrientationInv /\ (lost = 0 => FanInv)

LEMMA ElementOf ==
    ASSUME NEW R, NEW s \in Seq(R), NEW i \in 1 .. Len(s)
    PROVE  s[i] \in R
OBVIOUS

\* What eepromKeepFloatWithinRange and eepromKeepIntWithinRange leave is in range.
LEMMA KeptInRange ==
    ASSUME NEW i \in Settings, NEW v \in FieldValues(i), FieldsAssumption
    PROVE  /\ KeepWithinRange(FIELDS[i].kind, v) \in InRange
           /\ KeepWithinRange(FIELDS[i].kind, v) \in FieldValues(i)
<1> PICK R : R = [kind : {"int", "float"}, imeOnly : BOOLEAN,
                  role : {"corner", "offset", "speed", "other"}]
  OBVIOUS
<1>1. FIELDS \in Seq(R) /\ i \in 1 .. Len(FIELDS)
  BY DEF FieldsAssumption, Settings
<1>2. FIELDS[i] \in R
  BY <1>1, ElementOf
<1>3. FIELDS[i].kind \in {"int", "float"}
  BY <1>2
<1> QED
  BY <1>3 DEF KeepWithinRange, FieldValues, InRange, FloatValues, IntValues

LEMMA FirstSetting ==
    ASSUME FieldsAssumption
    PROVE  Len(FIELDS) \in Nat /\ 1 \in Settings /\ Settings = 1 .. Len(FIELDS)
BY DEF FieldsAssumption, Settings

\* A repair of the fan leaves a fan.
LEMMA FanRepaired ==
    ASSUME NEW f \in Fans, NEW type \in {"unset", "known", "custom"}
    PROVE  /\ [f EXCEPT !.scale = TRUE] \in Fans
           /\ [f EXCEPT !.offset = TRUE] \in Fans
           /\ [f EXCEPT !.type = type] \in Fans
BY DEF Fans

\* What a step does to the count of lost answers, the place and the setting.
LEMMA PlaceStep ==
    ASSUME FieldsAssumption, InformationType, [InformationNext]_informationVars
    PROVE  lost' \in Nat /\ setting' \in Settings /\ (at' # "keep" => setting' = 1)
<1>1. lost' \in {lost, lost + 1}
  BY DEF InformationNext, informationVars, Read, SetFanScale, SetFanOffset, SetFanType,
         SetExtruderCurrent, ResetOld, KeepSetting, Reread, Again, Unplugged, Stored, LostAnswer
<1>2. lost' \in Nat
  BY <1>1 DEF InformationType
<1>3. setting' = 1 \/ (at = "keep" /\ at' = at /\ setting # Len(FIELDS) /\ setting' = setting + 1)
                   \/ UNCHANGED <<at, setting>>
  <2> USE DEF Go, Return, InformationType
  <2>1. CASE Read \/ Reread \/ Again \/ Unplugged \/ UNCHANGED informationVars
    BY <2>1 DEF Read, Reread, Again, Unplugged, informationVars
  <2>2. CASE SetFanScale
    BY <2>2 DEF SetFanScale
  <2>3. CASE SetFanOffset
    BY <2>3 DEF SetFanOffset
  <2>4. CASE SetFanType
    BY <2>4 DEF SetFanType
  <2>5. CASE SetExtruderCurrent
    BY <2>5 DEF SetExtruderCurrent
  <2>6. CASE ResetOld
    BY <2>6 DEF ResetOld
  <2>7. CASE KeepSetting
    BY <2>7 DEF KeepSetting, NextSetting
  <2> QED
    BY <2>1, <2>2, <2>3, <2>4, <2>5, <2>6, <2>7 DEF InformationNext
<1>4. setting' \in Settings /\ (at' # "keep" => setting' = 1)
  BY <1>3, FirstSetting DEF InformationType
<1> QED
  BY <1>2, <1>4

LEMMA InformationTypeStep ==
    ASSUME FieldsAssumption, InformationType, [InformationNext]_informationVars
    PROVE  InformationType'
<1>0. lost' \in Nat /\ setting' \in Settings /\ (at' # "keep" => setting' = 1)
  BY PlaceStep
<1>1. FanToSet \in {"unset", "known", "custom"}
  BY DEF FanToSet, Fans, InformationType
<1>2. fan' \in Fans
  <2>1. fan' \in {fan, [fan EXCEPT !.scale = TRUE], [fan EXCEPT !.offset = TRUE],
                  [fan EXCEPT !.type = FanToSet]}
    BY DEF InformationNext, informationVars, Read, SetFanScale, SetFanOffset, SetFanType,
           SetExtruderCurrent, ResetOld, KeepSetting, Reread, Again, Unplugged
  <2> QED
    BY <2>1, <1>1, FanRepaired DEF InformationType
<1>3. current' \in BOOLEAN
  BY DEF InformationNext, informationVars, Read, SetFanScale, SetFanOffset, SetFanType,
         SetExtruderCurrent, ResetOld, KeepSetting, Reread, Again, Unplugged, InformationType
<1>4. memory' \in [Settings -> FloatValues] /\ \A i \in Settings : memory'[i] \in FieldValues(i)
  <2>1. CASE ResetOld
    <3>1. ASSUME NEW role, memory' = Reset(role)
          PROVE  memory' \in [Settings -> FloatValues] /\ \A i \in Settings : memory'[i] \in FieldValues(i)
      BY <3>1 DEF Reset, InformationType, FieldValues, FloatValues, IntValues
    <3>2. ASSUME NEW role, memory' \in HalfReset(role)
          PROVE  memory' \in [Settings -> FloatValues] /\ \A i \in Settings : memory'[i] \in FieldValues(i)
      BY <3>2 DEF HalfReset, InformationType
    <3>3. \/ memory' = memory
          \/ \E role \in {"offset", "speed"} : memory' = Reset(role) \/ memory' \in HalfReset(role)
      BY <2>1 DEF ResetOld
    <3> QED
      BY <3>1, <3>2, <3>3 DEF InformationType
  <2>2. CASE KeepSetting
    <3> PICK kept : kept = KeepWithinRange(FIELDS[setting].kind, eeprom.memory[setting])
      OBVIOUS
    <3>1. kept \in FieldValues(setting)
      BY KeptInRange DEF InformationType
    <3>2. \/ memory' = memory
          \/ memory' = [memory EXCEPT ![setting] = kept]
          \/ \E v \in Torn(setting, kept) : memory' = [memory EXCEPT ![setting] = v]
      BY <2>2 DEF KeepSetting
    <3>3. \A v \in Torn(setting, kept) : v \in FieldValues(setting)
      BY <3>1 DEF Torn, FieldValues, InformationType
    <3>4. memory' = memory \/ \E v \in FieldValues(setting) : memory' = [memory EXCEPT ![setting] = v]
      BY <3>1, <3>2, <3>3
    <3>5. FieldValues(setting) \subseteq FloatValues
      BY DEF FieldValues, IntValues
    <3> QED
      BY <3>4, <3>5 DEF InformationType
  <2>3. CASE ~ResetOld /\ ~KeepSetting
    <3>1. memory' = memory
      BY <2>3 DEF InformationNext, informationVars, Read, SetFanScale, SetFanOffset, SetFanType,
             SetExtruderCurrent, Reread, Again, Unplugged
    <3> QED
      BY <3>1 DEF InformationType
  <2> QED
    BY <2>1, <2>2, <2>3
<1>5. eeprom' = eeprom \/ eeprom' = [memory |-> memory, fan |-> fan, current |-> current]
  BY DEF InformationNext, informationVars, Read, SetFanScale, SetFanOffset, SetFanType,
         SetExtruderCurrent, ResetOld, KeepSetting, Reread, Again, Unplugged
<1>6. /\ eeprom' \in [memory : [Settings -> FloatValues], fan : Fans, current : BOOLEAN]
      /\ \A i \in Settings : eeprom'.memory[i] \in FieldValues(i)
  BY <1>5 DEF InformationType
<1>7. zeroed' \in BOOLEAN
  <2>1. zeroed' = zeroed \/ zeroed' = FALSE \/ zeroed' = (zeroed \/ (Corner(setting) /\ eeprom.memory[setting] = "nan"))
    BY DEF InformationNext, informationVars, Read, SetFanScale, SetFanOffset, SetFanType,
           SetExtruderCurrent, ResetOld, KeepSetting, Reread, Again, Unplugged, orientation
  <2> QED
    BY <2>1 DEF InformationType
<1> QED
  BY <1>0, <1>2, <1>3, <1>4, <1>6, <1>7 DEF InformationType

\* A collection that fails claims nothing of the settings.
LEMMA SettingsReturn ==
    ASSUME at' \in {"start", "failed"}
    PROVE  SettingsInv'
BY DEF SettingsInv

\* After the last setting the ones that apply are all in range.
LEMMA SettingsDone ==
    ASSUME at' = "reread", \A i \in Settings : Applies(i)' => memory'[i] \in InRange
    PROVE  SettingsInv'
BY DEF SettingsInv

LEMMA SettingsStep ==
    ASSUME FieldsAssumption, InformationType, SettingsInv, [InformationNext]_informationVars
    PROVE  SettingsInv'
<1>0. Len(FIELDS) \in Nat /\ 1 \in Settings /\ Settings = 1 .. Len(FIELDS)
  BY FirstSetting
<1>1. CASE Read
  BY <1>1 DEF Read, Go, SettingsInv
<1>2. CASE SetFanScale
  <2>1. UNCHANGED <<memory, eeprom>> /\ at' \in {"offset", "current", "start", "failed"}
    BY <1>2 DEF SetFanScale, Go, Return
  <2> QED
    BY <1>2, <2>1 DEF SetFanScale, SettingsInv
<1>3. CASE SetFanOffset
  <2>1. UNCHANGED <<memory, eeprom>> /\ at' \in {"type", "start", "failed"}
    BY <1>3 DEF SetFanOffset, Go, Return
  <2> QED
    BY <1>3, <2>1 DEF SetFanOffset, SettingsInv
<1>4. CASE SetFanType
  <2>1. UNCHANGED <<memory, eeprom>> /\ at' \in {"current", "start", "failed"}
    BY <1>4 DEF SetFanType, Go, Return
  <2> QED
    BY <1>4, <2>1 DEF SetFanType, SettingsInv
<1>5. CASE SetExtruderCurrent
  <2>1. UNCHANGED <<memory, eeprom>> /\ at' \in {"offsets", "start", "failed"}
    BY <1>5 DEF SetExtruderCurrent, Go, Return
  <2> QED
    BY <1>5, <2>1 DEF SetExtruderCurrent, SettingsInv
<1>6. CASE ResetOld
  <2>1. CASE at' \in {"start", "failed"}
    BY <2>1, SettingsReturn
  <2>2. CASE at' \notin {"start", "failed"}
    <3>1. eeprom' = eeprom /\ (memory' = memory \/ \E role : memory' = Reset(role))
      BY <1>6, <2>2 DEF ResetOld, Return
    <3>2. at \in {"offsets", "speed"} /\ at' \in {"speed", "keep"} /\ setting' = setting /\ setting = 1
      BY <1>6, <2>2 DEF ResetOld, Go, Return, InformationType
    <3>3. ASSUME NEW i \in Settings
          PROVE  ~(i < setting') /\ (memory'[i] = eeprom'.memory[i] \/ memory'[i] = "default")
      <4>1. memory[i] = eeprom.memory[i] \/ memory[i] = "default"
        BY <3>2 DEF SettingsInv
      <4>2. memory'[i] = memory[i] \/ memory'[i] = "default"
        BY <3>1 DEF Reset
      <4> QED
        BY <1>0, <3>1, <3>2, <4>1, <4>2
    <3> QED
      BY <3>2, <3>3 DEF SettingsInv
  <2> QED
    BY <2>1, <2>2
<1>7. CASE KeepSetting
  <2>1. CASE at' \in {"start", "failed"}
    BY <2>1, SettingsReturn
  <2>2. CASE at' \notin {"start", "failed"}
    <3> PICK value : value = eeprom.memory[setting]
      OBVIOUS
    <3> PICK kept : kept = KeepWithinRange(FIELDS[setting].kind, value)
      OBVIOUS
    <3>1. at = "keep" /\ eeprom' = eeprom /\ ime' = ime
      BY <1>7 DEF KeepSetting, printer
    <3>2. NextSetting /\ \/ memory' = memory /\ (~Applies(setting) \/ kept = value)
                         \/ memory' = [memory EXCEPT ![setting] = kept]
      BY <1>7, <2>2 DEF KeepSetting, Return
    <3>3. kept \in InRange /\ setting \in Settings
      BY KeptInRange DEF InformationType
    <3>4. Applies(setting) => memory'[setting] \in InRange
      <4>1. memory[setting] = value \/ memory[setting] = "default"
        BY <3>1, <3>3, <1>0 DEF SettingsInv
      <4>2. CASE memory' = memory /\ (~Applies(setting) \/ kept = value)
        BY <3>3, <4>1, <4>2 DEF InRange
      <4>3. CASE memory' = [memory EXCEPT ![setting] = kept]
        <5>1. setting \in DOMAIN memory
          BY <3>3 DEF InformationType
        <5>2. memory'[setting] = kept
          BY <4>3, <5>1
        <5> QED
          BY <3>3, <5>2
      <4> QED
        BY <3>2, <4>2, <4>3
    <3>5. \A i \in Settings : i # setting => memory'[i] = memory[i]
      BY <3>2, <3>3 DEF InformationType
    <3>6. \A i \in Settings : Applies(i)' = Applies(i)
      BY <3>1 DEF Applies
    <3>7. \A i \in Settings : i <= setting /\ Applies(i) => memory'[i] \in InRange
      BY <1>0, <3>1, <3>3, <3>4, <3>5 DEF SettingsInv
    <3>8. \A i \in Settings : i > setting => memory'[i] = eeprom.memory[i] \/ memory'[i] = "default"
      BY <1>0, <3>1, <3>3, <3>5 DEF SettingsInv
    <3>9. CASE setting = Len(FIELDS)
      <4>1. at' = "reread"
        BY <3>2, <3>9 DEF NextSetting
      <4>2. \A i \in Settings : i <= setting
        BY <3>9 DEF Settings
      <4>3. \A i \in Settings : Applies(i)' => memory'[i] \in InRange
        BY <3>6, <3>7, <4>2
      <4> QED
        BY <4>1, <4>3, SettingsDone
    <3>10. CASE setting # Len(FIELDS)
      <4>1. at' = "keep" /\ setting' = setting + 1
        BY <3>1, <3>2, <3>10 DEF NextSetting
      <4>2. ASSUME NEW i \in Settings
            PROVE  IF i < setting' THEN Applies(i)' => memory'[i] \in InRange
                   ELSE memory'[i] = eeprom'.memory[i] \/ memory'[i] = "default"
        BY <1>0, <3>1, <3>3, <3>6, <3>7, <3>8, <4>1
      <4> QED
        BY <4>1, <4>2 DEF SettingsInv
    <3> QED
      BY <3>9, <3>10
  <2> QED
    BY <2>1, <2>2
<1>8. CASE Reread
  <2>1. at = "reread" /\ UNCHANGED <<memory, fan, current, ime>> /\ at' = "accepted"
    BY <1>8 DEF Reread, Return, printer
  <2> QED
    BY <2>1 DEF SettingsInv, Applies
<1>9. CASE Again
  BY <1>9, SettingsReturn DEF Again
<1>10. CASE Unplugged
  BY <1>10, SettingsReturn DEF Unplugged, Return
<1>11. CASE UNCHANGED informationVars
  BY <1>11 DEF informationVars, SettingsInv, Applies
<1> QED
  BY <1>1, <1>2, <1>3, <1>4, <1>5, <1>6, <1>7, <1>8, <1>9, <1>10, <1>11 DEF InformationNext

\* What a step leaves of the corners: a repair changes whether one is 0 only if
\* it was no number.
LEMMA OrientationStep ==
    ASSUME FieldsAssumption, InformationType, SettingsInv, OrientationInv,
           [InformationNext]_informationVars
    PROVE  OrientationInv'
<1>1. CASE at' \in {"start", "failed"} \/ zeroed'
  BY <1>1 DEF OrientationInv
<1>2. CASE at' \notin {"start", "failed"} /\ ~zeroed'
  <2>1. CASE Read
    <3>1. at' = "scale" /\ memory' = memory /\ eeprom'.memory = memory
      BY <2>1 DEF Read, Go
    <3> QED
      BY <3>1 DEF OrientationInv, SameCorners
  <2>2. CASE SetFanScale \/ SetFanOffset \/ SetFanType \/ SetExtruderCurrent
    <3>1. UNCHANGED <<memory, eeprom, zeroed>>
      BY <2>2 DEF SetFanScale, SetFanOffset, SetFanType, SetExtruderCurrent, orientation
    <3>2. at \in {"scale", "offset", "type", "current"} /\ at' \in {"offset", "type", "current", "offsets"}
      BY <1>2, <2>2 DEF SetFanScale, SetFanOffset, SetFanType, SetExtruderCurrent, Go, Return
    <3>3. SameCorners
      BY <1>2, <3>1, <3>2 DEF OrientationInv
    <3>4. SameCorners'
      BY <3>1, <3>3 DEF SameCorners, Corner
    <3> QED
      BY <3>2, <3>4 DEF OrientationInv
  <2>3. CASE ResetOld
    <3>1. /\ at \in {"offsets", "speed"} /\ at' \in {"speed", "keep"} /\ UNCHANGED <<eeprom, zeroed>>
          /\ memory' = memory \/ \E role \in {"offset", "speed"} : memory' = Reset(role)
      BY <1>2, <2>3 DEF ResetOld, Go, Return, orientation
    <3>2. \A i \in Settings : Corner(i) => memory'[i] = memory[i]
      BY <3>1 DEF Reset, Corner
    <3>3. SameCorners
      BY <1>2, <3>1 DEF OrientationInv
    <3>4. SameCorners'
      BY <3>1, <3>2, <3>3 DEF SameCorners, Corner
    <3> QED
      BY <3>1, <3>4 DEF OrientationInv
  <2>4. CASE KeepSetting
    <3> PICK value : value = eeprom.memory[setting]
      OBVIOUS
    <3> PICK kept : kept = KeepWithinRange(FIELDS[setting].kind, value)
      OBVIOUS
    <3>1. /\ at = "keep" /\ UNCHANGED <<eeprom, marked>> /\ NextSetting /\ ~zeroed
          /\ \/ memory' = memory
             \/ /\ memory' = [memory EXCEPT ![setting] = kept] /\ kept # value
                /\ ~(Corner(setting) /\ value = "nan")
      BY <1>2, <2>4 DEF KeepSetting, Return, printer
    <3>2. SameCorners
      BY <3>1 DEF OrientationInv
    <3>3. Corner(setting) => (memory'[setting] = "default" <=> memory[setting] = "default")
      <4>1. CASE memory' = memory
        BY <4>1
      <4>2. CASE memory' # memory /\ Corner(setting)
        <5>1. memory'[setting] = kept /\ kept # value /\ value # "nan"
          BY <3>1, <4>2 DEF InformationType
        <5>2. kept # "default" /\ value # "default"
          BY <5>1 DEF KeepWithinRange
        <5>3. memory[setting] # "default"
          BY <3>2, <4>2, <5>2 DEF SameCorners, InformationType
        <5> QED
          BY <5>1, <5>2, <5>3
      <4> QED
        BY <4>1, <4>2
    <3>4. \A i \in Settings : i # setting => memory'[i] = memory[i]
      BY <3>1 DEF InformationType
    <3>5. SameCorners'
      BY <3>1, <3>2, <3>3, <3>4 DEF SameCorners, Corner
    <3>6. CASE setting = Len(FIELDS)
      <4>1. at' = "reread" /\ oriented' = Leveled(eeprom.memory)
        BY <3>1, <3>6 DEF NextSetting
      <4>2. Leveled(eeprom.memory) = Leveled(memory)'
        BY <3>1, <3>5 DEF Leveled, SameCorners, Corner
      <4> QED
        BY <4>1, <4>2 DEF OrientationInv
    <3>7. CASE setting # Len(FIELDS)
      <4>1. at' = "keep"
        BY <3>1, <3>7 DEF NextSetting
      <4> QED
        BY <3>5, <4>1 DEF OrientationInv
    <3> QED
      BY <3>6, <3>7
  <2>5. CASE Reread
    <3>1. at = "reread" /\ at' = "accepted" /\ UNCHANGED <<memory, marked, oriented, zeroed>>
      BY <2>5 DEF Reread, Return, printer, orientation
    <3> QED
      BY <1>2, <3>1 DEF OrientationInv, Leveled, Corner
  <2>6. CASE Again \/ Unplugged
    BY <1>2, <2>6 DEF Again, Unplugged, Return
  <2>7. CASE UNCHANGED informationVars
    <3>1. UNCHANGED <<memory, eeprom, at, marked, oriented, zeroed>>
      BY <2>7 DEF informationVars
    <3> QED
      BY <1>2, <3>1 DEF OrientationInv, SameCorners, Leveled, Corner
  <2> QED
    BY <2>1, <2>2, <2>3, <2>4, <2>5, <2>6, <2>7 DEF InformationNext
<1> QED
  BY <1>1, <1>2

LEMMA FanReturn ==
    ASSUME at' \in {"start", "failed"}
    PROVE  FanInv'
BY DEF FanInv

\* A step that loses no answer: what is stored is what the place repairs.
LEMMA FanStep ==
    ASSUME InformationType, FanInv, [InformationNext]_informationVars, lost = 0, lost' = 0
    PROVE  FanInv'
<1>0. ~LostAnswer
  BY DEF LostAnswer
<1>1. CASE Read
  <2>1. UNCHANGED <<fan, current>> /\ at' = "scale" /\ eeprom'.fan = fan /\ eeprom'.current = current
    BY <1>1 DEF Read, Go
  <2> QED
    BY <2>1 DEF FanInv
<1>2. CASE SetFanScale
  <2>1. CASE at' \in {"start", "failed"}
    BY <2>1, FanReturn
  <2>2. CASE FanToSet # "known"
    <3>1. UNCHANGED <<fan, current, eeprom>> /\ at = "scale" /\ at' = "current"
      BY <1>2, <2>2 DEF SetFanScale, Go
    <3>2. fan.type # "known"
      BY <2>2, <3>1 DEF FanToSet, FanInv
    <3> QED
      BY <3>1, <3>2 DEF FanInv, FanRight
  <2>3. CASE FanToSet = "known" /\ at' \notin {"start", "failed"}
    <3>1. at = "scale" /\ at' = "offset" /\ UNCHANGED <<current, eeprom>> /\ fan = eeprom.fan
      BY <1>0, <1>2, <2>3 DEF SetFanScale, Go, FanInv
    <3>2. fan' = [fan EXCEPT !.scale = TRUE] \/ (fan' = fan /\ eeprom.fan.scale)
      BY <1>0, <1>2, <2>3 DEF SetFanScale
    <3>3. fan'.scale = TRUE /\ fan'.offset = fan.offset /\ fan'.type = fan.type
      BY <3>1, <3>2 DEF InformationType, Fans
    <3> QED
      BY <3>1, <3>3 DEF FanInv
  <2> QED
    BY <2>1, <2>2, <2>3
<1>3. CASE SetFanOffset
  <2>1. CASE at' \in {"start", "failed"}
    BY <2>1, FanReturn
  <2>2. CASE at' \notin {"start", "failed"}
    <3>1. /\ at = "offset" /\ at' = "type" /\ UNCHANGED <<fan, current, eeprom>>
          /\ eeprom.fan.offset
      BY <1>0, <1>3, <2>2 DEF SetFanOffset, Go, Return
    <3>2. fan.offset = TRUE
      BY <3>1 DEF FanInv, InformationType, Fans
    <3> QED
      BY <3>1, <3>2 DEF FanInv
  <2> QED
    BY <2>1, <2>2
<1>4. CASE SetFanType
  <2>1. CASE at' \in {"start", "failed"}
    BY <2>1, FanReturn
  <2>2. CASE at' \notin {"start", "failed"}
    <3>1. at = "type" /\ at' = "current" /\ UNCHANGED <<fan, current, eeprom>>
      BY <1>0, <1>4, <2>2 DEF SetFanType, Go, Return
    <3> QED
      BY <3>1 DEF FanInv, FanRight
  <2> QED
    BY <2>1, <2>2
<1>5. CASE SetExtruderCurrent
  <2>1. CASE at' \in {"start", "failed"}
    BY <2>1, FanReturn
  <2>2. CASE at' \notin {"start", "failed"}
    <3>1. at = "current" /\ at' = "offsets" /\ UNCHANGED <<fan, current, eeprom>> /\ eeprom.current
      BY <1>0, <1>5, <2>2 DEF SetExtruderCurrent, Go, Return
    <3>2. current = TRUE
      BY <3>1 DEF FanInv, InformationType
    <3> QED
      BY <3>1, <3>2 DEF FanInv, FanRight
  <2> QED
    BY <2>1, <2>2
<1>6. CASE ResetOld
  <2>1. at \in {"offsets", "speed"} /\ at' \in {"speed", "keep"} /\ UNCHANGED <<fan, current>>
    BY <1>0, <1>6 DEF ResetOld, Go
  <2> QED
    BY <2>1 DEF FanInv, FanRight
<1>7. CASE KeepSetting
  <2>1. at = "keep" /\ at' \in {"keep", "reread"} /\ UNCHANGED <<fan, current>>
    BY <1>0, <1>7 DEF KeepSetting, NextSetting
  <2> QED
    BY <2>1 DEF FanInv, FanRight
<1>8. CASE Reread
  <2>1. at = "reread" /\ at' = "accepted" /\ UNCHANGED <<fan, current>>
    BY <1>8 DEF Reread, Return
  <2> QED
    BY <2>1 DEF FanInv, FanRight
<1>9. CASE Again
  BY <1>9, FanReturn DEF Again
<1>10. CASE Unplugged
  BY <1>0, <1>10 DEF Unplugged
<1>11. CASE UNCHANGED informationVars
  BY <1>11 DEF informationVars, FanInv, FanRight
<1> QED
  BY <1>1, <1>2, <1>3, <1>4, <1>5, <1>6, <1>7, <1>8, <1>9, <1>10, <1>11 DEF InformationNext

LEMMA InformationInvariance ==
    ASSUME FieldsAssumption
    PROVE  InformationSpec => []InformationInv
<1>1. InformationInit => InformationInv
  <2> SUFFICES ASSUME InformationInit PROVE InformationInv
    OBVIOUS
  <2>1. memory \in [Settings -> FloatValues] /\ (\A i \in Settings : memory[i] \in FieldValues(i))
        /\ fan \in Fans /\ current \in BOOLEAN
    BY DEF InformationInit
  <2>2. eeprom = [memory |-> memory, fan |-> fan, current |-> current]
    BY DEF InformationInit
  <2>3. at = "start" /\ setting = 1 /\ lost = 0 /\ zeroed = FALSE
    BY DEF InformationInit
  <2>4. InformationType
    BY <2>1, <2>2, <2>3, FirstSetting DEF InformationType
  <2> QED
    BY <2>3, <2>4 DEF InformationInv, SettingsInv, OrientationInv, FanInv
<1>2. InformationInv /\ [InformationNext]_informationVars => InformationInv'
  <2> SUFFICES ASSUME InformationInv, [InformationNext]_informationVars PROVE InformationInv'
    OBVIOUS
  <2>1. InformationType' /\ SettingsInv' /\ OrientationInv'
    BY InformationTypeStep, SettingsStep, OrientationStep DEF InformationInv
  <2>2. ASSUME lost' = 0 PROVE FanInv'
    <3>1. lost' \in {lost, lost + 1}
      BY DEF InformationNext, informationVars, Read, SetFanScale, SetFanOffset, SetFanType,
             SetExtruderCurrent, ResetOld, KeepSetting, Reread, Again, Unplugged, Stored, LostAnswer
    <3>2. lost = 0
      BY <2>2, <3>1 DEF InformationInv, InformationType
    <3> QED
      BY <2>2, <3>2, FanStep DEF InformationInv
  <2> QED
    BY <2>1, <2>2 DEF InformationInv
<1> QED
  BY <1>1, <1>2, PTL DEF InformationSpec

\* Whichever settings there are and however many answers get lost, a printer that
\* collectPrinterInformation accepts has every setting it uses in range, and its
\* bed orientation is said to be valid exactly when the EEPROM's is, unless a
\* corner that was no number was repaired; without a lost answer its fan and its
\* extruder current are repaired, although setFanType and setExtruderCurrent take
\* a write that succeeded for one that failed.
THEOREM InformationCorrect ==
    ASSUME FieldsAssumption
    PROVE  InformationSpec => []AcceptedMeansInRange
<1>1. InformationInv => AcceptedMeansInRange
  BY DEF InformationInv, SettingsInv, OrientationInv, FanInv, AcceptedMeansInRange,
         EverythingInRange, OrientationShown, Repaired
<1> QED
  BY <1>1, InformationInvariance, PTL
=============================================================================
