----------------------------- MODULE UsbReceive -----------------------------
(***************************************************************************)
(* From the packets of the USB bulk endpoint to the commands of requests:  *)
(* the two receive buffers of the CDC driver (udi_cdc.c), and the          *)
(* callback cdcRxNotifyCallback (main.cpp) that gathers packets until a    *)
(* short one completes a request, and has its lines parsed.  What becomes  *)
(* of the commands handed on is the subject of RequestQueue.               *)
(*                                                                         *)
(* The receive interrupt runs to its end: the callback is called out of    *)
(* udi_cdc_rx_start, before the transfer of the next packet is started.    *)
(***************************************************************************)
EXTENDS Integers, Sequences, SequencesExt

CONSTANTS
    MESSAGES,       \* what a host may write: sequences of characters
    WRITES,         \* bound on the messages written
    RECONNECTS,     \* bound on the times the host is lost
    ZLP,            \* the host ends a message of full packets with an empty one
    EP_SIZE,        \* bytes in a full packet: 64
    BUFFER_SIZE     \* of accumulatedBuffer: 513

VARIABLES
    wire,           \* packets the host has not yet got rid of
    rxBuf,          \* udi_cdc_rx_buf: the two receive buffers
    rxNb,           \* udi_cdc_rx_buf_nb: bytes in each
    rxSel,          \* udi_cdc_rx_buf_sel: the one being read
    rxPos,          \* udi_cdc_rx_pos: bytes read of it
    rxOngoing,      \* udi_cdc_rx_trans_ongoing
    running,        \* udi_cdc_data_running
    usbInterrupts,  \* enabled
    accumulatedBuffer,  \* its first lastCharacterOffset characters
    handed,         \* the commands handed on
    written,        \* the messages written
    reconnects

rxVars == <<rxBuf, rxNb, rxSel, rxPos, rxOngoing>>
vars == <<wire, rxVars, running, usbInterrupts, accumulatedBuffer, handed, written, reconnects>>

ReceiveAssumption ==
    /\ EP_SIZE \in Nat \ {0} /\ BUFFER_SIZE \in Nat \ {0}
    /\ WRITES \in Nat /\ RECONNECTS \in Nat /\ ZLP \in BOOLEAN
    /\ \A m \in MESSAGES : Len(m) > 0

Parser == INSTANCE GcodeParser WITH CHARACTERS <- {}, MAX_LENGTH <- 0, INDEX <- 256,
                                    FLT_DIG <- 2, request <- <<>>

Other(buffer) == 1 - buffer

\* The packets of a message: full ones and a short one, which is empty or
\* missing when the message just fills the others.
Packets(m) ==
    LET full == Len(m) \div EP_SIZE
        rest == SubSeq(m, full * EP_SIZE + 1, Len(m))
    IN  [k \in 1 .. full |-> SubSeq(m, (k - 1) * EP_SIZE + 1, k * EP_SIZE)]
          \o (IF rest # <<>> \/ ZLP THEN <<rest>> ELSE <<>>)

\* The commands of a complete request from an offset on: one is parsed there,
\* and the next behind the next line feed.
RECURSIVE CommandsFrom(_, _)

CommandsFrom(request, offset) ==
    IF offset >= Len(request) THEN <<>>
    ELSE LET feeds == {i \in offset .. Len(request) - 1 : request[i + 1] = "LF"}
         IN  <<Parser!parseCommand(Parser!From(request, offset))>>
               \o (IF feeds = {} THEN <<>>
                   ELSE CommandsFrom(request, 1 + CHOOSE i \in feeds : \A j \in feeds : i <= j))

Commands(request) == CommandsFrom(request, 0)

\* M0, M1 or M112, and not damaged.
isStop(command) ==
    /\ "m" \in DOMAIN command.parameters
    /\ command.parameters["m"] \in {0, 1, 112}
    /\ "n" \in DOMAIN command.parameters => command.checksum = "valid"

-----------------------------------------------------------------------------
(* The driver.  rx is a record of rxBuf, rxNb, rxSel, rxPos and rxOngoing. *)

rx == [buf |-> rxBuf, nb |-> rxNb, sel |-> rxSel, pos |-> rxPos, ongoing |-> rxOngoing]

Becomes(r) ==
    /\ rxBuf' = r.buf /\ rxNb' = r.nb /\ rxSel' = r.sel
    /\ rxPos' = r.pos /\ rxOngoing' = r.ongoing

nbReceived(r) == r.nb[r.sel] - r.pos

\* udi_cdc_rx_start refuses while a transfer is on-going or data is unread.
Startable(r) == ~r.ongoing /\ r.pos >= r.nb[r.sel]

\* Faulty: the position in the buffer just read is kept for the next one.
StartKeepingPosition(r) == [r EXCEPT !.sel = Other(@), !.ongoing = TRUE]

\* Otherwise it turns to the other buffer.
Start(r) == [r EXCEPT !.pos = 0, !.sel = Other(@), !.ongoing = TRUE]

\* udi_cdc_multi_read_buf_and_ignore: the bytes not asked for are dropped; the
\* transfer it tries to start is the one already on-going.
Read(r, size) == [r EXCEPT !.pos = @ + nbReceived(r)]

-----------------------------------------------------------------------------
Init ==
    /\ wire = <<>>
    /\ rxBuf = [b \in 0 .. 1 |-> <<>>] /\ rxNb = [b \in 0 .. 1 |-> 0]
    /\ rxSel = 0 /\ rxPos = 0 /\ rxOngoing = FALSE
    /\ running = FALSE /\ usbInterrupts = TRUE
    /\ accumulatedBuffer = <<>> /\ handed = <<>>
    /\ written = <<>> /\ reconnects = 0

HostWrites(m) ==
    /\ running /\ Len(written) < WRITES
    /\ wire' = wire \o Packets(m)
    /\ written' = Append(written, m)
    /\ UNCHANGED <<rxVars, running, usbInterrupts, accumulatedBuffer, handed, reconnects>>

\* udi_cdc_data_enable
DataEnable ==
    /\ ~running /\ usbInterrupts
    /\ Becomes(Start([buf |-> rxBuf, nb |-> [b \in 0 .. 1 |-> 0], sel |-> 0, pos |-> 0,
                      ongoing |-> FALSE]))
    /\ running' = TRUE
    /\ UNCHANGED <<wire, usbInterrupts, accumulatedBuffer, handed, written, reconnects>>

\* udi_cdc_data_disable and cdcDisconnectCallback: the transfer is aborted,
\* and what the host had not sent is lost.
DataDisable ==
    /\ running /\ usbInterrupts /\ reconnects < RECONNECTS
    /\ running' = FALSE
    /\ wire' = <<>>
    /\ reconnects' = reconnects + 1
    /\ UNCHANGED <<rxVars, usbInterrupts, accumulatedBuffer, handed, written>>

\* "Prevent request from overflowing accumulated request"
Clipped(size) ==
    IF size >= BUFFER_SIZE - Len(accumulatedBuffer)
      THEN BUFFER_SIZE - Len(accumulatedBuffer) - 1
      ELSE size

\* cdcRxNotifyCallback, with the driver in the state r.
RxNotify(r) ==
    LET size == nbReceived(r)
        complete == size # EP_SIZE
    IN  /\ Becomes(Read(r, Clipped(size)))
        /\ \E gathered \in {accumulatedBuffer \o SubSeq(r.buf[r.sel], r.pos + 1, r.pos + Clipped(size))} :
              IF complete
                THEN \E commands \in {Commands(gathered)} :
                        /\ accumulatedBuffer' = <<>>
                        /\ handed' = handed \o commands
                        /\ usbInterrupts' = (\A k \in 1 .. Len(commands) : ~isStop(commands[k]))
                ELSE accumulatedBuffer' = gathered /\ UNCHANGED <<handed, usbInterrupts>>

\* udi_cdc_data_received: an empty packet only starts the transfer again.
\* Otherwise the filled buffer becomes the one to read, the application is
\* notified, and the next transfer runs.
DataReceived ==
    /\ running /\ usbInterrupts /\ rxOngoing /\ wire # <<>>
    /\ wire' = Tail(wire)
    /\ LET filled == [rx EXCEPT !.buf[Other(rxSel)] = Head(wire),
                                !.nb[Other(rxSel)] = Len(Head(wire)), !.ongoing = FALSE]
       IN  CASE Head(wire) = <<>> -> UNCHANGED <<rxVars, accumulatedBuffer, handed, usbInterrupts>>
             [] Head(wire) # <<>> /\ Startable(filled) -> RxNotify(Start(filled))
             [] OTHER -> Becomes(filled) /\ UNCHANGED <<accumulatedBuffer, handed, usbInterrupts>>
    /\ UNCHANGED <<running, written, reconnects>>

\* The main loop has obeyed the stop.
EnableUsbInterrupts ==
    /\ ~usbInterrupts
    /\ usbInterrupts' = TRUE
    /\ UNCHANGED <<wire, rxVars, running, accumulatedBuffer, handed, written, reconnects>>

Next ==
    \/ \E m \in MESSAGES : HostWrites(m)
    \/ DataEnable \/ DataDisable \/ DataReceived \/ EnableUsbInterrupts

Spec == Init /\ [][Next]_vars

-----------------------------------------------------------------------------
\* Whatever packet comes next, and whatever was left by a lost connection,
\* its characters and the terminating character fit in accumulatedBuffer.
WithinBuffer ==
    /\ Len(accumulatedBuffer) < BUFFER_SIZE
    /\ wire # <<>> => Len(accumulatedBuffer) + Clipped(Len(Head(wire))) + 1 <= BUFFER_SIZE

\* The controller never fills a buffer with unread data, and reception goes
\* on: between two interrupts all that came was read and a transfer runs.
ReceptionGoesOn == running => rxOngoing /\ rxPos >= rxNb[rxSel]

\* The requests that messages make up: a message of full packets only does not
\* end one, with an empty packet behind it or without, and what the host writes
\* next is a part of the same request.
Requested(messages) ==
    FoldLeft(LAMBDA r, m :
                IF Len(m) % EP_SIZE = 0 THEN [r EXCEPT !.open = @ \o m]
                ELSE [closed |-> Append(r.closed, r.open \o m), open |-> <<>>],
             [closed |-> <<>>, open |-> <<>>], messages)

\* What accumulatedBuffer holds of a request.
Held(request) == SubSeq(request, 1, IF Len(request) < BUFFER_SIZE THEN Len(request) ELSE BUFFER_SIZE - 1)

\* The commands handed on are those of the requests written, each once and in
\* order, however a request was cut into packets; an overlong request counts
\* up to the buffer's size.  A message that just fills its packets waits in
\* accumulatedBuffer for the next one.  This is what changed with "one byte
\* would be lost when receiving more than 64 bytes at once from USB"
\* (Changelog:10).
HandedAsWritten ==
    LET requested == Requested(written)
        expected == FlattenSeq([k \in DOMAIN requested.closed |-> Commands(Held(requested.closed[k]))])
    IN  /\ IsPrefix(handed, expected)
        /\ wire = <<>> => handed = expected /\ accumulatedBuffer = Held(requested.open)
=============================================================================
