----------------------------- MODULE CdcTransmit -----------------------------
(***************************************************************************)
(* The transmit side of the CDC driver (udi_cdc.c) byte by byte: two       *)
(* buffers, one filled by udi_cdc_multi_write_buf while the other is sent, *)
(* swapped by udi_cdc_tx_send on a start of frame, at the end of a         *)
(* transfer, or by the writer who finds the first one full.                *)
(*                                                                         *)
(* The main loop's write is cut where interrupts are let in: between the   *)
(* check for room and the copy, and between two copies.  The wait timer    *)
(* writes from an interrupt, only while the main loop does not write.      *)
(***************************************************************************)
EXTENDS Integers, Sequences

CONSTANTS
    TX_BUFFERS,     \* bytes in a buffer: 64
    ZLP_LIMIT,      \* frames without data before an empty packet is sent: 100
    FRAMES,         \* frame numbers wrap around: 2048
    MESSAGE_LENGTHS,        \* of the main loop's messages
    WAIT_LENGTH,    \* of the wait timer's message
    BYTES,          \* bound on the bytes written
    RECONNECTS      \* bound on the connections lost

VARIABLES
    txBuf,          \* udi_cdc_tx_buf, as the sequences of bytes in use
    txSel,          \* udi_cdc_tx_buf_sel: the buffer being filled
    txOngoing,      \* udi_cdc_tx_trans_ongoing
    bothToSend,     \* udi_cdc_tx_both_buf_to_send
    sofNum,         \* udi_cdc_tx_sof_num
    zlpCounter,     \* sof_zlp_counter
    frame,          \* the frame number on the bus
    transmitRunning,    \* udi_cdc_data_running
    pc, size,       \* the main loop's write, and the bytes it still has
    out, count,     \* last byte the host got, bytes written
    transmitReconnects  \* connections lost so far

txVars == <<txBuf, txSel, txOngoing, bothToSend, sofNum, zlpCounter>>
transmitVars == <<txVars, frame, transmitRunning, pc, size, out, count, transmitReconnects>>

TransmitAssumption ==
    /\ TX_BUFFERS \in Nat \ {0} /\ ZLP_LIMIT \in Nat \ {0} /\ FRAMES \in Nat \ {0, 1}
    /\ MESSAGE_LENGTHS \subseteq Nat \ {0} /\ WAIT_LENGTH \in Nat \ {0}
    /\ BYTES \in Nat /\ RECONNECTS \in Nat

Other(buffer) == 1 - buffer

tx == [buf |-> txBuf, sel |-> txSel, ongoing |-> txOngoing, both |-> bothToSend,
       sof |-> sofNum, zlp |-> zlpCounter]

TxBecomes(t) ==
    /\ txBuf' = t.buf /\ txSel' = t.sel /\ txOngoing' = t.ongoing
    /\ bothToSend' = t.both /\ sofNum' = t.sof /\ zlpCounter' = t.zlp

Empty == [b \in 0 .. 1 |-> <<>>]

EmptyTx == [buf |-> Empty, sel |-> 0, ongoing |-> FALSE, both |-> FALSE, sof |-> 0, zlp |-> zlpCounter]

\* Faulty: with both buffers to send, the one being filled is sent first.
SendNewest(t, now) ==
    CASE t.ongoing \/ t.sof = now -> t
      [] ~t.ongoing /\ t.sof # now /\ t.buf[t.sel] = <<>> /\ t.zlp + 1 < ZLP_LIMIT ->
            [t EXCEPT !.zlp = @ + 1]
      [] OTHER ->
            LET n == Len(t.buf[t.sel])
            IN  [t EXCEPT !.zlp = 0, !.sel = Other(@), !.ongoing = TRUE,
                          !.sof = IF n # TX_BUFFERS THEN now ELSE 0]

\* udi_cdc_tx_send at a frame number: nothing while a transfer runs or in the
\* frame of the last short packet, nor without data until an empty packet is
\* due.  The buffer sent is the one not selected afterwards.
Send(t, now) ==
    CASE t.ongoing \/ t.sof = now -> t
      [] ~t.ongoing /\ t.sof # now /\ t.buf[t.sel] = <<>> /\ t.zlp + 1 < ZLP_LIMIT ->
            [t EXCEPT !.zlp = @ + 1]
      [] OTHER ->
            LET n == Len(t.buf[IF t.both THEN Other(t.sel) ELSE t.sel])
            IN  [t EXCEPT !.zlp = 0, !.sel = IF t.both THEN @ ELSE Other(@), !.ongoing = TRUE,
                          !.sof = IF n # TX_BUFFERS THEN now ELSE 0]

\* udi_cdc_multi_get_free_tx_buffer: when the buffer is full and the other one
\* unused, turn to that one.
GetFree(t) ==
    IF Len(t.buf[t.sel]) = TX_BUFFERS /\ ~t.ongoing /\ ~t.both
      THEN [t EXCEPT !.both = TRUE, !.sel = Other(@)]
      ELSE t

Room(t) == TX_BUFFERS - Len(t.buf[t.sel])

\* The copying part of udi_cdc_multi_write_buf.
Write(t, n) == [t EXCEPT !.buf[t.sel] = @ \o [k \in 1 .. n |-> count + k]]

-----------------------------------------------------------------------------
TransmitInit ==
    /\ txBuf = Empty /\ txSel = 0 /\ txOngoing = FALSE /\ bothToSend = FALSE
    /\ sofNum = 0 /\ zlpCounter = 0 /\ frame = 0 /\ transmitRunning = FALSE
    /\ pc = "idle" /\ size = 0
    /\ out = 0 /\ count = 0 /\ transmitReconnects = 0

\* udi_cdc_data_enable
DataEnable ==
    /\ ~transmitRunning
    /\ TxBecomes(Send(EmptyTx, frame))
    /\ transmitRunning' = TRUE
    /\ UNCHANGED <<frame, pc, size, out, count, transmitReconnects>>

\* udi_cdc_data_disable: an aborted transfer leaves everything as it is.
DataDisable ==
    /\ transmitRunning /\ transmitReconnects < RECONNECTS
    /\ transmitRunning' = FALSE /\ transmitReconnects' = transmitReconnects + 1
    /\ UNCHANGED <<txVars, frame, pc, size, out, count>>

\* udi_cdc_data_sof_notify
StartOfFrame ==
    /\ transmitRunning
    /\ frame' = (frame + 1) % FRAMES
    /\ TxBecomes(Send(tx, frame'))
    /\ UNCHANGED <<transmitRunning, pc, size, out, count, transmitReconnects>>

\* udi_cdc_data_sent, when the host has taken the buffer.
DataSent ==
    /\ transmitRunning /\ txOngoing
    /\ LET sent == txBuf[Other(txSel)]
       IN  out' = IF sent = <<>> THEN out ELSE sent[Len(sent)]
    /\ TxBecomes(Send([tx EXCEPT !.buf[Other(txSel)] = <<>>, !.both = FALSE, !.ongoing = FALSE], frame))
    /\ UNCHANGED <<frame, transmitRunning, pc, size, count, transmitReconnects>>

\* sendDataToUsb without checkBufferSize, called by the main loop.
SendData(n) ==
    /\ pc = "idle" /\ count + n <= BYTES
    /\ pc' = "check" /\ size' = n
    /\ UNCHANGED <<txVars, frame, transmitRunning, out, count, transmitReconnects>>

\* Is there room?  Without, the write spins, or gives up with no host.
CheckRoom ==
    /\ pc = "check"
    /\ TxBecomes(GetFree(tx))
    /\ \/ Room(GetFree(tx)) > 0 /\ pc' = "copy" /\ UNCHANGED size
       \/ Room(GetFree(tx)) = 0 /\ ~transmitRunning /\ pc' = "idle" /\ size' = 0
    /\ UNCHANGED <<frame, transmitRunning, out, count, transmitReconnects>>

CopyData ==
    /\ pc = "copy"
    /\ LET n == IF Room(tx) < size THEN Room(tx) ELSE size
       IN  /\ TxBecomes(Write(tx, n))
           /\ count' = count + n
           /\ size' = size - n
           /\ pc' = IF n = size THEN "idle" ELSE "check"
    /\ UNCHANGED <<frame, transmitRunning, out, transmitReconnects>>

\* sendDataToUsb with checkBufferSize, in the wait timer's interrupt: all of
\* the message or nothing.
WaitTimer ==
    /\ pc = "idle" /\ count + WAIT_LENGTH <= BYTES
    /\ IF Room(GetFree(tx)) >= WAIT_LENGTH
         THEN TxBecomes(Write(GetFree(tx), WAIT_LENGTH)) /\ count' = count + WAIT_LENGTH
         ELSE TxBecomes(GetFree(tx)) /\ UNCHANGED count
    /\ UNCHANGED <<frame, transmitRunning, pc, size, out, transmitReconnects>>

TransmitNext ==
    \/ DataEnable \/ DataDisable \/ StartOfFrame \/ DataSent
    \/ \E n \in MESSAGE_LENGTHS : SendData(n)
    \/ CheckRoom \/ CopyData \/ WaitTimer

TransmitSpec == TransmitInit /\ [][TransmitNext]_transmitVars

-----------------------------------------------------------------------------
Pipe == INSTANCE BytePipe WITH CAPACITY <- 2 * TX_BUFFERS, pipe <- txBuf[Other(txSel)] \o txBuf[txSel]

\* The two buffers are a pipe: whatever is interrupted by what, the host gets
\* the bytes in order, none twice and none missing, and only a connection that
\* is set up anew (udi_cdc_data_enable) discards bytes.
IsPipe == Pipe!PipeSpec

\* Neither buffer is written past its end, and the buffer the writer turns to
\* is empty: udi_cdc_multi_get_free_tx_buffer takes that for granted.
BuffersSound ==
    /\ \A b \in 0 .. 1 : Len(txBuf[b]) <= TX_BUFFERS
    /\ ~txOngoing /\ ~bothToSend => txBuf[Other(txSel)] = <<>>
=============================================================================
