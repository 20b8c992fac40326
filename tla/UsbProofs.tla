----------------------------- MODULE UsbProofs -----------------------------
(***************************************************************************)
(* The two transmit buffers of the CDC driver are a pipe of bytes: for     *)
(* every size of buffer, every message and every interleaving of frames,   *)
(* ends of transfers, copies and connections.  And host and device agree   *)
(* on the device's address, configuration and endpoints, for every host:   *)
(* whatever settings it asks for, whichever endpoints it halts and however *)
(* often it resets and configures.                                         *)
(***************************************************************************)
EXTENDS CdcTransmit, UsbDevice, SequenceTheorems, TLAPS

-----------------------------------------------------------------------------
(* The state of the buffers as a record, as the operators pass it on.      *)

Tx == [buf : [0 .. 1 -> Seq(Nat)], sel : 0 .. 1, ongoing : BOOLEAN, both : BOOLEAN,
       sof : Nat, zlp : Nat]

\* Neither buffer is too long, and the one not being filled holds nothing
\* unless it is being sent or waits to be sent.
Sound(t) ==
    /\ t \in Tx
    /\ \A b \in 0 .. 1 : Len(t.buf[b]) <= TX_BUFFERS
    /\ ~t.ongoing /\ ~t.both => t.buf[Other(t.sel)] = <<>>

\* The bytes under way, those that leave first in front.
Contents(t) == t.buf[Other(t.sel)] \o t.buf[t.sel]

\* Bytes written one after the other are in one row, however they are joined.
LEMMA BytesInARow ==
    ASSUME NEW a \in Seq(Nat), NEW b \in Seq(Nat), NEW c \in Seq(Nat)
    PROVE  a \o (b \o c) = (a \o b) \o c
<1>1. (a \o b) \o c = a \o (b \o c)
  BY ConcatAssociative, SMTT(60)
<1> QED
  BY <1>1

\* The inductive invariant.
TransmitInv ==
    /\ Sound(tx)
    /\ pc \in {"idle", "check", "copy"} /\ size \in Nat /\ count \in Nat /\ frame \in Nat

LEMMA OtherFacts ==
    ASSUME NEW b \in 0 .. 1
    PROVE  Other(b) \in 0 .. 1 /\ Other(b) # b /\ Other(Other(b)) = b
  BY DEF Other

\* Turning to the other buffer, when that is empty, leaves the contents.
LEMMA TurnFacts ==
    ASSUME NEW t, NEW u, Sound(t), ~t.ongoing, ~t.both, u \in Tx,
           u.buf = t.buf, u.sel = Other(t.sel), u.ongoing \/ u.both
    PROVE  Sound(u) /\ Contents(u) = Contents(t)
<1>1. /\ t.sel \in 0 .. 1 /\ u.sel \in 0 .. 1 /\ Other(u.sel) = t.sel
      /\ t.buf[t.sel] \in Seq(Nat) /\ t.buf[Other(t.sel)] = <<>>
  BY OtherFacts DEF Sound, Tx
<1>2. Contents(t) = t.buf[t.sel] /\ Contents(u) = t.buf[t.sel]
  BY <1>1, ConcatEmptySeq DEF Contents
<1> QED
  BY <1>1, <1>2 DEF Sound

\* The three records that the driver makes of t.
Waited(t) == [t EXCEPT !.zlp = @ + 1]
Sent(t, sel, sof) == [t EXCEPT !.zlp = 0, !.sel = sel, !.ongoing = TRUE, !.sof = sof]
Turned(t, sel) == [t EXCEPT !.both = TRUE, !.sel = sel]

LEMMA WaitedFacts ==
    ASSUME NEW t \in Tx
    PROVE  /\ Waited(t) \in Tx
           /\ Waited(t).buf = t.buf /\ Waited(t).sel = t.sel
           /\ Waited(t).ongoing = t.ongoing /\ Waited(t).both = t.both
<1>1. t.zlp + 1 \in Nat
  BY DEF Tx
<1>2. Waited(t) \in Tx
  BY <1>1 DEF Tx, Waited
<1>3. Waited(t).buf = t.buf /\ Waited(t).sel = t.sel
  BY DEF Tx, Waited
<1>4. Waited(t).ongoing = t.ongoing
  BY DEF Tx, Waited
<1>5. Waited(t).both = t.both
  BY DEF Tx, Waited
<1> QED
  BY <1>2, <1>3, <1>4, <1>5

LEMMA SentFacts ==
    ASSUME NEW t \in Tx, NEW sel \in 0 .. 1, NEW sof \in Nat
    PROVE  /\ Sent(t, sel, sof) \in Tx
           /\ Sent(t, sel, sof).buf = t.buf /\ Sent(t, sel, sof).sel = sel
           /\ Sent(t, sel, sof).ongoing = TRUE
<1>1. Sent(t, sel, sof) \in Tx
  BY DEF Tx, Sent
<1>2. Sent(t, sel, sof).buf = t.buf /\ Sent(t, sel, sof).sel = sel
  BY DEF Tx, Sent
<1>3. Sent(t, sel, sof).ongoing = TRUE
  BY DEF Tx, Sent
<1> QED
  BY <1>1, <1>2, <1>3

LEMMA TurnedFacts ==
    ASSUME NEW t \in Tx, NEW sel \in 0 .. 1
    PROVE  /\ Turned(t, sel) \in Tx
           /\ Turned(t, sel).buf = t.buf /\ Turned(t, sel).sel = sel
           /\ Turned(t, sel).both = TRUE
<1>1. Turned(t, sel) \in Tx
  BY DEF Tx, Turned
<1>2. Turned(t, sel).buf = t.buf /\ Turned(t, sel).sel = sel
  BY DEF Tx, Turned
<1>3. Turned(t, sel).both = TRUE
  BY DEF Tx, Turned
<1> QED
  BY <1>1, <1>2, <1>3

\* udi_cdc_tx_send moves no byte.
LEMMA SendFacts ==
    ASSUME NEW t, NEW now \in Nat, Sound(t)
    PROVE  Sound(Send(t, now)) /\ Contents(Send(t, now)) = Contents(t)
<1> DEFINE n == Len(t.buf[IF t.both THEN Other(t.sel) ELSE t.sel])
           sel == IF t.both THEN t.sel ELSE Other(t.sel)
           sof == IF n # TX_BUFFERS THEN now ELSE 0
<1>1. t \in Tx /\ sel \in 0 .. 1 /\ sof \in Nat
  BY OtherFacts DEF Sound, Tx
<1>2. CASE Send(t, now) = t
  BY <1>2
<1>3. CASE Send(t, now) = Waited(t)
  <2>1. /\ Waited(t) \in Tx /\ Waited(t).buf = t.buf /\ Waited(t).sel = t.sel
        /\ Waited(t).ongoing = t.ongoing /\ Waited(t).both = t.both
    BY <1>1, WaitedFacts
  <2>2. Sound(Waited(t))
    BY <2>1 DEF Sound
  <2>3. Contents(Waited(t)) = Contents(t)
    BY <2>1 DEF Contents
  <2> QED
    BY <1>3, <2>2, <2>3
<1>4. CASE ~t.ongoing /\ Send(t, now) = Sent(t, sel, sof)
  <2>1. Sent(t, sel, sof) \in Tx /\ Sent(t, sel, sof).buf = t.buf
        /\ Sent(t, sel, sof).sel = sel /\ Sent(t, sel, sof).ongoing = TRUE
    <3> HIDE DEF sel, sof
    <3> QED
      BY <1>1, SentFacts
  <2>2. CASE t.both
    BY <1>4, <2>1, <2>2 DEF Sound, Contents
  <2>3. CASE ~t.both
    BY <1>4, <2>1, <2>3, TurnFacts
  <2> QED
    BY <2>2, <2>3
<1> QED
  BY <1>2, <1>3, <1>4 DEF Send, Waited, Sent

\* Nor does udi_cdc_multi_get_free_tx_buffer.
LEMMA GetFreeFacts ==
    ASSUME NEW t, Sound(t)
    PROVE  Sound(GetFree(t)) /\ Contents(GetFree(t)) = Contents(t)
<1>1. CASE GetFree(t) = t
  BY <1>1
<1>2. CASE ~t.ongoing /\ ~t.both /\ GetFree(t) = Turned(t, Other(t.sel))
  <2>1. t \in Tx /\ Other(t.sel) \in 0 .. 1
    BY OtherFacts DEF Sound, Tx
  <2>2. /\ Turned(t, Other(t.sel)) \in Tx /\ Turned(t, Other(t.sel)).buf = t.buf
        /\ Turned(t, Other(t.sel)).sel = Other(t.sel) /\ Turned(t, Other(t.sel)).both = TRUE
    BY <2>1, TurnedFacts
  <2> QED
    BY <1>2, <2>2, TurnFacts
<1> QED
  BY <1>1, <1>2 DEF GetFree, Turned

\* The bytes that a copy of n adds.
Bytes(n) == [k \in 1 .. n |-> count + k]

LEMMA BytesFacts ==
    ASSUME count \in Nat, NEW n \in Nat
    PROVE  Bytes(n) \in Seq(Nat) /\ Len(Bytes(n)) = n /\ (n = 0 => Bytes(n) = <<>>)
<1>1. Bytes(n) \in [1 .. n -> Nat]
  BY DEF Bytes
<1>2. Bytes(n) \in Seq(Nat) /\ Len(Bytes(n)) = n
  BY <1>1
<1> QED
  BY <1>2, EmptySeq

LEMMA WriteFields ==
    ASSUME NEW t \in Tx, NEW n \in Nat, count \in Nat
    PROVE  /\ Write(t, n) \in Tx
           /\ Write(t, n).sel = t.sel
           /\ Write(t, n).ongoing = t.ongoing
           /\ Write(t, n).both = t.both
           /\ Write(t, n).buf = [t.buf EXCEPT ![t.sel] = @ \o Bytes(n)]
<1> DEFINE b == t.buf[t.sel] \o Bytes(n)
<1>1. t.sel \in 0 .. 1 /\ t.buf[t.sel] \in Seq(Nat)
  BY DEF Tx
<1>2. b \in Seq(Nat)
  BY <1>1, BytesFacts, ConcatProperties
<1> DEFINE buf == [t.buf EXCEPT ![t.sel] = b]
<1>3. Write(t, n) = [t EXCEPT !.buf = buf]
  BY DEF Write, Bytes
<1>9. buf \in [0 .. 1 -> Seq(Nat)]
  BY <1>1, <1>2 DEF Tx
<1> HIDE DEF b, buf
<1>4. Write(t, n) \in Tx
  BY <1>3, <1>9 DEF Tx
<1>5. Write(t, n).sel = t.sel
  BY <1>3 DEF Tx
<1>6. Write(t, n).ongoing = t.ongoing
  BY <1>3 DEF Tx
<1>7. Write(t, n).both = t.both
  BY <1>3 DEF Tx
<1>8. Write(t, n).buf = buf
  BY <1>3 DEF Tx
<1> QED
  BY <1>4, <1>5, <1>6, <1>7, <1>8 DEF b, buf

\* The copying part of udi_cdc_multi_write_buf adds its bytes at the end.
LEMMA WriteFacts ==
    ASSUME NEW t, Sound(t), TX_BUFFERS \in Nat, count \in Nat, NEW n \in 0 .. Room(t)
    PROVE  /\ Sound(Write(t, n))
           /\ Contents(Write(t, n)) = Contents(t) \o Bytes(n)
           /\ Contents(t) \in Seq(Nat) /\ Len(Contents(t)) + n <= 2 * TX_BUFFERS
<1> DEFINE o == Other(t.sel)
           u == Write(t, n)
           first == t.buf[o]
           last == t.buf[t.sel]
<1>1. /\ t \in Tx /\ t.sel \in 0 .. 1 /\ o \in 0 .. 1 /\ o # t.sel
      /\ t.buf \in [0 .. 1 -> Seq(Nat)]
      /\ t.buf[t.sel] \in Seq(Nat) /\ t.buf[o] \in Seq(Nat)
  BY OtherFacts DEF Sound, Tx
<1>2. /\ Len(t.buf[t.sel]) \in Nat /\ Len(t.buf[o]) \in Nat
      /\ Len(t.buf[t.sel]) <= TX_BUFFERS /\ Len(t.buf[o]) <= TX_BUFFERS
  BY <1>1, LenProperties DEF Sound
<1>3. n \in Nat /\ Len(t.buf[t.sel]) + n <= TX_BUFFERS
  BY <1>2 DEF Room
<1>4. /\ u \in Tx /\ u.sel = t.sel /\ u.ongoing = t.ongoing /\ u.both = t.both
      /\ u.buf = [t.buf EXCEPT ![t.sel] = @ \o Bytes(n)]
  BY <1>1, <1>3, WriteFields
<1> HIDE DEF u
<1>5. u.buf[o] = t.buf[o] /\ u.buf[t.sel] = t.buf[t.sel] \o Bytes(n)
  BY <1>1, <1>4
<1>6. Bytes(n) \in Seq(Nat) /\ Len(Bytes(n)) = n
  BY <1>3, BytesFacts
<1>7. /\ Len(last \o Bytes(n)) = Len(last) + n
      /\ first \o last \in Seq(Nat) /\ Len(first \o last) = Len(first) + Len(last)
      /\ first \o (last \o Bytes(n)) = (first \o last) \o Bytes(n)
  <2>1. first \in Seq(Nat) /\ last \in Seq(Nat)
    BY <1>1
  <2> HIDE DEF first, last
  <2>2. Len(last \o Bytes(n)) = Len(last) + n
    BY <1>6, <2>1, ConcatProperties
  <2>3. first \o last \in Seq(Nat) /\ Len(first \o last) = Len(first) + Len(last)
    BY <2>1, ConcatProperties
  <2>4. first \o (last \o Bytes(n)) = (first \o last) \o Bytes(n)
    BY <1>6, <2>1, BytesInARow
  <2> QED
    BY <2>2, <2>3, <2>4
<1>8. Sound(u)
  <2>1. \A b \in 0 .. 1 : Len(u.buf[b]) <= TX_BUFFERS
    <3>1. \A b \in 0 .. 1 : b = t.sel \/ b = o
      BY <1>1 DEF Other
    <3> QED
      BY <1>2, <1>3, <1>5, <1>7, <3>1
  <2>2. ~u.ongoing /\ ~u.both => u.buf[Other(u.sel)] = <<>>
    BY <1>4, <1>5 DEF Sound
  <2> QED
    BY <1>4, <2>1, <2>2 DEF Sound
<1>9. Contents(u) = Contents(t) \o Bytes(n)
  BY <1>4, <1>5, <1>7 DEF Contents
<1>10. Contents(t) \in Seq(Nat) /\ Len(Contents(t)) + n <= 2 * TX_BUFFERS
  <2>1. Contents(t) = first \o last
    BY DEF Contents
  <2>2. Len(first) \in Nat /\ Len(last) \in Nat /\ Len(first) <= TX_BUFFERS
        /\ Len(last) + n <= TX_BUFFERS
    BY <1>2, <1>3
  <2> HIDE DEF first, last
  <2> QED
    BY <1>3, <1>7, <2>1, <2>2
<1> QED
  BY <1>8, <1>9, <1>10 DEF u

\* The end of a transfer takes away the buffer that was sent.
Emptied == [tx EXCEPT !.buf[Other(txSel)] = <<>>, !.both = FALSE, !.ongoing = FALSE]

LEMMA EmptiedFacts ==
    ASSUME Sound(tx), TX_BUFFERS \in Nat
    PROVE  /\ Sound(Emptied)
           /\ Contents(Emptied) = txBuf[txSel]
           /\ txSel \in 0 .. 1 /\ Other(txSel) \in 0 .. 1
           /\ txBuf[txSel] \in Seq(Nat) /\ txBuf[Other(txSel)] \in Seq(Nat)
<1> DEFINE o == Other(txSel)
<1>1. /\ txSel \in 0 .. 1 /\ o \in 0 .. 1 /\ o # txSel
      /\ txBuf \in [0 .. 1 -> Seq(Nat)] /\ sofNum \in Nat /\ zlpCounter \in Nat
  BY OtherFacts DEF Sound, Tx, tx
<1>2. /\ txBuf[txSel] \in Seq(Nat) /\ txBuf[o] \in Seq(Nat)
      /\ \A b \in 0 .. 1 : Len(txBuf[b]) <= TX_BUFFERS
  BY <1>1 DEF Sound, tx
<1>3. <<>> \in Seq(Nat) /\ Len(<<>>) = 0
  BY EmptySeq
<1> DEFINE buf == [txBuf EXCEPT ![o] = <<>>]
<1>4. Emptied = [tx EXCEPT !.buf = buf, !.both = FALSE, !.ongoing = FALSE] /\ tx \in Tx
  BY DEF Emptied, tx, Sound
<1>5. /\ buf \in [0 .. 1 -> Seq(Nat)] /\ buf[o] = <<>> /\ buf[txSel] = txBuf[txSel]
      /\ \A b \in 0 .. 1 : Len(buf[b]) <= TX_BUFFERS
  BY <1>1, <1>2, <1>3
<1> HIDE DEF buf
<1>6. Emptied \in Tx
  BY <1>4, <1>5 DEF Tx
<1>7. Emptied.buf = buf /\ Emptied.sel = tx.sel
  BY <1>4 DEF Tx
<1>8. Sound(Emptied)
  BY <1>5, <1>6, <1>7 DEF Sound, tx
<1>9. Contents(Emptied) = txBuf[txSel]
  BY <1>2, <1>5, <1>7, ConcatEmptySeq DEF Contents, tx
<1> QED
  BY <1>1, <1>2, <1>8, <1>9

-----------------------------------------------------------------------------
(* Every step keeps the invariant and is a step of the pipe.               *)

pipe == txBuf[Other(txSel)] \o txBuf[txSel]

LEMMA BecomesFacts ==
    ASSUME NEW t, Sound(t), TxBecomes(t)
    PROVE  Sound(tx)' /\ pipe' = Contents(t)
<1>1. t \in Tx
  BY DEF Sound
<1>2. tx' = [buf |-> t.buf, sel |-> t.sel, ongoing |-> t.ongoing, both |-> t.both,
             sof |-> t.sof, zlp |-> t.zlp]
  BY DEF tx, TxBecomes
<1>3. t = [buf |-> t.buf, sel |-> t.sel, ongoing |-> t.ongoing, both |-> t.both,
           sof |-> t.sof, zlp |-> t.zlp]
  BY <1>1 DEF Tx
<1>4. tx' = t
  BY <1>2, <1>3
<1>5. Sound(tx')
  BY <1>4
<1>6. pipe' = Contents(t)
  BY DEF pipe, Contents, TxBecomes, Other
<1> QED
  BY <1>5, <1>6 DEF Sound

LEMMA PipeIsContents == pipe = Contents(tx)
  BY DEF pipe, Contents, tx

LEMMA SoundReset ==
    ASSUME Sound(tx), TX_BUFFERS \in Nat
    PROVE  Sound(EmptyTx) /\ Contents(EmptyTx) = <<>>
<1>1. zlpCounter \in Nat
  BY DEF Sound, Tx, tx
<1>2. Empty \in [0 .. 1 -> Seq(Nat)] /\ \A b \in 0 .. 1 : Empty[b] = <<>>
  BY EmptySeq DEF Empty
<1>3. EmptyTx \in Tx
  BY <1>1, <1>2 DEF EmptyTx, Tx
<1>4. EmptyTx.buf = Empty /\ EmptyTx.sel = 0 /\ Other(0) = 1
  BY DEF EmptyTx, Other
<1>5. \A b \in 0 .. 1 : Len(Empty[b]) <= TX_BUFFERS
  BY <1>2, EmptySeq
<1>6. Sound(EmptyTx)
  BY <1>2, <1>3, <1>4, <1>5 DEF Sound
<1>7. <<>> \o <<>> = <<>>
  BY EmptySeq, ConcatEmptySeq
<1>8. Empty[1] = <<>> /\ Empty[0] = <<>>
  BY <1>2
<1>9. Contents(EmptyTx) = <<>>
  BY <1>4, <1>7, <1>8 DEF Contents
<1> QED
  BY <1>6, <1>9

LEMMA InitInvariant ==
    ASSUME TransmitAssumption, TransmitInit
    PROVE  TransmitInv /\ pipe = <<>>
<1>1. txBuf \in [0 .. 1 -> Seq(Nat)] /\ \A b \in 0 .. 1 : txBuf[b] = <<>>
  BY EmptySeq DEF TransmitInit, Empty
<1>2. tx \in Tx
  <2>1. txSel \in 0 .. 1 /\ sofNum \in Nat /\ zlpCounter \in Nat
    BY DEF TransmitInit
  <2>2. txOngoing \in BOOLEAN /\ bothToSend \in BOOLEAN
    BY DEF TransmitInit
  <2> QED
    BY <1>1, <2>1, <2>2 DEF tx, Tx
<1>3. Other(txSel) \in 0 .. 1 /\ txSel \in 0 .. 1
  BY OtherFacts DEF TransmitInit
<1>4. \A b \in 0 .. 1 : Len(txBuf[b]) <= TX_BUFFERS
  BY <1>1, EmptySeq DEF TransmitAssumption
<1>5. Sound(tx)
  BY <1>1, <1>2, <1>3, <1>4 DEF Sound, tx
<1>6. pipe = <<>>
  BY <1>1, <1>3, EmptySeq, ConcatEmptySeq DEF pipe
<1> QED
  BY <1>5, <1>6 DEF TransmitInv, TransmitInit

\* A copy of n bytes: nothing, or a step that puts n bytes into the pipe.
LEMMA CopyPuts ==
    ASSUME TransmitAssumption, count \in Nat, out' = out, NEW t, Sound(t), Contents(t) = pipe,
           NEW n \in 0 .. Room(t), pipe' = Contents(Write(t, n)), count' = count + n
    PROVE  Pipe!Put \/ UNCHANGED <<pipe, out, count>>
<1>1. /\ pipe' = pipe \o Bytes(n) /\ pipe \in Seq(Nat) /\ Len(pipe) + n <= 2 * TX_BUFFERS
  BY WriteFacts DEF TransmitAssumption
<1>2. n \in Nat
  OBVIOUS
<1>3. CASE n = 0
  <2>1. Bytes(n) = <<>>
    BY <1>2, <1>3, BytesFacts
  <2>2. pipe' = pipe
    BY <1>1, <2>1, ConcatEmptySeq
  <2> QED
    BY <1>3, <2>2
<1>4. CASE n # 0
  <2>1. n \in 1 .. 2 * TX_BUFFERS - Len(pipe)
    BY <1>1, <1>2, <1>4, LenProperties DEF TransmitAssumption
  <2>2. Bytes(n) = Pipe!Numbered(count + 1, count + n)
    BY <1>2 DEF Bytes, Pipe!Numbered
  <2> QED
    BY <1>1, <2>1, <2>2 DEF Pipe!Put, pipe
<1> QED
  BY <1>3, <1>4

LEMMA RoomIsNat ==
    ASSUME NEW t, Sound(t), TX_BUFFERS \in Nat
    PROVE  Room(t) \in Nat
<1>1. t.sel \in 0 .. 1 /\ t.buf[t.sel] \in Seq(Nat)
  BY DEF Sound, Tx
<1>2. Len(t.buf[t.sel]) \in Nat /\ Len(t.buf[t.sel]) <= TX_BUFFERS
  BY <1>1, LenProperties DEF Sound
<1> QED
  BY <1>2 DEF Room

\* What was sent leaves the pipe, the last byte of it last.
LEMMA SentLeaves ==
    ASSUME NEW sent \in Seq(Nat), NEW rest \in Seq(Nat)
    PROVE  /\ sent = <<>> => sent \o rest = rest
           /\ sent # <<>> =>
                 \E n \in 1 .. Len(sent \o rest) :
                    /\ sent[Len(sent)] = (sent \o rest)[n]
                    /\ rest = SubSeq(sent \o rest, n + 1, Len(sent \o rest))
<1> DEFINE all == sent \o rest
           n == Len(sent)
<1>1. sent = <<>> => all = rest
  BY ConcatEmptySeq
<1>2. /\ n \in Nat /\ Len(rest) \in Nat /\ Len(all) = n + Len(rest) /\ all \in Seq(Nat)
      /\ \A i \in 1 .. n + Len(rest) : all[i] = IF i <= n THEN sent[i] ELSE rest[i - n]
  BY ConcatProperties, LenProperties
<1>3. ASSUME sent # <<>>
      PROVE  n \in 1 .. Len(all) /\ sent[n] = all[n] /\ rest = SubSeq(all, n + 1, Len(all))
  <2>1. n >= 1
    BY <1>2, <1>3, EmptySeq
  <2>2. n \in 1 .. Len(all) /\ sent[n] = all[n]
    BY <1>2, <2>1
  <2>3. \A i \in n + 1 .. Len(all) : all[i] \in Nat
    BY <1>2, ElementOfSeq
  <2> HIDE DEF all
  <2> DEFINE tail == SubSeq(all, n + 1, Len(all))
  <2>4. /\ tail \in Seq(Nat)
        /\ Len(tail) = IF n + 1 <= Len(all) THEN Len(all) - (n + 1) + 1 ELSE 0
        /\ \A i \in 1 .. Len(all) - (n + 1) + 1 : tail[i] = all[n + 1 + i - 1]
    BY <1>2, <2>3, SubSeqProperties
  <2>5. Len(tail) = Len(rest)
    BY <1>2, <2>4
  <2>6. ASSUME NEW i \in 1 .. Len(rest)
        PROVE  tail[i] = rest[i]
    <3>1. n + 1 + i - 1 = n + i /\ n + i \in 1 .. n + Len(rest) /\ ~(n + i <= n) /\ n + i - n = i
      BY <1>2
    <3> DEFINE j == n + i
    <3>2. all[j] = rest[j - n]
      <4>1. j \in 1 .. n + Len(rest) /\ ~(j <= n)
        BY <3>1
      <4> HIDE DEF j
      <4> QED
        BY <1>2, <4>1
    <3>3. i \in 1 .. Len(all) - (n + 1) + 1
      BY <1>2
    <3> QED
      BY <2>4, <3>1, <3>2, <3>3
  <2> HIDE DEF tail
  <2>7. rest = tail
    BY <2>4, <2>5, <2>6, SeqEqual
  <2> QED
    BY <2>2, <2>7 DEF tail
<1> QED
  BY <1>1, <1>3

LEMMA StepInvariant ==
    ASSUME TransmitAssumption, TransmitInv, [TransmitNext]_transmitVars
    PROVE  TransmitInv' /\ [Pipe!PipeNext]_<<pipe, out, count>>
<1> USE DEF TransmitInv
<1>0. TX_BUFFERS \in Nat /\ pipe = Contents(tx)
  BY PipeIsContents DEF TransmitAssumption
<1>1. CASE DataEnable
  <2>1. /\ TxBecomes(Send(EmptyTx, frame))
        /\ UNCHANGED <<frame, pc, size, out, count>>
    BY <1>1 DEF DataEnable
  <2>2. Sound(Send(EmptyTx, frame)) /\ Contents(Send(EmptyTx, frame)) = <<>>
    BY <1>0, SoundReset, SendFacts
  <2>3. Sound(tx)' /\ pipe' = <<>>
    BY <2>1, <2>2, BecomesFacts
  <2>4. Pipe!Discard
    BY <2>1, <2>3 DEF Pipe!Discard, pipe
  <2> QED
    BY <2>1, <2>3, <2>4 DEF Pipe!PipeNext
<1>2. CASE DataDisable \/ (\E n \in MESSAGE_LENGTHS : SendData(n)) \/ UNCHANGED transmitVars
  <2>1. UNCHANGED <<txBuf, txSel, txOngoing, bothToSend, sofNum, zlpCounter, frame, out, count>>
    BY <1>2 DEF DataDisable, SendData, transmitVars, txVars
  <2>2. Sound(tx)' /\ pipe' = pipe
    BY <2>1 DEF Sound, tx, pipe, Other
  <2>3. pc' \in {"idle", "check", "copy"} /\ size' \in Nat
    BY <1>2 DEF DataDisable, SendData, transmitVars, TransmitAssumption
  <2> QED
    BY <2>1, <2>2, <2>3
<1>3. CASE StartOfFrame
  <2>1. /\ frame' = (frame + 1) % FRAMES /\ TxBecomes(Send(tx, frame'))
        /\ UNCHANGED <<pc, size, out, count>>
    BY <1>3 DEF StartOfFrame
  <2>2. frame' \in Nat
    BY <2>1 DEF TransmitAssumption
  <2>3. Sound(Send(tx, frame')) /\ Contents(Send(tx, frame')) = pipe
    BY <1>0, <2>2, SendFacts
  <2>4. Sound(tx)' /\ pipe' = pipe
    BY <2>1, <2>3, BecomesFacts
  <2> QED
    BY <2>1, <2>2, <2>4
<1>4. CASE DataSent
  <2> DEFINE sent == txBuf[Other(txSel)]
  <2>1. /\ out' = IF sent = <<>> THEN out ELSE sent[Len(sent)]
        /\ TxBecomes(Send(Emptied, frame))
        /\ UNCHANGED <<frame, pc, size, count>>
    BY <1>4 DEF DataSent, Emptied
  <2>2. /\ Sound(Emptied) /\ Contents(Emptied) = txBuf[txSel]
        /\ txBuf[txSel] \in Seq(Nat) /\ sent \in Seq(Nat)
    BY <1>0, EmptiedFacts
  <2>3. Sound(Send(Emptied, frame)) /\ Contents(Send(Emptied, frame)) = txBuf[txSel]
    BY <2>2, SendFacts
  <2>4. Sound(tx)' /\ pipe' = txBuf[txSel]
    BY <2>1, <2>3, BecomesFacts
  <2>5. pipe = sent \o txBuf[txSel]
    BY DEF pipe
  <2>6. Pipe!Deliver \/ UNCHANGED <<pipe, out, count>>
    <3>1. CASE sent = <<>>
      <4>1. pipe = txBuf[txSel]
        BY <2>2, <2>5, <3>1, SentLeaves
      <4> QED
        BY <2>1, <2>4, <3>1, <4>1
    <3>2. CASE sent # <<>>
      <4>1. \E n \in 1 .. Len(pipe) : /\ sent[Len(sent)] = pipe[n]
                                     /\ txBuf[txSel] = SubSeq(pipe, n + 1, Len(pipe))
        BY <2>2, <2>5, <3>2, SentLeaves
      <4>2. out' = sent[Len(sent)] /\ count' = count
        BY <2>1, <3>2
      <4>3. \E n \in 1 .. Len(pipe) : out' = pipe[n] /\ pipe' = SubSeq(pipe, n + 1, Len(pipe))
        BY <2>4, <4>1, <4>2
      <4> QED
        BY <4>2, <4>3 DEF Pipe!Deliver, pipe
    <3> QED
      BY <3>1, <3>2
  <2> QED
    BY <2>1, <2>4, <2>6 DEF Pipe!PipeNext
<1>5. CASE CheckRoom
  <2>1. /\ TxBecomes(GetFree(tx)) /\ pc' \in {"idle", "check", "copy"} /\ size' \in Nat
        /\ UNCHANGED <<frame, out, count>>
    BY <1>5 DEF CheckRoom
  <2>2. Sound(tx)' /\ pipe' = pipe
    BY <1>0, <2>1, GetFreeFacts, BecomesFacts
  <2> QED
    BY <2>1, <2>2
<1>6. CASE CopyData
  <2> DEFINE n == IF Room(tx) < size THEN Room(tx) ELSE size
  <2>1. /\ TxBecomes(Write(tx, n)) /\ count' = count + n /\ size' = size - n
        /\ pc' \in {"idle", "check", "copy"} /\ UNCHANGED <<frame, out>>
    BY <1>6 DEF CopyData
  <2>2. Room(tx) \in Nat
    BY <1>0, RoomIsNat
  <2>3. n \in 0 .. Room(tx) /\ size - n \in Nat /\ n \in Nat
    BY <2>2
  <2> HIDE DEF n
  <2>4. Sound(Write(tx, n))
    BY <1>0, <2>3, WriteFacts
  <2>5. Sound(tx)' /\ pipe' = Contents(Write(tx, n))
    BY <2>1, <2>4, BecomesFacts
  <2>6. Pipe!Put \/ UNCHANGED <<pipe, out, count>>
    BY <1>0, <2>1, <2>3, <2>5, CopyPuts
  <2> QED
    BY <2>1, <2>3, <2>5, <2>6 DEF Pipe!PipeNext
<1>7. CASE WaitTimer
  <2> DEFINE t == GetFree(tx)
  <2>1. Sound(t) /\ Contents(t) = pipe
    BY <1>0, GetFreeFacts
  <2>2. UNCHANGED <<frame, pc, size, out>>
    BY <1>7 DEF WaitTimer
  <2>3. CASE Room(t) >= WAIT_LENGTH
    <3>1. TxBecomes(Write(t, WAIT_LENGTH)) /\ count' = count + WAIT_LENGTH
      BY <1>7, <2>3 DEF WaitTimer
    <3>2. WAIT_LENGTH \in 0 .. Room(t) /\ count' \in Nat
      BY <1>0, <2>1, <2>3, <3>1, RoomIsNat DEF TransmitAssumption
    <3> HIDE DEF t
    <3>3. Sound(tx)' /\ pipe' = Contents(Write(t, WAIT_LENGTH))
      BY <1>0, <2>1, <3>1, <3>2, WriteFacts, BecomesFacts
    <3>4. Pipe!Put \/ UNCHANGED <<pipe, out, count>>
      BY <2>1, <2>2, <3>1, <3>2, <3>3, CopyPuts
    <3> QED
      BY <2>2, <3>2, <3>3, <3>4 DEF Pipe!PipeNext
  <2>4. CASE ~(Room(t) >= WAIT_LENGTH)
    <3>1. TxBecomes(t) /\ UNCHANGED count
      BY <1>7, <2>4 DEF WaitTimer
    <3>2. Sound(tx)' /\ pipe' = pipe
      BY <2>1, <3>1, BecomesFacts
    <3> QED
      BY <2>2, <3>1, <3>2
  <2> QED
    BY <2>3, <2>4
<1> QED
  BY <1>1, <1>2, <1>3, <1>4, <1>5, <1>6, <1>7 DEF TransmitNext

-----------------------------------------------------------------------------
(* The theorems.                                                           *)

LEMMA Inductive ==
    ASSUME TransmitAssumption
    PROVE  TransmitSpec => []TransmitInv
<1>1. TransmitInit => TransmitInv
  BY InitInvariant
<1>2. TransmitInv /\ [TransmitNext]_transmitVars => TransmitInv'
  BY StepInvariant
<1> QED
  BY <1>1, <1>2, PTL DEF TransmitSpec

\* Neither buffer is written past its end, and the one that
\* udi_cdc_multi_get_free_tx_buffer turns to is empty, for every size and every
\* interleaving of the writers with frames and transfers.
THEOREM BuffersCorrect ==
    ASSUME TransmitAssumption
    PROVE  TransmitSpec => []BuffersSound
<1>1. TransmitInv => BuffersSound
  BY DEF TransmitInv, Sound, BuffersSound, tx
<1> QED
  BY <1>1, Inductive, PTL

\* The two buffers with their flags implement a pipe of twice their size: bytes
\* leave in the order they were written, none twice, none missing.
THEOREM TransmitImplementsPipe ==
    ASSUME TransmitAssumption
    PROVE  TransmitSpec => IsPipe
<1>1. TransmitInit => Pipe!PipeInit
  BY InitInvariant DEF Pipe!PipeInit, pipe, TransmitInit
<1>2. TransmitInv /\ [TransmitNext]_transmitVars => [Pipe!PipeNext]_<<txBuf[Other(txSel)] \o txBuf[txSel], out, count>>
  BY StepInvariant DEF pipe
<1> QED
  BY <1>1, <1>2, Inductive, PTL DEF TransmitSpec, IsPipe, Pipe!PipeSpec


-----------------------------------------------------------------------------
(* The device's state as a record, as the operators pass it on.            *)

DeviceState ==
    [address : 0 .. 1, config : 0 .. 1, allocated : SUBSET Endpoint, busy : SUBSET Endpoint,
     halted : SUBSET Endpoint, ongoing : SUBSET {"out", "in"}, running : BOOLEAN,
     enabled : SUBSET Interface, underflow : BOOLEAN, detached : BOOLEAN]

\* What is true of the device between two events, whatever the host knows of it.
DeviceSound(d) ==
    /\ d \in DeviceState
    /\ d.busy \subseteq d.allocated
    /\ d.config = 0 => d.allocated = {} /\ d.enabled = {} /\ d.running = FALSE
    /\ d.running => {"out", "in"} \subseteq d.allocated
    /\ d.halted \subseteq asks.halts
    /\ asks.settings = {0} =>
        /\ d.underflow = FALSE
        /\ d.config = 1 => /\ d.running /\ d.allocated = Endpoint /\ d.enabled = Interface
                           /\ asks.halts = {} => "out" \in d.busy
    /\ asks.halts = {} /\ d.running => d.ongoing \subseteq d.busy

HostState ==
    [phase : {"unseen", "default", "addressed", "configured"}, address : 0 .. 1,
     halts : SUBSET Endpoint]

\* What the host knows of the device.
HostKnows ==
    /\ hostSide \in HostState
    /\ hostSide.phase # "unseen" => address = hostSide.address
    /\ hostSide.phase \in {"default", "addressed"} => config = 0
    /\ hostSide.phase \in {"addressed", "configured"} => address = 1
    /\ hostSide.phase = "configured" => config = 1 /\ halted = hostSide.halts

\* The inductive invariant.
DeviceInv == asks \in HOSTS /\ DeviceSound(Device) /\ HostKnows

-----------------------------------------------------------------------------
(* What the operators make of the device.                                  *)

LEMMA EndpointFacts ==
    /\ EndpointsOf(0) = {"comm"} /\ EndpointsOf(1) = {"out", "in"}
    /\ Endpoint = {"comm", "out", "in"} /\ Interface = {0, 1}
    /\ EndpointsOf(0) \cup EndpointsOf(1) = Endpoint
    /\ EndpointsOf(0) \cap EndpointsOf(1) = {}
  BY DEF EndpointsOf, Endpoint, Interface

\* The UDI's part of disabling an interface, and what enabling the data
\* interface leaves.
UdiDisabledFrom(f, i, e) ==
    /\ e \in DeviceState /\ e.address = f.address /\ e.config = f.config
    /\ e.allocated = f.allocated /\ e.busy = f.busy /\ e.halted = f.halted
    /\ e.ongoing = f.ongoing /\ e.enabled = f.enabled \ {i}
    /\ e.running = (IF i = 1 THEN FALSE ELSE f.running)
    /\ e.underflow = (f.underflow \/ i \notin f.enabled)

LEMMA UdiDisableFacts ==
    ASSUME NEW f \in DeviceState, NEW i \in Interface
    PROVE  UdiDisabledFrom(f, i, UdiDisable(f, i))
  BY DEF UdiDisable, UdiDisabledFrom, DeviceState

RunningWith(s, interfaces) == [s EXCEPT !.enabled = interfaces, !.running = TRUE]

LEMMA RunningFacts ==
    ASSUME NEW s \in DeviceState, NEW v \in SUBSET Interface
    PROVE  LET e == RunningWith(s, v) IN
           /\ e \in DeviceState /\ e.address = s.address /\ e.config = s.config
           /\ e.allocated = s.allocated /\ e.busy = s.busy /\ e.halted = s.halted
           /\ e.ongoing = s.ongoing /\ e.running = TRUE /\ e.enabled = v
           /\ e.underflow = s.underflow
  BY DEF DeviceState, RunningWith

\* udc_iface_disable of a configured device, which makes e of d.
DisabledFrom(d, i, e) ==
    /\ e \in DeviceState /\ e.address = d.address /\ e.config = d.config
    /\ e.allocated = d.allocated \ EndpointsOf(i) /\ e.busy = d.busy \ EndpointsOf(i)
    /\ e.halted = d.halted \ EndpointsOf(i) /\ e.ongoing = d.ongoing
    /\ e.running = (IF i = 1 THEN FALSE ELSE d.running)
    /\ e.enabled = d.enabled \ {i} /\ e.underflow = (d.underflow \/ i \notin d.enabled)

LEMMA DisableFacts ==
    ASSUME NEW d \in DeviceState, NEW i \in Interface, d.config # 0
    PROVE  DisabledFrom(d, i, IfaceDisable(d, i))
<1>1. PICK b : b = Abort(d, EndpointsOf(i))
  OBVIOUS
<1>2. b \in DeviceState /\ b = [d EXCEPT !.busy = d.busy \ EndpointsOf(i)]
  BY <1>1 DEF Abort, DeviceState
<1>3. PICK f : f = Free(d, EndpointsOf(i))
  OBVIOUS
<1>4. f = [b EXCEPT !.allocated = b.allocated \ EndpointsOf(i),
                    !.halted = b.halted \ EndpointsOf(i)]
  BY <1>1, <1>3 DEF Free
<1>5. /\ f \in DeviceState /\ f.address = d.address /\ f.config = d.config
      /\ f.allocated = d.allocated \ EndpointsOf(i) /\ f.busy = d.busy \ EndpointsOf(i)
      /\ f.halted = d.halted \ EndpointsOf(i) /\ f.ongoing = d.ongoing /\ f.running = d.running
      /\ f.enabled = d.enabled /\ f.underflow = d.underflow
  BY <1>2, <1>4 DEF DeviceState
<1>6. PICK e : e = UdiDisable(f, i)
  OBVIOUS
<1>7. UdiDisabledFrom(f, i, e)
  BY <1>5, <1>6, UdiDisableFacts
<1>8. IfaceDisable(d, i) = e
  BY <1>3, <1>6 DEF IfaceDisable
<1>9. DisabledFrom(d, i, e)
  BY <1>5, <1>7 DEF DisabledFrom, UdiDisabledFrom
<1> QED
  BY <1>8, <1>9

\* udc_iface_enable of the only setting there is, with the endpoints given
\* back, which makes e of d.
EnabledFrom(d, i, e) ==
    /\ e \in DeviceState /\ e.address = d.address /\ e.config = d.config
    /\ e.allocated = d.allocated \cup EndpointsOf(i)
    /\ e.busy = (IF i = 1 THEN d.busy \cup {"out"} ELSE d.busy)
    /\ e.halted = d.halted \ EndpointsOf(i)
    /\ e.ongoing = (IF i = 1 THEN {"out"} ELSE d.ongoing)
    /\ e.running = (IF i = 1 THEN TRUE ELSE d.running)
    /\ e.enabled = d.enabled \cup {i} /\ e.underflow = d.underflow

LEMMA UdiEnableData ==
    ASSUME NEW f
    PROVE  UdiEnable(f, 1) = LET e == Start([f EXCEPT !.ongoing = {}], "out")
                             IN  IF "out" \in e.busy /\ CanRun(f, "out")
                                 THEN RunningWith(e, e.enabled \cup {1}) ELSE e
  BY DEF UdiEnable, RunningWith

LEMMA EnableFacts ==
    ASSUME NEW d \in DeviceState, NEW i \in Interface, EndpointsOf(i) \cap d.allocated = {},
           d.busy \subseteq d.allocated
    PROVE  EnabledFrom(d, i, IfaceEnable(d, i, 0))
<1>1. PICK f : f = [d EXCEPT !.allocated = @ \cup EndpointsOf(i), !.halted = @ \ EndpointsOf(i)]
  OBVIOUS
<1>2. /\ f \in DeviceState /\ f.address = d.address /\ f.config = d.config
      /\ f.allocated = d.allocated \cup EndpointsOf(i) /\ f.busy = d.busy
      /\ f.halted = d.halted \ EndpointsOf(i) /\ f.ongoing = d.ongoing /\ f.running = d.running
      /\ f.enabled = d.enabled /\ f.underflow = d.underflow
  BY <1>1, EndpointFacts DEF DeviceState
<1>3. IfaceEnable(d, i, 0) = UdiEnable(f, i)
  BY <1>1 DEF IfaceEnable
<1>4. ASSUME i = 0 PROVE EnabledFrom(d, i, UdiEnable(f, i))
  <2>1. PICK e : e = [f EXCEPT !.enabled = f.enabled \cup {0}]
    OBVIOUS
  <2>2. /\ e \in DeviceState /\ e.address = f.address /\ e.config = f.config
        /\ e.allocated = f.allocated /\ e.busy = f.busy /\ e.halted = f.halted
        /\ e.ongoing = f.ongoing /\ e.enabled = f.enabled \cup {0}
        /\ e.running = f.running /\ e.underflow = f.underflow
    BY <1>2, <2>1, EndpointFacts DEF DeviceState
  <2>3. UdiEnable(f, i) = e
    BY <1>4, <2>1 DEF UdiEnable
  <2>4. EnabledFrom(d, i, e)
    BY <1>2, <1>4, <2>2 DEF EnabledFrom
  <2> QED
    BY <2>3, <2>4
<1>5. ASSUME i = 1 PROVE EnabledFrom(d, i, UdiEnable(f, i))
  <2>1. PICK g : g = [f EXCEPT !.ongoing = {}]
    OBVIOUS
  <2>2. PICK h : h = [g EXCEPT !.ongoing = g.ongoing \cup {"out"}]
    OBVIOUS
  <2>3. PICK s : s = [h EXCEPT !.busy = h.busy \cup {"out"}]
    OBVIOUS
  <2>4. /\ g \in DeviceState /\ g.ongoing = {} /\ h.ongoing = {"out"} /\ h.busy = d.busy
        /\ h \in DeviceState /\ h.address = f.address /\ h.config = f.config
        /\ h.allocated = f.allocated /\ h.halted = f.halted /\ h.running = f.running
        /\ h.enabled = f.enabled /\ h.underflow = f.underflow
    BY <1>2, <2>1, <2>2 DEF DeviceState
  <2>5. "out" \in f.allocated /\ "out" \notin f.halted /\ "out" \notin d.busy
    BY <1>2, <1>5, EndpointFacts
  <2>6. CanRun(f, "out") /\ CanRun(h, "out")
    BY <1>2, <2>4, <2>5 DEF CanRun
  <2>7. Start(g, "out") = s
    <3>1. Start(g, "out") = Run(h, "out")
      BY <2>2, <2>4 DEF Start
    <3> QED
      BY <2>3, <2>6, <3>1 DEF Run
  <2>8. /\ s \in DeviceState /\ s.address = d.address /\ s.config = d.config
        /\ s.allocated = f.allocated /\ s.busy = d.busy \cup {"out"} /\ s.halted = f.halted
        /\ s.ongoing = {"out"} /\ s.running = f.running /\ s.enabled = f.enabled
        /\ s.underflow = f.underflow /\ s.enabled \cup {1} \in SUBSET Interface
    BY <1>2, <2>3, <2>4, EndpointFacts DEF DeviceState
  <2>9. PICK e : e = RunningWith(s, s.enabled \cup {1})
    OBVIOUS
  <2>10. UdiEnable(f, 1) = e
    BY <2>1, <2>6, <2>7, <2>8, <2>9, UdiEnableData
  <2>11. /\ e \in DeviceState /\ e.address = s.address /\ e.config = s.config
         /\ e.allocated = s.allocated /\ e.busy = s.busy /\ e.halted = s.halted
         /\ e.ongoing = s.ongoing /\ e.running = TRUE /\ e.enabled = s.enabled \cup {1}
         /\ e.underflow = s.underflow
    BY <2>8, <2>9, RunningFacts, ZenonT(20)
  <2>12. EnabledFrom(d, 1, e)
    BY <1>2, <1>5, <2>8, <2>11 DEF EnabledFrom
  <2> QED
    BY <1>5, <2>10, <2>12
<1> QED
  BY <1>3, <1>4, <1>5, EndpointFacts

\* udc_reset of a device whose transfers run on allocated endpoints, which
\* makes e of d.
ResetFrom(d, e) ==
    /\ e \in DeviceState /\ e.address = d.address /\ e.config = 0 /\ e.allocated = {}
    /\ e.busy = {} /\ e.halted \subseteq d.halted /\ e.ongoing = d.ongoing /\ e.running = FALSE
    /\ e.enabled = {}
    /\ d.config = 0 \/ d.enabled = Interface => e.underflow = d.underflow

Resettable(d) ==
    /\ d \in DeviceState /\ d.busy \subseteq d.allocated
    /\ d.config = 0 => d.allocated = {} /\ d.enabled = {} /\ d.running = FALSE

LEMMA ResetFacts ==
    ASSUME NEW d, Resettable(d)
    PROVE  ResetFrom(d, UdcReset(d))
<1>1. d \in DeviceState
  BY DEF Resettable
<1>2. PICK f : f = IfaceDisable(d, 0)
  OBVIOUS
<1>3. PICK g : g = IfaceDisable(f, 1)
  OBVIOUS
<1>4. PICK e : e = [g EXCEPT !.config = 0]
  OBVIOUS
<1>5. UdcReset(d) = e
  BY <1>2, <1>3, <1>4 DEF UdcReset
<1>6. ASSUME d.config = 0 PROVE ResetFrom(d, e)
  <2>1. g = d
    BY <1>2, <1>3, <1>6 DEF IfaceDisable
  <2>2. /\ e \in DeviceState /\ e.address = d.address /\ e.config = 0
        /\ e.allocated = d.allocated /\ e.busy = d.busy /\ e.halted = d.halted
        /\ e.ongoing = d.ongoing /\ e.running = d.running /\ e.enabled = d.enabled
        /\ e.underflow = d.underflow
    BY <1>1, <1>4, <2>1 DEF DeviceState
  <2> QED
    BY <1>6, <2>2 DEF ResetFrom, Resettable
<1>7. ASSUME d.config # 0 PROVE ResetFrom(d, e)
  <2>1. DisabledFrom(d, 0, f)
    BY <1>1, <1>2, <1>7, EndpointFacts, DisableFacts
  <2>2. f \in DeviceState /\ f.config # 0
    BY <1>7, <2>1 DEF DisabledFrom
  <2>3. DisabledFrom(f, 1, g)
    BY <1>3, <2>2, EndpointFacts, DisableFacts
  <2>4. g \in DeviceState
    BY <2>3 DEF DisabledFrom
  <2>5. /\ e \in DeviceState /\ e.address = g.address /\ e.config = 0
        /\ e.allocated = g.allocated /\ e.busy = g.busy /\ e.halted = g.halted
        /\ e.ongoing = g.ongoing /\ e.running = g.running /\ e.enabled = g.enabled
        /\ e.underflow = g.underflow
    BY <1>4, <2>4 DEF DeviceState
  <2>6. g.allocated = {} /\ g.busy = {} /\ g.enabled = {}
    BY <1>1, <2>1, <2>3, EndpointFacts DEF DisabledFrom, DeviceState
  <2>7. g.running = FALSE
    BY <2>3 DEF DisabledFrom
  <2>8. d.enabled = Interface => g.underflow = d.underflow
    BY <1>1, <2>1, <2>3, EndpointFacts DEF DisabledFrom, DeviceState
  <2>9. g.address = d.address /\ g.halted \subseteq d.halted /\ g.ongoing = d.ongoing
    BY <2>1, <2>3 DEF DisabledFrom
  <2> QED
    BY <1>7, <2>5, <2>6, <2>7, <2>8, <2>9 DEF ResetFrom
<1> QED
  BY <1>5, <1>6, <1>7

\* SET_CONFIGURATION of the only configuration, which makes e of d.
ConfiguredFrom(d, e) ==
    /\ e \in DeviceState /\ e.address = d.address /\ e.config = 1 /\ e.allocated = Endpoint
    /\ e.busy = {"out"} /\ e.halted = {} /\ e.ongoing = {"out"} /\ e.running = TRUE
    /\ e.enabled = Interface
    /\ d.config = 0 \/ d.enabled = Interface => e.underflow = d.underflow

LEMMA ConfiguredFacts ==
    ASSUME NEW d, Resettable(d)
    PROVE  ConfiguredFrom(d, Configured(d, 1))
<1>1. PICK r : r = UdcReset(d)
  OBVIOUS
<1>2. ResetFrom(d, r)
  BY <1>1, ResetFacts
<1>3. r \in DeviceState
  BY <1>2 DEF ResetFrom
<1>4. PICK e : e = [r EXCEPT !.config = 1]
  OBVIOUS
<1>5. /\ e \in DeviceState /\ e.address = r.address /\ e.config = 1
      /\ e.allocated = r.allocated /\ e.busy = r.busy /\ e.halted = r.halted
      /\ e.ongoing = r.ongoing /\ e.running = r.running /\ e.enabled = r.enabled
      /\ e.underflow = r.underflow
  BY <1>3, <1>4 DEF DeviceState
<1>6. PICK f : f = IfaceEnable(e, 0, 0)
  OBVIOUS
<1>7. EnabledFrom(e, 0, f)
  <2>1. e \in DeviceState /\ e.allocated = {} /\ e.busy = {}
    BY <1>2, <1>5 DEF ResetFrom
  <2> QED
    BY <1>6, <2>1, EndpointFacts, EnableFacts
<1>8. PICK h : h = IfaceEnable(f, 1, 0)
  OBVIOUS
<1>9. EnabledFrom(f, 1, h)
  <2>1. f \in DeviceState /\ f.allocated = {"comm"} /\ f.busy = {}
    BY <1>2, <1>5, <1>7, EndpointFacts DEF ResetFrom, EnabledFrom
  <2> QED
    BY <1>8, <2>1, EndpointFacts, EnableFacts
<1>10. Configured(d, 1) = h
  <2>1. 0 \in f.enabled
    BY <1>7 DEF EnabledFrom
  <2> QED
    BY <1>1, <1>4, <1>6, <1>8, <2>1 DEF Configured
<1>11. /\ h \in DeviceState /\ h.address = d.address /\ h.config = 1
       /\ h.allocated = Endpoint /\ h.busy = {"out"} /\ h.halted = {} /\ h.ongoing = {"out"}
       /\ h.enabled = Interface
  <2>1. d \in DeviceState
    BY DEF Resettable
  <2> QED
    BY <1>2, <1>5, <1>7, <1>9, <2>1, EndpointFacts DEF ResetFrom, EnabledFrom, DeviceState
<1>12. h.running = TRUE
  BY <1>9 DEF EnabledFrom
<1>13. h.underflow = r.underflow
  BY <1>5, <1>7, <1>9 DEF EnabledFrom
<1> QED
  BY <1>2, <1>10, <1>11, <1>12, <1>13 DEF ConfiguredFrom, ResetFrom

-----------------------------------------------------------------------------
(* The invariant is kept, action by action.                                *)

LEMMA DeviceIsSound ==
    ASSUME DeviceSound(Device)
    PROVE  /\ Device \in DeviceState /\ Resettable(Device)
           /\ Device.address = address /\ Device.config = config /\ Device.allocated = allocated
           /\ Device.busy = busy /\ Device.halted = halted /\ Device.ongoing = ongoing
           /\ Device.running = running /\ Device.enabled = enabled
           /\ Device.underflow = underflow
<1>1. Device \in DeviceState /\ Resettable(Device)
  BY DEF DeviceSound, Resettable
<1> QED
  BY <1>1 DEF Device

\* The device is what the operators made of it.
LEMMA SoundStep ==
    ASSUME NEW d, DeviceSound(d), DeviceBecomes(d), UNCHANGED asks
    PROVE  DeviceSound(Device)'
<1>1. PICK e : e = Device'
  OBVIOUS
<1>2. /\ e \in DeviceState /\ e.address = d.address /\ e.config = d.config
      /\ e.allocated = d.allocated /\ e.busy = d.busy /\ e.halted = d.halted
      /\ e.ongoing = d.ongoing /\ e.running = d.running /\ e.enabled = d.enabled
      /\ e.underflow = d.underflow
  <2>1. d \in DeviceState
    BY DEF DeviceSound
  <2> QED
    BY <1>1, <2>1 DEF Device, DeviceBecomes, DeviceState
<1>3. DeviceSound(e)
  BY <1>2 DEF DeviceSound
<1> QED
  BY <1>1, <1>3 DEF DeviceSound

LEMMA ResetSound ==
    ASSUME NEW d, NEW e, Resettable(d), ResetFrom(d, e), d.halted \subseteq asks.halts,
           asks.settings = {0} => d.underflow = FALSE /\ (d.config = 1 => d.enabled = Interface)
    PROVE  DeviceSound(e)
<1>1. d.config \in {0, 1}
  BY DEF Resettable, DeviceState
<1>2. asks.settings = {0} => e.underflow = FALSE
  BY <1>1 DEF ResetFrom
<1> QED
  BY <1>2 DEF ResetFrom, DeviceSound

LEMMA ConfiguredSound ==
    ASSUME NEW d, NEW e, Resettable(d), ConfiguredFrom(d, e),
           asks.settings = {0} => d.underflow = FALSE /\ (d.config = 1 => d.enabled = Interface)
    PROVE  DeviceSound(e)
<1>1. d.config \in {0, 1}
  BY DEF Resettable, DeviceState
<1>2. asks.settings = {0} => e.underflow = FALSE
  BY <1>1 DEF ConfiguredFrom
<1>3. e.config = 1 /\ e.running /\ e.halted = {}
  BY DEF ConfiguredFrom
<1> QED
  BY <1>2, <1>3, EndpointFacts DEF ConfiguredFrom, DeviceSound

HostFrom(p, a, halts, h) == h \in HostState /\ h.phase = p /\ h.address = a /\ h.halts = halts

LEMMA HostFacts ==
    ASSUME NEW h \in HostState, NEW p \in {"unseen", "default", "addressed", "configured"},
           NEW a \in 0 .. 1, NEW halts \in SUBSET Endpoint
    PROVE  HostFrom(p, a, halts, [h EXCEPT !.phase = p, !.address = a, !.halts = halts])
  BY DEF HostState, HostFrom

LEMMA AddressFacts ==
    ASSUME NEW h \in HostState, NEW p \in {"unseen", "default", "addressed", "configured"},
           NEW a \in 0 .. 1
    PROVE  HostFrom(p, a, h.halts, [h EXCEPT !.phase = p, !.address = a])
  BY DEF HostState, HostFrom

\* What the host knows after it may have noticed that the device was gone.
LEMMA NoticeFacts ==
    ASSUME NEW d, NEW phase, NEW halts, HostKnows, Notices(d, phase, halts),
           phase \in {"default", "addressed", "configured"}, halts \in SUBSET Endpoint,
           phase = "default" => address' = 0,
           phase # "default" => address' = address /\ address = 1 /\ hostSide.address = 1,
           phase # "configured" => config' = 0,
           phase = "configured" => config' = 1 /\ halted' = halts
    PROVE  HostKnows'
<1>1. PICK p \in {"unseen", phase}, a \in {0, hostSide.address} :
          /\ hostSide' = [hostSide EXCEPT !.phase = p, !.address = a, !.halts = halts]
          /\ a = IF phase = "default" THEN 0 ELSE hostSide.address
  <2>1. PICK noticed \in BOOLEAN :
            hostSide' = [hostSide EXCEPT !.phase = IF noticed THEN "unseen" ELSE phase,
                                         !.address = IF phase = "default" THEN 0 ELSE @,
                                         !.halts = halts]
    BY DEF Notices
  <2>2. PICK p : p = IF noticed THEN "unseen" ELSE phase
    OBVIOUS
  <2>3. PICK a : a = IF phase = "default" THEN 0 ELSE hostSide.address
    OBVIOUS
  <2>4. hostSide' = [hostSide EXCEPT !.phase = p, !.address = a, !.halts = halts]
    BY <2>1, <2>2, <2>3, Zenon
  <2> QED
    BY <2>2, <2>3, <2>4
<1>2. hostSide \in HostState
  BY DEF HostKnows
<1>3. a \in 0 .. 1 /\ p \in {"unseen", "default", "addressed", "configured"}
  BY <1>1, <1>2 DEF HostState
<1>4. HostFrom(p, a, halts, hostSide')
  BY <1>1, <1>2, <1>3, HostFacts
<1> QED
  BY <1>1, <1>4 DEF HostKnows, HostFrom

LEMMA BusResetKept ==
    ASSUME DeviceInv, BusReset, UNCHANGED asks
    PROVE  DeviceInv'
<1>1. DeviceSound(Device)
  BY DEF DeviceInv
<1>2. PICK b : b = Abort(Device, Endpoint)
  OBVIOUS
<1>3. /\ b \in DeviceState /\ b.address = address /\ b.config = config
      /\ b.allocated = allocated /\ b.busy = busy \ Endpoint /\ b.halted = halted
      /\ b.ongoing = ongoing /\ b.running = running /\ b.enabled = enabled
      /\ b.underflow = underflow
  <2>1. b = [Device EXCEPT !.busy = Device.busy \ Endpoint]
    BY <1>2 DEF Abort
  <2>2. Device \in DeviceState
    BY <1>1, DeviceIsSound
  <2>3. /\ b \in DeviceState /\ b.address = Device.address /\ b.config = Device.config
        /\ b.allocated = Device.allocated /\ b.busy = Device.busy \ Endpoint
        /\ b.halted = Device.halted /\ b.ongoing = Device.ongoing
        /\ b.running = Device.running /\ b.enabled = Device.enabled
        /\ b.underflow = Device.underflow
    BY <2>1, <2>2 DEF DeviceState
  <2> QED
    BY <1>1, <2>3, DeviceIsSound
<1>4. Resettable(b)
  BY <1>1, <1>3, DeviceIsSound DEF Resettable
<1>5. PICK r : r = UdcReset(b)
  OBVIOUS
<1>6. ResetFrom(b, r)
  BY <1>4, <1>5, ResetFacts
<1>7. PICK d : d = [r EXCEPT !.address = 0]
  OBVIOUS
<1>8. /\ d \in DeviceState /\ d.address = 0 /\ d.config = r.config
      /\ d.allocated = r.allocated /\ d.busy = r.busy /\ d.halted = r.halted
      /\ d.ongoing = r.ongoing /\ d.running = r.running /\ d.enabled = r.enabled
      /\ d.underflow = r.underflow
  <2>1. r \in DeviceState
    BY <1>6 DEF ResetFrom
  <2> QED
    BY <1>7, <2>1 DEF DeviceState
<1>9. DeviceBecomes(d) /\ Notices(d, "default", {})
  BY <1>2, <1>5, <1>7 DEF BusReset
<1>10. DeviceSound(d)
  <2>1. halted \subseteq asks.halts
    BY <1>1, DeviceIsSound DEF DeviceSound
  <2>2. asks.settings = {0} => underflow = FALSE /\ (config = 1 => enabled = Interface)
    BY <1>1, DeviceIsSound DEF DeviceSound
  <2>3. DeviceSound(r)
    BY <1>3, <1>4, <1>6, <2>1, <2>2, ResetSound
  <2> QED
    BY <1>6, <1>8, <2>3 DEF DeviceSound, ResetFrom
<1>11. DeviceSound(Device)'
  BY <1>9, <1>10, SoundStep
<1>12. HostKnows'
  <2>1. address' = 0 /\ config' = 0
    BY <1>6, <1>8, <1>9 DEF DeviceBecomes, ResetFrom
  <2> QED
    BY <1>9, <2>1, NoticeFacts DEF DeviceInv
<1> QED
  BY <1>11, <1>12 DEF DeviceInv

LEMMA SetConfigurationKept ==
    ASSUME DeviceInv, NEW number \in 0 .. 2, SetConfiguration(number), UNCHANGED asks
    PROVE  DeviceInv'
<1>1. DeviceSound(Device) /\ Resettable(Device) /\ Device \in DeviceState
  BY DeviceIsSound DEF DeviceInv
<1>2. address = 1 /\ hostSide.address = 1
  BY DEF DeviceInv, HostKnows, SetConfiguration
<1>3. asks.settings = {0} =>
        Device.underflow = FALSE /\ (Device.config = 1 => Device.enabled = Interface)
  BY <1>1 DEF DeviceSound
<1>4. CASE number = 2
  <2>1. UNCHANGED <<address, config, allocated, busy, halted, ongoing, running, enabled,
                    underflow, hostSide>>
    BY <1>4 DEF SetConfiguration
  <2> QED
    BY <2>1 DEF DeviceInv, DeviceSound, HostKnows, Device
<1>5. CASE number = 0
  <2>1. PICK r : r = UdcReset(Device)
    OBVIOUS
  <2>2. ResetFrom(Device, r)
    BY <1>1, <2>1, ResetFacts
  <2>3. PICK d : d = [r EXCEPT !.config = 0]
    OBVIOUS
  <2>4. d = r
    <3>1. r \in DeviceState /\ r.config = 0
      BY <2>2 DEF ResetFrom
    <3> QED
      BY <2>3, <3>1 DEF DeviceState
  <2>5. Configured(Device, 0) = d
    BY <2>1, <2>3 DEF Configured
  <2>6. DeviceBecomes(d) /\ Notices(d, "addressed", {})
    BY <1>2, <1>5, <2>5 DEF SetConfiguration
  <2>7. DeviceSound(d)
    <3>1. Device.halted \subseteq asks.halts
      BY <1>1 DEF DeviceSound
    <3> QED
      BY <1>1, <1>3, <2>2, <2>4, <3>1, ResetSound
  <2>8. DeviceSound(Device)'
    BY <2>6, <2>7, SoundStep
  <2>9. address' = address /\ config' = 0
    BY <1>1, <2>2, <2>4, <2>6, DeviceIsSound DEF DeviceBecomes, ResetFrom
  <2>10. HostKnows'
    BY <1>2, <2>6, <2>9, NoticeFacts DEF DeviceInv
  <2> QED
    BY <2>8, <2>10 DEF DeviceInv
<1>6. CASE number = 1
  <2>1. PICK d : d = Configured(Device, 1)
    OBVIOUS
  <2>2. ConfiguredFrom(Device, d)
    BY <1>1, <2>1, ConfiguredFacts
  <2>3. Whole(d)
    BY <2>2 DEF ConfiguredFrom, Whole
  <2>4. DeviceBecomes(d) /\ Notices(d, "configured", {})
    BY <1>2, <1>6, <2>1, <2>3 DEF SetConfiguration
  <2>5. DeviceSound(d)
    BY <1>1, <1>3, <2>2, ConfiguredSound
  <2>6. DeviceSound(Device)'
    BY <2>4, <2>5, SoundStep
  <2>7. address' = address /\ config' = 1 /\ halted' = {}
    BY <1>1, <2>2, <2>4, DeviceIsSound DEF DeviceBecomes, ConfiguredFrom
  <2>8. HostKnows'
    BY <1>2, <2>4, <2>7, NoticeFacts DEF DeviceInv
  <2> QED
    BY <2>6, <2>8 DEF DeviceInv
<1> QED
  BY <1>4, <1>5, <1>6

LEMMA SetInterfaceKept ==
    ASSUME DeviceInv, NEW i \in Interface, NEW setting \in asks.settings,
           SetInterface(i, setting), UNCHANGED asks
    PROVE  DeviceInv'
<1>1. DeviceSound(Device) /\ Resettable(Device) /\ Device \in DeviceState
  BY DeviceIsSound DEF DeviceInv
<1>2. /\ hostSide.phase = "configured" /\ address = 1 /\ hostSide.address = 1 /\ config = 1
      /\ halted = hostSide.halts /\ halted \in SUBSET Endpoint
  BY DEF DeviceInv, HostKnows, HostState, SetInterface
<1>3. PICK b : b = IfaceDisable(Device, i)
  OBVIOUS
<1>4. DisabledFrom(Device, i, b)
  BY <1>1, <1>2, <1>3, DisableFacts, DeviceIsSound, SMTT(20)
<1>5. b \in DeviceState /\ EndpointsOf(i) \cap b.allocated = {} /\ b.busy \subseteq b.allocated
  BY <1>1, <1>4 DEF DisabledFrom, DeviceSound
<1>6. PICK d : d = IfaceEnable(b, i, setting)
  OBVIOUS
<1>7. DeviceBecomes(d)
  BY <1>3, <1>6 DEF SetInterface
<1>8. CASE setting = 0
  <2>1. EnabledFrom(b, i, d)
    BY <1>5, <1>6, <1>8, EnableFacts
  <2>2. Notices(d, "configured", hostSide.halts \ EndpointsOf(i))
    BY <1>3, <1>6, <1>8 DEF SetInterface
  <2>3. /\ d \in DeviceState /\ d.address = Device.address /\ d.config = Device.config
        /\ d.allocated = Device.allocated \cup EndpointsOf(i)
        /\ d.busy = (Device.busy \ EndpointsOf(i)) \cup (IF i = 1 THEN {"out"} ELSE {})
        /\ d.halted = Device.halted \ EndpointsOf(i)
        /\ d.ongoing = (IF i = 1 THEN {"out"} ELSE Device.ongoing)
        /\ d.enabled = Device.enabled \cup {i}
    BY <1>1, <1>4, <2>1, EndpointFacts DEF DisabledFrom, EnabledFrom, DeviceState
  <2>4. d.running = (IF i = 1 THEN TRUE ELSE Device.running)
    BY <1>4, <2>1 DEF DisabledFrom, EnabledFrom
  <2>5. i \in Device.enabled => d.underflow = Device.underflow
    <3>1. d.underflow = b.underflow
      BY <2>1 DEF EnabledFrom
    <3>2. b.underflow = (Device.underflow \/ i \notin Device.enabled)
      BY <1>4 DEF DisabledFrom
    <3>3. Device.underflow \in BOOLEAN
      BY <1>1 DEF DeviceState
    <3> QED
      BY <3>1, <3>2, <3>3
  <2>6. DeviceSound(d)
    <3>1. d.busy \subseteq d.allocated /\ d.config = 1 /\ d.halted \subseteq asks.halts
      BY <1>1, <1>2, <2>3, DeviceIsSound, EndpointFacts DEF DeviceSound
    <3>2. d.running => {"out", "in"} \subseteq d.allocated
      BY <1>1, <2>3, <2>4, EndpointFacts DEF DeviceSound
    <3>3. ASSUME asks.settings = {0}
          PROVE  /\ d.underflow = FALSE /\ d.running /\ d.allocated = Endpoint
                 /\ d.enabled = Interface
                 /\ asks.halts = {} => "out" \in d.busy
      <4>1. /\ Device.underflow = FALSE /\ Device.running /\ Device.allocated = Endpoint
            /\ Device.enabled = Interface
            /\ asks.halts = {} => "out" \in Device.busy
        BY <1>1, <1>2, <3>3, DeviceIsSound DEF DeviceSound
      <4>2. d.allocated = Endpoint /\ d.enabled = Interface
        BY <2>3, <4>1, EndpointFacts, SMTT(20)
      <4>3. asks.halts = {} => "out" \in d.busy
        BY <2>3, <4>1, EndpointFacts
      <4>4. d.underflow = FALSE
        BY <2>5, <4>1
      <4>5. d.running = TRUE
        <5>1. Device.running \in BOOLEAN
          BY <1>1 DEF DeviceState
        <5> QED
          BY <2>4, <4>1, <5>1
      <4> QED
        BY <4>2, <4>3, <4>4, <4>5
    <3>4. ASSUME asks.halts = {}, d.running PROVE d.ongoing \subseteq d.busy
      <4>1. CASE i = 1
        BY <2>3, <4>1
      <4>2. CASE i = 0
        <5>1. Device.ongoing \subseteq Device.busy
          BY <1>1, <2>4, <3>4, <4>2 DEF DeviceSound
        <5>2. Device.ongoing \subseteq {"out", "in"}
          BY <1>1 DEF DeviceState
        <5> QED
          BY <2>3, <4>2, <5>1, <5>2, EndpointFacts
      <4> QED
        BY <4>1, <4>2, EndpointFacts
    <3>5. d \in DeviceState
      BY <2>3
    <3>6. d.config # 0
      BY <3>1
    <3> QED
      BY <3>1, <3>2, <3>3, <3>4, <3>5, <3>6, Zenon DEF DeviceSound
  <2>7. DeviceSound(Device)'
    BY <1>7, <2>6, SoundStep
  <2>8. address' = address /\ config' = 1 /\ halted' = halted \ EndpointsOf(i)
    BY <1>1, <1>2, <1>7, <2>3, DeviceIsSound DEF DeviceBecomes
  <2>9. HostKnows'
    BY <1>2, <2>2, <2>8, NoticeFacts DEF DeviceInv
  <2> QED
    BY <2>7, <2>9 DEF DeviceInv
<1>9. CASE setting # 0
  <2>1. d = b
    BY <1>6, <1>9 DEF IfaceEnable
  <2>2. Notices(d, "configured", hostSide.halts \ EndpointsOf(i))
    BY <1>3, <1>6, <1>9 DEF SetInterface
  <2>3. asks.settings # {0}
    BY <1>9
  <2>4. DeviceSound(d)
    <3>1. d.config = 1 /\ d.halted \subseteq asks.halts
      BY <1>1, <1>2, <1>4, <2>1, DeviceIsSound DEF DeviceSound, DisabledFrom
    <3>2. ASSUME d.running PROVE i = 0 /\ Device.running
      BY <1>4, <2>1, <3>2, EndpointFacts DEF DisabledFrom
    <3>3. d.running => {"out", "in"} \subseteq d.allocated
      BY <1>1, <1>4, <2>1, <3>2, EndpointFacts DEF DeviceSound, DisabledFrom
    <3>4. ASSUME asks.halts = {}, d.running PROVE d.ongoing \subseteq d.busy
      <4>1. Device.ongoing \subseteq Device.busy /\ i = 0
        BY <1>1, <3>2, <3>4 DEF DeviceSound
      <4>2. Device.ongoing \subseteq {"out", "in"}
        BY <1>1 DEF DeviceState
      <4> QED
        BY <1>4, <2>1, <4>1, <4>2, EndpointFacts DEF DisabledFrom
    <3> QED
      BY <1>5, <2>1, <2>3, <3>1, <3>3, <3>4 DEF DeviceSound
  <2>5. DeviceSound(Device)'
    BY <1>7, <2>4, SoundStep
  <2>6. address' = address /\ config' = 1 /\ halted' = halted \ EndpointsOf(i)
    BY <1>1, <1>2, <1>4, <1>7, <2>1, DeviceIsSound DEF DeviceBecomes, DisabledFrom
  <2>7. HostKnows'
    BY <1>2, <2>2, <2>6, NoticeFacts DEF DeviceInv
  <2> QED
    BY <2>5, <2>7 DEF DeviceInv
<1> QED
  BY <1>8, <1>9

LEMMA HaltsKept ==
    ASSUME DeviceAssumption, DeviceInv, NEW ep \in asks.halts, SetHalt(ep) \/ ClearHalt(ep),
           UNCHANGED asks
    PROVE  DeviceInv'
<1>1. DeviceSound(Device) /\ Device \in DeviceState /\ hostSide \in HostState /\ ep \in Endpoint
  BY DeviceIsSound DEF DeviceInv, HostKnows, DeviceAssumption
<1>2. /\ hostSide.phase = "configured" /\ address = 1 /\ hostSide.address = 1 /\ config = 1
      /\ halted = hostSide.halts /\ halted \in SUBSET Endpoint
  BY DEF DeviceInv, HostKnows, HostState, SetHalt, ClearHalt
<1>3. ASSUME NEW d \in DeviceState, NEW halts \in SUBSET Endpoint,
             d.address = Device.address, d.config = Device.config,
             d.allocated = Device.allocated, d.busy \subseteq Device.busy,
             d.halted = halts, halts \subseteq asks.halts,
             d.ongoing = Device.ongoing, d.running = Device.running,
             d.enabled = Device.enabled, d.underflow = Device.underflow, DeviceBecomes(d),
             hostSide' = [hostSide EXCEPT !.halts = halts]
      PROVE  DeviceInv'
  <2>1. DeviceSound(d)
    <3>1. asks.halts # {}
      OBVIOUS
    <3> QED
      BY <1>1, <1>3, <3>1 DEF DeviceSound
  <2>2. DeviceSound(Device)'
    BY <1>3, <2>1, SoundStep
  <2>3. hostSide' \in HostState /\ hostSide'.phase = "configured" /\ hostSide'.address = 1
        /\ hostSide'.halts = halts
    BY <1>1, <1>2, <1>3 DEF HostState
  <2>4. address' = 1 /\ config' = 1 /\ halted' = halts
    BY <1>1, <1>2, <1>3, DeviceIsSound DEF DeviceBecomes
  <2>5. HostKnows'
    BY <2>3, <2>4 DEF HostKnows
  <2> QED
    BY <2>2, <2>5 DEF DeviceInv
<1>4. CASE SetHalt(ep)
  <2>1. PICK b : b = Abort(Device, {ep})
    OBVIOUS
  <2>2. b = [Device EXCEPT !.busy = Device.busy \ {ep}]
    BY <2>1 DEF Abort
  <2>3. /\ b \in DeviceState /\ b.address = Device.address /\ b.config = Device.config
        /\ b.allocated = Device.allocated /\ b.busy = Device.busy \ {ep}
        /\ b.halted = Device.halted /\ b.ongoing = Device.ongoing
        /\ b.running = Device.running /\ b.enabled = Device.enabled
        /\ b.underflow = Device.underflow
    BY <1>1, <2>2 DEF DeviceState
  <2>4. PICK d : d = [b EXCEPT !.halted = b.halted \cup {ep}]
    OBVIOUS
  <2>5. b.halted \cup {ep} \in SUBSET Endpoint /\ b \in DeviceState
    BY <1>1, <2>3 DEF DeviceState
  <2>6. /\ d \in DeviceState /\ d.address = b.address /\ d.config = b.config
        /\ d.allocated = b.allocated /\ d.busy = b.busy
        /\ d.halted = b.halted \cup {ep} /\ d.ongoing = b.ongoing
        /\ d.running = b.running /\ d.enabled = b.enabled /\ d.underflow = b.underflow
    BY <2>4, <2>5 DEF DeviceState
  <2>7. DeviceBecomes(d)
    BY <1>4, <2>1, <2>4 DEF SetHalt
  <2>8. PICK halts : halts = halted \cup {ep}
    OBVIOUS
  <2>9. /\ hostSide' = [hostSide EXCEPT !.halts = halts] /\ d.halted = halts
        /\ halts \in SUBSET Endpoint /\ halts \subseteq asks.halts
    <3>1. halted \subseteq asks.halts /\ Device.halted = halted
      BY <1>1, DeviceIsSound DEF DeviceSound
    <3>2. hostSide' = [hostSide EXCEPT !.halts = halts]
      BY <1>2, <1>4, <2>8 DEF SetHalt
    <3> QED
      BY <1>1, <1>2, <2>3, <2>6, <2>8, <3>1, <3>2
  <2> QED
    BY <1>3, <2>3, <2>6, <2>7, <2>9
<1>5. CASE ClearHalt(ep)
  <2>1. PICK halts : halts = halted \ {ep}
    OBVIOUS
  <2>2. PICK d : d = [Device EXCEPT !.halted = halts]
    OBVIOUS
  <2>3. halts \in SUBSET Endpoint /\ halts \subseteq asks.halts
    BY <1>1, <1>2, <2>1, DeviceIsSound DEF DeviceSound
  <2>4. /\ d \in DeviceState /\ d.address = Device.address /\ d.config = Device.config
        /\ d.allocated = Device.allocated /\ d.busy = Device.busy /\ d.halted = halts
        /\ d.ongoing = Device.ongoing /\ d.running = Device.running
        /\ d.enabled = Device.enabled /\ d.underflow = Device.underflow
    BY <1>1, <2>2, <2>3 DEF DeviceState
  <2>5. DeviceBecomes(d)
    BY <1>1, <1>5, <2>1, <2>4, DeviceIsSound DEF ClearHalt, DeviceBecomes
  <2>6. hostSide' = [hostSide EXCEPT !.halts = halts]
    BY <1>2, <1>5, <2>1 DEF ClearHalt
  <2> QED
    BY <1>3, <2>3, <2>4, <2>5, <2>6
<1> QED
  BY <1>4, <1>5

\* udi_cdc_rx_start and udi_cdc_tx_send, which make d of e.
StartedFrom(e, ep, d) ==
    /\ d \in DeviceState /\ d.address = e.address /\ d.config = e.config
    /\ d.allocated = e.allocated /\ d.halted = e.halted /\ d.running = e.running
    /\ d.enabled = e.enabled /\ d.underflow = e.underflow
    /\ d.ongoing = e.ongoing \cup {ep}
    /\ d.busy = IF CanRun(e, ep) THEN e.busy \cup {ep} ELSE e.busy

LEMMA StartFacts ==
    ASSUME NEW ep \in {"out", "in"}, NEW e \in DeviceState, ep \notin e.ongoing
    PROVE  StartedFrom(e, ep, Start(e, ep))
<1>0. PICK d : d = Start(e, ep)
  OBVIOUS
<1>1. PICK h : h = [e EXCEPT !.ongoing = e.ongoing \cup {ep}]
  OBVIOUS
<1>2. /\ h \in DeviceState /\ h.address = e.address /\ h.config = e.config
      /\ h.allocated = e.allocated /\ h.busy = e.busy /\ h.halted = e.halted
      /\ h.ongoing = e.ongoing \cup {ep} /\ h.running = e.running
      /\ h.enabled = e.enabled /\ h.underflow = e.underflow
  BY <1>1 DEF DeviceState
<1>3. CanRun(h, ep) <=> CanRun(e, ep)
  BY <1>2 DEF CanRun
<1>4. d = Run(h, ep)
  BY <1>0, <1>1 DEF Start
<1>5. ASSUME CanRun(e, ep) PROVE StartedFrom(e, ep, d)
  <2>1. d = [h EXCEPT !.busy = h.busy \cup {ep}] /\ h \in DeviceState /\ ep \in Endpoint
    BY <1>2, <1>3, <1>4, <1>5, EndpointFacts DEF Run
  <2>2. /\ d \in DeviceState /\ d.address = h.address /\ d.config = h.config
        /\ d.allocated = h.allocated /\ d.busy = h.busy \cup {ep} /\ d.halted = h.halted
        /\ d.ongoing = h.ongoing /\ d.running = h.running /\ d.enabled = h.enabled
        /\ d.underflow = h.underflow
    BY <2>1 DEF DeviceState
  <2> QED
    BY <1>2, <1>5, <2>2 DEF StartedFrom
<1>6. ASSUME ~CanRun(e, ep) PROVE StartedFrom(e, ep, d)
  BY <1>2, <1>3, <1>4, <1>6 DEF Run, StartedFrom
<1> QED
  BY <1>0, <1>5, <1>6

LEMMA DataKept ==
    ASSUME DeviceInv, DataReceived \/ TxSend \/ PacketSent, UNCHANGED asks
    PROVE  DeviceInv'
<1>1. DeviceSound(Device) /\ Device \in DeviceState /\ UNCHANGED hostSide
  BY DeviceIsSound DEF DeviceInv, DataReceived, TxSend, PacketSent
<1>2. ASSUME NEW d \in DeviceState, d.address = Device.address, d.config = Device.config,
             d.allocated = Device.allocated, d.halted = Device.halted,
             d.running = Device.running, d.enabled = Device.enabled,
             d.underflow = Device.underflow, d.busy \subseteq d.allocated,
             Device.running /\ asks.halts = {} /\ "out" \in Device.busy => "out" \in d.busy,
             asks.halts = {} /\ d.running => d.ongoing \subseteq d.busy, DeviceBecomes(d)
      PROVE  DeviceInv'
  <2>1. DeviceSound(d)
    BY <1>1, <1>2 DEF DeviceSound
  <2>2. DeviceSound(Device)'
    BY <1>2, <2>1, SoundStep
  <2>3. UNCHANGED <<address, config, halted, hostSide>>
    BY <1>1, <1>2, DeviceIsSound DEF DeviceBecomes
  <2> QED
    BY <2>2, <2>3 DEF DeviceInv, HostKnows
<1>3. ASSUME NEW ep \in {"out", "in"}, NEW d, d = Ended(Device, ep)
      PROVE  /\ d \in DeviceState /\ d.address = Device.address /\ d.config = Device.config
             /\ d.allocated = Device.allocated /\ d.halted = Device.halted
             /\ d.running = Device.running /\ d.enabled = Device.enabled
             /\ d.underflow = Device.underflow /\ d.ongoing = Device.ongoing \ {ep}
             /\ d.busy = Device.busy \ {ep}
  <2>1. d = [Device EXCEPT !.busy = Device.busy \ {ep}, !.ongoing = Device.ongoing \ {ep}]
    BY <1>3 DEF Ended
  <2> QED
    BY <1>1, <2>1 DEF DeviceState
<1>4. CASE DataReceived
  <2>1. PICK e : e = Ended(Device, "out")
    OBVIOUS
  <2>2. /\ e \in DeviceState /\ e.address = Device.address /\ e.config = Device.config
        /\ e.allocated = Device.allocated /\ e.halted = Device.halted
        /\ e.running = Device.running /\ e.enabled = Device.enabled
        /\ e.underflow = Device.underflow /\ e.ongoing = Device.ongoing \ {"out"}
        /\ e.busy = Device.busy \ {"out"}
    BY <1>3, <2>1
  <2>3. PICK d : d = Start(e, "out")
    OBVIOUS
  <2>4. /\ d \in DeviceState /\ d.address = e.address /\ d.config = e.config
        /\ d.allocated = e.allocated /\ d.halted = e.halted /\ d.running = e.running
        /\ d.enabled = e.enabled /\ d.underflow = e.underflow
        /\ d.ongoing = e.ongoing \cup {"out"}
        /\ d.busy = IF CanRun(e, "out") THEN e.busy \cup {"out"} ELSE e.busy
    <3>1. e \in DeviceState /\ "out" \notin e.ongoing
      BY <2>2
    <3>2. StartedFrom(e, "out", d)
      BY <2>3, <3>1, StartFacts
    <3> QED
      BY <3>2 DEF StartedFrom
  <2>5. "out" \in Device.busy /\ "out" \notin Device.halted /\ Device.busy \subseteq Device.allocated
    BY <1>1, <1>4, DeviceIsSound DEF DataReceived, DeviceSound
  <2>6. CanRun(e, "out")
    BY <2>2, <2>5 DEF CanRun
  <2>7. d.busy = Device.busy /\ d.ongoing = Device.ongoing \cup {"out"}
    BY <2>2, <2>4, <2>5, <2>6, SMTT(20)
  <2>8. DeviceBecomes(d)
    BY <1>4, <2>1, <2>3 DEF DataReceived
  <2>9. asks.halts = {} /\ d.running => d.ongoing \subseteq d.busy
    BY <1>1, <2>2, <2>4, <2>5, <2>7 DEF DeviceSound
  <2>10. d.busy \subseteq d.allocated
    BY <2>2, <2>4, <2>5, <2>7
  <2> QED
    BY <1>2, <2>2, <2>4, <2>5, <2>7, <2>8, <2>9, <2>10
<1>5. CASE TxSend
  <2>1. PICK d : d = Start(Device, "in")
    OBVIOUS
  <2>2. "in" \notin Device.ongoing /\ Device.running
    BY <1>1, <1>5, DeviceIsSound DEF TxSend
  <2>3. /\ d \in DeviceState /\ d.address = Device.address /\ d.config = Device.config
        /\ d.allocated = Device.allocated /\ d.halted = Device.halted
        /\ d.running = Device.running /\ d.enabled = Device.enabled
        /\ d.underflow = Device.underflow /\ d.ongoing = Device.ongoing \cup {"in"}
        /\ d.busy = IF CanRun(Device, "in") THEN Device.busy \cup {"in"} ELSE Device.busy
    <3>1. StartedFrom(Device, "in", d)
      BY <1>1, <2>1, <2>2, StartFacts
    <3> QED
      BY <3>1 DEF StartedFrom
  <2>4. {"out", "in"} \subseteq Device.allocated /\ Device.busy \subseteq Device.allocated
    BY <1>1, <2>2 DEF DeviceSound
  <2>5. ASSUME asks.halts = {} PROVE d.ongoing \subseteq d.busy
    <3>1. Device.halted = {} /\ Device.ongoing \subseteq Device.busy
      BY <1>1, <2>2, <2>5 DEF DeviceSound
    <3> QED
      BY <2>3, <2>4, <3>1 DEF CanRun
  <2>6. DeviceBecomes(d)
    BY <1>5, <2>1 DEF TxSend
  <2>7. d.busy \subseteq d.allocated /\ Device.busy \subseteq d.busy
    BY <2>3, <2>4
  <2> QED
    BY <1>2, <2>3, <2>5, <2>6, <2>7
<1>6. CASE PacketSent
  <2>1. PICK d : d = Ended(Device, "in")
    OBVIOUS
  <2>2. /\ d \in DeviceState /\ d.address = Device.address /\ d.config = Device.config
        /\ d.allocated = Device.allocated /\ d.halted = Device.halted
        /\ d.running = Device.running /\ d.enabled = Device.enabled
        /\ d.underflow = Device.underflow /\ d.ongoing = Device.ongoing \ {"in"}
        /\ d.busy = Device.busy \ {"in"}
    BY <1>3, <2>1
  <2>3. DeviceBecomes(d)
    BY <1>6, <2>1 DEF PacketSent
  <2>4. asks.halts = {} /\ d.running => d.ongoing \subseteq d.busy
    BY <1>1, <2>2 DEF DeviceSound
  <2>5. d.busy \subseteq d.allocated
    BY <1>1, <2>2 DEF DeviceSound
  <2> QED
    BY <1>2, <2>2, <2>3, <2>4, <2>5
<1> QED
  BY <1>4, <1>5, <1>6

LEMMA RequestsKept ==
    ASSUME DeviceInv, UNCHANGED asks,
           \/ SetAddress \/ GetConfiguration \/ \E ep \in Endpoint : GetStatus(ep)
           \/ UNCHANGED deviceVars
    PROVE  DeviceInv'
<1>1. DeviceSound(Device) /\ hostSide \in HostState
  BY DEF DeviceInv, HostKnows
<1>2. CASE SetAddress
  <2>1. PICK d : d = [Device EXCEPT !.address = 1]
    OBVIOUS
  <2>2. /\ d \in DeviceState /\ d.address = 1 /\ d.config = Device.config
        /\ d.allocated = Device.allocated /\ d.busy = Device.busy
        /\ d.halted = Device.halted /\ d.ongoing = Device.ongoing
        /\ d.running = Device.running /\ d.enabled = Device.enabled
        /\ d.underflow = Device.underflow
    <3>1. Device \in DeviceState
      BY <1>1, DeviceIsSound
    <3> QED
      BY <2>1, <3>1 DEF DeviceState
  <2>3. DeviceSound(d)
    BY <1>1, <2>2 DEF DeviceSound
  <2>4. DeviceBecomes(d)
    BY <1>1, <1>2, <2>2, DeviceIsSound DEF SetAddress, DeviceBecomes
  <2>5. DeviceSound(Device)'
    BY <2>3, <2>4, SoundStep
  <2>6. hostSide' \in HostState /\ hostSide'.phase = "addressed" /\ hostSide'.address = 1
    <3>1. PICK p, a : /\ p = "addressed" /\ a = 1
                      /\ hostSide' = [hostSide EXCEPT !.phase = p, !.address = a]
      BY <1>2, Zenon DEF SetAddress
    <3>2. hostSide \in HostState
      BY <1>1
    <3>3. p \in {"unseen", "default", "addressed", "configured"} /\ a \in 0 .. 1
      BY <3>1
    <3>4. PICK h : h = [hostSide EXCEPT !.phase = p, !.address = a]
      OBVIOUS
    <3>5. HostFrom(p, a, hostSide.halts, h)
      BY <3>2, <3>3, <3>4, AddressFacts
    <3> QED
      BY <3>1, <3>4, <3>5 DEF HostFrom
  <2>7. address' = 1 /\ config' = 0
    BY <1>2 DEF SetAddress, DeviceInv, HostKnows
  <2>8. HostKnows'
    BY <2>6, <2>7 DEF HostKnows
  <2> QED
    BY <2>5, <2>8 DEF DeviceInv
<1>3. CASE GetConfiguration \/ (\E ep \in Endpoint : GetStatus(ep)) \/ UNCHANGED deviceVars
  <2>1. UNCHANGED <<address, config, allocated, busy, halted, ongoing, running, enabled,
                    underflow, hostSide>>
    BY <1>3 DEF GetConfiguration, GetStatus, deviceVars
  <2> QED
    BY <2>1 DEF DeviceInv, DeviceSound, HostKnows, Device
<1> QED
  BY <1>2, <1>3

LEMMA DeviceInvariance ==
    ASSUME DeviceAssumption
    PROVE  DeviceSpec => []DeviceInv
<1>1. DeviceInit => DeviceInv
  <2> SUFFICES ASSUME DeviceInit PROVE DeviceInv
    OBVIOUS
  <2>1. hostSide \in HostState /\ hostSide.phase = "unseen"
    <3>1. hostSide = [phase |-> "unseen", address |-> 0, halts |-> {}]
      BY DEF DeviceInit
    <3>2. 0 \in 0 .. 1 /\ {} \in SUBSET Endpoint
      OBVIOUS
    <3>3. hostSide.phase = "unseen"
      BY <3>1
    <3>4. hostSide \in HostState
      BY <3>1, <3>2, Zenon DEF HostState
    <3> QED
      BY <3>3, <3>4
  <2>2. Device \in DeviceState
    <3>1. /\ address = 0 /\ config = 0 /\ allocated = {} /\ busy = {} /\ halted = {}
          /\ ongoing = {} /\ running = FALSE /\ enabled = {} /\ underflow = FALSE
      BY DEF DeviceInit
    <3>2. running \in BOOLEAN /\ underflow \in BOOLEAN
      BY <3>1, Zenon
    <3>3. /\ address \in 0 .. 1 /\ config \in 0 .. 1 /\ allocated \in SUBSET Endpoint
          /\ busy \in SUBSET Endpoint /\ halted \in SUBSET Endpoint
          /\ ongoing \in SUBSET {"out", "in"} /\ enabled \in SUBSET Interface
      BY <3>1
    <3> QED
      BY <3>2, <3>3 DEF Device, DeviceState
  <2>3. DeviceSound(Device)
    <3>1. PICK d : d = Device
      OBVIOUS
    <3>2. /\ d.config = 0 /\ d.allocated = {} /\ d.busy = {} /\ d.halted = {} /\ d.ongoing = {}
          /\ d.running = FALSE /\ d.enabled = {} /\ d.underflow = FALSE
      BY <3>1 DEF Device, DeviceInit
    <3>3. d \in DeviceState
      BY <2>2, <3>1
    <3>4. d.busy \subseteq d.allocated /\ d.halted \subseteq asks.halts
      BY <3>2
    <3>5. d.config # 1 /\ ~d.running
      BY <3>2
    <3>6. DeviceSound(d)
      BY <3>2, <3>3, <3>4, <3>5, Zenon DEF DeviceSound
    <3> QED
      BY <3>1, <3>6
  <2> QED
    BY <2>1, <2>3 DEF DeviceInv, HostKnows, DeviceInit
<1>2. DeviceInv /\ [DeviceNext]_deviceVars => DeviceInv'
  <2> SUFFICES ASSUME DeviceInv, [DeviceNext]_deviceVars PROVE DeviceInv'
    OBVIOUS
  <2>1. UNCHANGED asks
    BY DEF DeviceNext, deviceVars
  <2>2. CASE BusReset
    BY <2>1, <2>2, BusResetKept
  <2>3. CASE \E number \in 0 .. 2 : SetConfiguration(number)
    BY <2>1, <2>3, SetConfigurationKept
  <2>4. CASE \E i \in Interface, setting \in asks.settings : SetInterface(i, setting)
    BY <2>1, <2>4, SetInterfaceKept
  <2>5. CASE \E ep \in asks.halts : SetHalt(ep) \/ ClearHalt(ep)
    BY <2>1, <2>5, HaltsKept
  <2>6. CASE DataReceived \/ TxSend \/ PacketSent
    BY <2>1, <2>6, DataKept
  <2>7. CASE \/ SetAddress \/ GetConfiguration \/ \E ep \in Endpoint : GetStatus(ep)
             \/ UNCHANGED deviceVars
    BY <2>1, <2>7, RequestsKept
  <2> QED
    BY <2>2, <2>3, <2>4, <2>5, <2>6, <2>7 DEF DeviceNext
<1> QED
  BY <1>1, <1>2, PTL DEF DeviceSpec

\* Host and device agree, whatever was reset, configured again or detached on
\* the way: on the address, the configuration, the endpoints and the transfers
\* that wait on them (udc.c, usb_device.c, udi_cdc.c); no interface is disabled
\* that is not enabled, as the drivers assert; and every answer to a GET request
\* is true.  For every host, with no bound on what it does.
THEOREM DeviceAgrees ==
    ASSUME DeviceAssumption
    PROVE  DeviceSpec => Agreement
<1>1. DeviceInv => ConfigurationAgreed /\ JobsAllocated /\ OngoingRuns /\ DisabledOnce
  <2> SUFFICES ASSUME DeviceInv
               PROVE  ConfigurationAgreed /\ JobsAllocated /\ OngoingRuns /\ DisabledOnce
    OBVIOUS
  <2>1. DeviceSound(Device) /\ config \in {0, 1}
    BY DeviceIsSound DEF DeviceInv, DeviceState
  <2>2. ConfigurationAgreed
    BY <2>1, DeviceIsSound DEF DeviceInv, HostKnows, DeviceSound, ConfigurationAgreed
  <2>3. JobsAllocated
    BY <2>1, DeviceIsSound DEF DeviceSound, JobsAllocated
  <2>4. OngoingRuns /\ DisabledOnce
    BY <2>1, DeviceIsSound DEF DeviceSound, OngoingRuns, DisabledOnce
  <2> QED
    BY <2>2, <2>3, <2>4
<1>2. DeviceInv /\ [DeviceNext]_deviceVars =>
        [told' # told => told'.value = IF told'.of = "configuration" THEN hostSide.phase = "configured"
                                       ELSE told'.of \in hostSide.halts]_deviceVars
  <2> SUFFICES ASSUME DeviceInv, DeviceNext, told' # told
               PROVE  told'.value = IF told'.of = "configuration" THEN hostSide.phase = "configured"
                                    ELSE told'.of \in hostSide.halts
    OBVIOUS
  <2>1. GetConfiguration \/ \E ep \in Endpoint : GetStatus(ep)
    BY DEF DeviceNext, BusReset, SetAddress, SetConfiguration, SetInterface, SetHalt, ClearHalt,
           DataReceived, TxSend, PacketSent
  <2>2. CASE GetConfiguration
    <3>1. told'.value = (config = 1) /\ told'.of = "configuration"
      BY <2>2 DEF GetConfiguration
    <3>2. (config = 1) <=> hostSide.phase = "configured"
      BY <2>2 DEF GetConfiguration, DeviceInv, HostKnows
    <3> QED
      BY <3>1, <3>2
  <2>3. ASSUME NEW ep \in Endpoint, GetStatus(ep)
        PROVE  told'.value = IF told'.of = "configuration" THEN hostSide.phase = "configured"
                             ELSE told'.of \in hostSide.halts
    <3>1. told'.value = (ep \in halted) /\ told'.of = ep
      BY <2>3 DEF GetStatus
    <3>2. halted = hostSide.halts /\ ep # "configuration"
      BY <2>3, EndpointFacts DEF GetStatus, DeviceInv, HostKnows
    <3> QED
      BY <3>1, <3>2
  <2> QED
    BY <2>1, <2>2, <2>3
<1>3. DeviceSpec => []DeviceInv
  BY DeviceInvariance
<1> QED
  BY <1>1, <1>2, <1>3, PTL DEF DeviceSpec, Agreement, AnswersTrue
=============================================================================
