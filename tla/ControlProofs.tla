--------------------------- MODULE ControlProofs ----------------------------
(***************************************************************************)
(* The control endpoint moves every transfer whole: what the host reads of *)
(* an accepted request, or gives it, is all there is, for every size of    *)
(* packet and every set of lengths.  The invariant says in each phase how  *)
(* far host and driver have come, and which bank the host needs next.      *)
(***************************************************************************)
EXTENDS ControlEndpoint, TLAPS

\* The phases of a transfer as the host sees it, and the finished packets that
\* wait: at most one.
Phase == {"idle", "data", "status", "done", "refused"}
Tokens == {<<>>, <<"in">>, <<"out">>}

RequestRecord == [in : BOOLEAN, length : Nat, ok : BOOLEAN, payload : Nat]
HostRecord ==
    [phase : Phase, request : Request \cup {NoRequest}, stopped : BOOLEAN, count : Nat]

\* The bytes there are to move for a request that is accepted.
Payload(r) == IF r.ok THEN Least(r.size, r.length) ELSE 0

ControlType ==
    /\ state \in {"setup", "stall", "data in", "data out", "wait in zlp", "wait out zlp"}
    /\ req \in RequestRecord
    /\ nbTrans \in Nat /\ callbacks \in 0 .. 1 /\ served \in 0 .. 1
    /\ inBank \in Nat \cup {NAK} /\ tc \in Tokens
    /\ shortPacket \in BOOLEAN /\ outOpen \in BOOLEAN /\ stalled \in BOOLEAN
    /\ setupFlag \in BOOLEAN /\ under \in BOOLEAN /\ over \in BOOLEAN /\ completed \in BOOLEAN
    /\ host \in HostRecord
    /\ state # "setup" => callbacks = 0

\* A SETUP that the driver has not looked at: the host waits, and what is left
\* of the transfer before it is at most its handshake.
Pending ==
    /\ setupData = host.request /\ host.request \in Request
    /\ host.phase = (IF host.request.length = 0 THEN "status" ELSE "data")
    /\ host.count = 0 /\ host.stopped = FALSE
    /\ inBank = NAK /\ outOpen = FALSE /\ stalled = FALSE
    /\ tc = <<"in">> => state = "wait in zlp"
    /\ tc = <<"out">> => state = "wait out zlp"
    /\ state = "setup" /\ over = TRUE => host.request.in = FALSE /\ host.request.length # 0
    /\ state = "setup" /\ under = TRUE => host.request.in = TRUE \/ host.request.length = 0
    /\ completed = TRUE =>
         state \in {"wait in zlp", "wait out zlp"} \/ (state = "setup" /\ callbacks = 1)

\* What the host has read is all there is, unless it stopped.
ReadWhole == host.stopped = FALSE => host.count = Payload(host.request)

\* In each phase the counters of host and driver agree, the bank that the host
\* needs next is ready unless its packet waits to be looked at, and an
\* underflow or overflow is only pending once the host stopped the data phase:
\* one that outlives its phase would stall the handshake.
DataIn ==
    /\ host.request.in = TRUE /\ req = ProcessSetup(host.request)
    /\ nbTrans <= req.payload /\ outOpen = FALSE
    /\ over = TRUE => host.phase = "status"
    /\ shortPacket = TRUE => nbTrans = req.payload
    /\ tc = <<>> =>
         /\ inBank \in 0 .. EP_CTRL_SIZE /\ nbTrans = host.count + inBank
         /\ shortPacket = TRUE <=> inBank < EP_CTRL_SIZE
         /\ \/ host.phase = "data" /\ host.stopped = FALSE
            \/ host.phase = "status" /\ host.stopped = TRUE /\ under = FALSE
    /\ tc = <<"in">> =>
         /\ inBank = NAK /\ nbTrans = host.count /\ host.stopped = FALSE
         /\ host.phase = (IF shortPacket = TRUE \/ nbTrans >= req.length THEN "status" ELSE "data")
    /\ tc # <<"out">>

DataOut ==
    /\ host.request.in = FALSE /\ req = ProcessSetup(host.request)
    /\ nbTrans < req.length /\ inBank = NAK
    /\ under = TRUE => host.phase = "status"
    /\ tc = <<>> =>
         /\ outOpen = TRUE /\ host.count = nbTrans
         /\ \/ host.phase = "data" /\ host.stopped = FALSE
            \/ host.phase = "status" /\ host.stopped = TRUE /\ over = FALSE
    /\ tc = <<"out">> =>
         /\ outOpen = FALSE /\ outBytes = Least(EP_CTRL_SIZE, req.length - nbTrans)
         /\ host.count = nbTrans + outBytes /\ host.stopped = FALSE
         /\ host.phase = (IF host.count = req.length THEN "status" ELSE "data")
    /\ tc # <<"in">>

WaitInZlp ==
    /\ host.request.in = FALSE /\ over = FALSE /\ ReadWhole
    /\ tc = <<>> => inBank = 0 /\ host.phase = "status"
    /\ tc = <<"in">> => host.phase = "done"
    /\ tc # <<"out">>

WaitOutZlp ==
    /\ host.request.in = TRUE /\ under = FALSE /\ ReadWhole
    /\ tc = <<>> => outOpen = TRUE /\ host.phase = "status"
    /\ tc = <<"out">> => host.phase = "done"
    /\ tc # <<"in">>

\* The driver follows the host's transfer.
Following ==
    /\ completed = TRUE => served = 1
    /\ stalled = TRUE <=> state = "stall"
    /\ state \notin {"setup", "stall"} => host.request \in Request /\ host.request.ok = TRUE
    /\ state = "setup" =>
         /\ tc = <<>> /\ under = FALSE /\ over = FALSE
         /\ \/ host.phase = "idle" /\ callbacks = 0
            \/ host.phase = "done" /\ callbacks = 1 /\ ReadWhole
    /\ state = "stall" =>
         tc = <<>> /\ host.request.ok = FALSE /\ host.phase \in {"data", "status", "refused"}
    /\ state = "data in" => DataIn
    /\ state = "data out" => DataOut
    /\ state = "wait in zlp" => WaitInZlp
    /\ state = "wait out zlp" => WaitOutZlp

\* The inductive invariant.
ControlInv == ControlType /\ (setupFlag = TRUE => Pending) /\ (setupFlag = FALSE => Following)

DriverState == {"setup", "stall", "data in", "data out", "wait in zlp", "wait out zlp"}

\* What the routines of the driver take and yield.
DriverRecord ==
    [state : DriverState, req : RequestRecord,
     nb : Nat, short : BOOLEAN, callbacks : Nat, served : Nat, inBank : Nat \cup {NAK},
     outOpen : BOOLEAN, stalled : BOOLEAN, tc : Tokens, under : BOOLEAN, over : BOOLEAN]

\* At most one packet is finished and not looked at: taking and adding it.
LEMMA TokensDiffer ==
    /\ <<>> # <<"in">> /\ <<>> # <<"out">> /\ <<"in">> # <<"out">>
    /\ Head(<<"in">>) = "in" /\ Head(<<"out">>) = "out"
    /\ Tail(<<"in">>) = <<>> /\ Tail(<<"out">>) = <<>>
    /\ Append(<<>>, "in") = <<"in">> /\ Append(<<>>, "out") = <<"out">>
OBVIOUS

\* Clearing a flag that no event has raised changes nothing.
LEMMA NoneLeft == Without(<<>>, "in") = <<>> /\ Without(<<>>, "out") = <<>>
BY DEF Without

\* What the routines of the driver leave, field by field: udd_ctrl_init,
LEMMA CtrlInitFacts ==
    ASSUME NEW d \in DriverRecord, d.tc = <<>>, NEW e, e = CtrlInit(d)
    PROVE  /\ e \in DriverRecord
           /\ e.state = "setup" /\ e.inBank = NAK /\ e.tc = <<>> /\ e.under = FALSE /\ e.over = FALSE
           /\ e.callbacks = d.callbacks /\ e.outOpen = d.outOpen /\ e.stalled = d.stalled
           /\ e.nb = d.nb /\ e.short = d.short /\ e.served = d.served
BY NoneLeft DEF CtrlInit, DriverRecord, DriverState, Tokens, RequestRecord

\* udd_ctrl_endofrequest,
LEMMA EndFacts ==
    ASSUME NEW d \in DriverRecord, NEW e, e = EndOfRequest(d)
    PROVE  /\ e \in DriverRecord /\ e.callbacks = d.callbacks + 1
           /\ e.state = d.state /\ e.tc = d.tc /\ e.outOpen = d.outOpen /\ e.stalled = d.stalled
           /\ e.under = d.under /\ e.over = d.over
           /\ e.nb = d.nb /\ e.short = d.short /\ e.served = d.served
BY DEF EndOfRequest, DriverRecord, RequestRecord

\* udd_ctrl_stall_data,
LEMMA StallFacts ==
    ASSUME NEW d \in DriverRecord, NEW e, e = StallData(d)
    PROVE  /\ e \in DriverRecord /\ e.state = "stall" /\ e.stalled = TRUE
           /\ e.callbacks = d.callbacks /\ e.tc = d.tc /\ e.served = d.served
BY DEF StallData, DriverRecord, DriverState, RequestRecord

\* udd_ctrl_send_zlp_in
LEMMA ZlpInFacts ==
    ASSUME NEW d \in DriverRecord, NEW e, e = SendZlpIn(d)
    PROVE  /\ e \in DriverRecord /\ e.state = "wait in zlp" /\ e.inBank = 0
           /\ e.callbacks = d.callbacks /\ e.tc = d.tc /\ e.stalled = d.stalled
           /\ e.under = d.under /\ e.over = d.over /\ e.served = d.served
BY DEF SendZlpIn, DriverRecord, DriverState, RequestRecord

\* and udd_ctrl_send_zlp_out.
LEMMA ZlpOutFacts ==
    ASSUME NEW d \in DriverRecord, NEW e, e = SendZlpOut(d)
    PROVE  /\ e \in DriverRecord /\ e.state = "wait out zlp" /\ e.outOpen = TRUE
           /\ e.callbacks = d.callbacks /\ e.tc = d.tc /\ e.stalled = d.stalled
           /\ e.under = d.under /\ e.over = d.over /\ e.served = d.served
BY DEF SendZlpOut, DriverRecord, DriverState, RequestRecord

\* The driver's state as a record.
LEMMA DriverTyped ==
    ASSUME ControlType
    PROVE  Driver \in DriverRecord
<1>. USE DEF RequestRecord
<1>1. /\ shortPacket \in BOOLEAN /\ outOpen \in BOOLEAN /\ stalled \in BOOLEAN
      /\ under \in BOOLEAN /\ over \in BOOLEAN
  BY DEF ControlType
<1>5. callbacks \in 0 .. 1 /\ served \in 0 .. 1
  BY DEF ControlType
<1>2. callbacks \in Nat /\ served \in Nat
  BY <1>5
<1>3. state \in DriverState /\ nbTrans \in Nat /\ inBank \in Nat \cup {NAK} /\ tc \in Tokens
  BY DEF ControlType, DriverState
<1>4. req \in RequestRecord
  BY DEF ControlType
<1>. QED
  BY <1>1, <1>2, <1>3, <1>4 DEF Driver, DriverRecord

\* A routine that yields such a record keeps the types.
LEMMA BecomesTyped ==
    ASSUME ControlType, NEW g \in DriverRecord, DriverBecomes(g),
           g.callbacks \in 0 .. 1, g.served \in 0 .. 1, g.state # "setup" => g.callbacks = 0,
           setupFlag' \in BOOLEAN, UNCHANGED hostVars
    PROVE  ControlType'
<1>. USE DEF HostRecord, RequestRecord
<1>1. /\ state' \in DriverState /\ nbTrans' \in Nat /\ inBank' \in Nat \cup {NAK} /\ tc' \in Tokens
      /\ req' \in RequestRecord
  BY DEF DriverRecord, DriverBecomes
<1>2. /\ shortPacket' \in BOOLEAN /\ outOpen' \in BOOLEAN /\ stalled' \in BOOLEAN
      /\ under' \in BOOLEAN /\ over' \in BOOLEAN
  BY DEF DriverRecord, DriverBecomes
<1>3. /\ callbacks' \in 0 .. 1 /\ served' \in 0 .. 1
      /\ state' # "setup" => callbacks' = 0
  BY DEF DriverBecomes
<1>4. /\ host' \in HostRecord
      /\ completed' \in BOOLEAN
  BY DEF ControlType, hostVars
<1>. QED
  BY <1>1, <1>2, <1>3, <1>4 DEF ControlType, DriverState

\* A request as udc_process_setup takes it: no more to send than was asked
\* for, and room for all that is to be received.
LEMMA ProcessSetupType ==
    ASSUME ControlAssumption, NEW r \in Request
    PROVE  /\ ProcessSetup(r) \in RequestRecord
           /\ ProcessSetup(r).in = r.in /\ ProcessSetup(r).length = r.length
           /\ ProcessSetup(r).ok = r.ok /\ ProcessSetup(r).payload = Payload(r)
           /\ r.length \in Nat /\ r.size \in Nat /\ r.in \in BOOLEAN /\ r.ok \in BOOLEAN
           /\ Payload(r) \in Nat /\ (r.in = TRUE => r.length > 0)
           /\ r.ok = TRUE /\ r.in = TRUE => Payload(r) > 0 /\ r.length > 0 /\ Payload(r) <= r.length
           /\ r.ok = TRUE /\ r.in = FALSE => Payload(r) = r.length
<1>. USE DEF HostRecord, RequestRecord
<1>1. /\ r.length \in Nat /\ r.size \in Nat /\ r.in \in BOOLEAN /\ r.ok \in BOOLEAN
      /\ r.in = TRUE => r.size > 0 /\ r.length > 0
      /\ r.in = FALSE => r.size = r.length
  BY DEF ControlAssumption, Request
<1>2. /\ Payload(r) \in Nat
      /\ r.ok = TRUE /\ r.in = TRUE => Payload(r) > 0 /\ Payload(r) <= r.length
      /\ r.ok = TRUE /\ r.in = FALSE => Payload(r) = r.length
  BY <1>1 DEF Payload, Least
<1>3. ProcessSetup(r) = [in |-> r.in, length |-> r.length, ok |-> r.ok, payload |-> Payload(r)]
  BY DEF ProcessSetup, Payload
<1>. QED
  BY <1>1, <1>2, <1>3

\* The host's side has its type.
LEMMA HostTyped ==
    ASSUME ControlAssumption, ControlType
    PROVE  /\ host \in HostRecord
           /\ host.request.in \in BOOLEAN /\ host.request.ok \in BOOLEAN
<1>. USE DEF HostRecord, RequestRecord
<1>1. host \in HostRecord
  BY DEF ControlType
<1>2. host.request \in Request \/ host.request = NoRequest
  BY <1>1
<1>3. NoRequest.in = FALSE /\ NoRequest.ok = FALSE
  BY DEF NoRequest
<1>. QED
  BY <1>1, <1>2, <1>3, ProcessSetupType

\* udd_ctrl_setup_received, from whichever interrupt runs it: the handshake
\* that the SETUP may have hidden counts, and the first phase begins.
LEMMA SetupStep ==
    ASSUME ControlAssumption, ControlInv, setupFlag = TRUE, tc = <<>>,
           NEW d \in DriverRecord, d.state = state, d.tc = <<>>, d.callbacks = callbacks,
           d.inBank = NAK, d.outOpen = FALSE, d.stalled = FALSE,
           state = "setup" => d.under = under /\ d.over = over,
           DriverBecomes(SetupReceived(d, setupData)),
           setupFlag' = FALSE, UNCHANGED <<setupData, outBytes, hostVars>>
    PROVE  ControlInv'
<1>. USE DEF hostVars, HostRecord, RequestRecord
<1>1. Pending /\ ControlType
  BY DEF ControlInv
<1>2. PICK r : r = setupData
  OBVIOUS
<1>3. /\ r \in Request /\ r = host.request
      /\ host.phase = (IF r.length = 0 THEN "status" ELSE "data")
      /\ host.count = 0 /\ host.stopped = FALSE
  BY <1>1, <1>2 DEF Pending
<1>4. host \in HostRecord
  BY <1>1 DEF ControlType
<1>5. PICK e : e = CASE d.state = "setup" -> d
                     [] Closed(d) -> CtrlInit(EndOfRequest(d))
                     [] OTHER -> CtrlInit(d)
  OBVIOUS
<1>6. /\ e \in DriverRecord /\ e.state = "setup" /\ e.tc = <<>>
      /\ e.inBank = NAK /\ e.outOpen = FALSE /\ e.stalled = FALSE
      /\ e.callbacks \in 0 .. 1 /\ (completed = TRUE => e.callbacks = 1)
      /\ e.over = TRUE => r.in = FALSE /\ r.length # 0
      /\ e.under = TRUE => r.in = TRUE \/ r.length = 0
  <2>1. callbacks \in 0 .. 1 /\ (state # "setup" => callbacks = 0)
    BY <1>1 DEF ControlType
  <2>2. completed = TRUE => state \in {"wait in zlp", "wait out zlp"} \/ (state = "setup" /\ callbacks = 1)
    BY <1>1 DEF Pending
  <2>3. CASE d.state = "setup"
    <3>1. e = d
      BY <2>3, <1>5 DEF Closed
    <3>2. /\ d.over = TRUE => r.in = FALSE /\ r.length # 0
          /\ d.under = TRUE => r.in = TRUE \/ r.length = 0
      BY <2>3, <1>1, <1>3 DEF Pending
    <3>. QED
      BY <3>1, <3>2, <2>1, <2>2, <2>3
  <2>4. CASE d.state # "setup" /\ Closed(d)
    <3>1. e = CtrlInit(EndOfRequest(d))
      BY <2>4, <1>5
    <3>2. PICK c : c = EndOfRequest(d)
      OBVIOUS
    <3>3. /\ c \in DriverRecord /\ c.callbacks = d.callbacks + 1 /\ c.tc = <<>>
          /\ c.outOpen = FALSE /\ c.stalled = FALSE
      BY <3>2, EndFacts
    <3>4. /\ e \in DriverRecord /\ e.state = "setup" /\ e.tc = <<>> /\ e.inBank = NAK
          /\ e.outOpen = FALSE /\ e.stalled = FALSE /\ e.under = FALSE /\ e.over = FALSE
          /\ e.callbacks = c.callbacks
      BY <3>1, <3>2, <3>3, CtrlInitFacts
    <3>. QED
      BY <3>3, <3>4, <2>1, <2>4
  <2>5. CASE d.state # "setup" /\ ~Closed(d)
    <3>1. e = CtrlInit(d)
      BY <2>5, <1>5
    <3>2. /\ e \in DriverRecord /\ e.state = "setup" /\ e.tc = <<>> /\ e.inBank = NAK
          /\ e.outOpen = FALSE /\ e.stalled = FALSE /\ e.under = FALSE /\ e.over = FALSE
          /\ e.callbacks = d.callbacks
      BY <3>1, CtrlInitFacts
    <3>. QED
      BY <3>2, <2>1, <2>2, <2>5 DEF Closed
  <2>. QED
    BY <2>3, <2>4, <2>5
<1>7. PICK q : q = ProcessSetup(r)
  OBVIOUS
<1>8. q \in RequestRecord
  BY <1>3, <1>7, ProcessSetupType
<1>9. PICK f : f = [e EXCEPT !.req = q, !.nb = 0, !.served = e.callbacks, !.callbacks = 0]
  OBVIOUS
<1>10. /\ f \in DriverRecord /\ f.state = "setup" /\ f.tc = <<>>
       /\ f.inBank = NAK /\ f.outOpen = FALSE /\ f.stalled = FALSE
       /\ f.callbacks = 0 /\ f.served = e.callbacks /\ f.nb = 0 /\ f.req = q
       /\ f.over = e.over /\ f.under = e.under
  BY <1>6, <1>8, <1>9 DEF DriverRecord
<1>11. PICK g : g = SetupReceived(d, r)
  OBVIOUS
<1>12. g = IF ~r.ok THEN StallData(f)
           ELSE IF r.in THEN InSent([f EXCEPT !.state = "data in"])
           ELSE IF r.length = 0 THEN SendZlpIn(f)
           ELSE [f EXCEPT !.state = "data out", !.outOpen = TRUE, !.tc = Without(@, "out")]
  BY <1>5, <1>7, <1>9, <1>11 DEF SetupReceived
<1>13. /\ state' = g.state /\ req' = g.req /\ nbTrans' = g.nb /\ shortPacket' = g.short
       /\ callbacks' = g.callbacks /\ served' = g.served
       /\ inBank' = g.inBank /\ outOpen' = g.outOpen /\ stalled' = g.stalled
       /\ tc' = g.tc /\ under' = g.under /\ over' = g.over
  BY <1>2, <1>11 DEF DriverBecomes
<1>14. SUFFICES ControlType' /\ Following'
  BY DEF ControlInv
<1>15. r.length \in Nat /\ r.in \in BOOLEAN /\ r.ok \in BOOLEAN /\ Payload(r) \in Nat
  BY <1>3, ProcessSetupType
<1>16. setupFlag' = FALSE /\ host' = host /\ completed' = completed /\ completed \in BOOLEAN
  BY <1>1 DEF ControlType
<1>17. ASSUME g \in DriverRecord, g.callbacks = 0, g.served = f.served
       PROVE  ControlType' /\ (completed' = TRUE => served' = 1)
  <2>1. g.callbacks \in 0 .. 1 /\ g.served \in 0 .. 1
    <3>1. g.callbacks \in 0 .. 1
      BY <1>17
    <3>2. g.served = e.callbacks
      BY <1>17, <1>10
    <3>. QED
      BY <3>1, <3>2, <1>6
  <2>2. ControlType'
    BY <1>1, <1>2, <1>11, <1>17, <2>1, BecomesTyped
  <2>3. completed' = TRUE => served' = 1
    BY <1>13, <1>16, <1>17, <1>6, <1>10
  <2>. QED
    BY <2>2, <2>3
<1>18. CASE r.ok = FALSE
  <2>1. g = StallData(f)
    BY <1>12, <1>18
  <2>2. /\ g \in DriverRecord /\ g.state = "stall" /\ g.stalled = TRUE /\ g.tc = <<>>
        /\ g.callbacks = 0 /\ g.served = f.served
    BY <2>1, <1>10, StallFacts
  <2>3. Following'
    BY <2>2, <1>17, <1>13, <1>16, <1>18, <1>3 DEF Following
  <2>. QED
    BY <2>2, <2>3, <1>17
<1>19. CASE r.ok = TRUE /\ r.in = TRUE
  <2>1. PICK b : b = [f EXCEPT !.state = "data in"]
    OBVIOUS
  <2>2. /\ b \in DriverRecord /\ b.state = "data in" /\ b.tc = <<>> /\ b.outOpen = FALSE
        /\ b.stalled = FALSE /\ b.callbacks = 0 /\ b.served = f.served /\ b.nb = 0 /\ b.req = q
        /\ b.over = e.over
    BY <2>1, <1>10 DEF DriverRecord, DriverState
  <2>3. /\ q.payload = Payload(r) /\ q.length = r.length
        /\ Payload(r) > 0 /\ r.length > 0 /\ Payload(r) <= r.length
    BY <1>19, <1>3, <1>7, ProcessSetupType
  <2>4. PICK n : n = Least(Payload(r), EP_CTRL_SIZE)
    OBVIOUS
  <2>5. /\ n \in Nat /\ n <= Payload(r) /\ n \in 0 .. EP_CTRL_SIZE
        /\ (Payload(r) < EP_CTRL_SIZE) <=> (n < EP_CTRL_SIZE)
        /\ n < EP_CTRL_SIZE => n = Payload(r)
    BY <2>4, <1>15 DEF Least, ControlAssumption
  <2>6. PICK s \in BOOLEAN : s <=> Payload(r) < EP_CTRL_SIZE
    OBVIOUS
  <2>7. g = [b EXCEPT !.inBank = n, !.nb = n, !.short = s]
    <3>1. g = InSent(b)
      BY <1>12, <1>19, <2>1
    <3>4. b.req.payload = Payload(r) /\ b.nb = 0
      BY <2>2, <2>3
    <3>2. b.req.payload - b.nb = Payload(r) /\ Payload(r) # 0 /\ b.nb + n = n
      BY <3>4, <2>3, <2>5, <1>15
    <3>3. (Payload(r) < EP_CTRL_SIZE) = s
      BY <2>6
    <3>. QED
      BY <3>1, <3>2, <3>3, <2>2, <2>4 DEF InSent
  <2>8. /\ g \in DriverRecord /\ g.state = "data in" /\ g.tc = <<>> /\ g.outOpen = FALSE
        /\ g.stalled = FALSE /\ g.callbacks = 0 /\ g.served = f.served /\ g.nb = n /\ g.req = q
        /\ g.over = e.over /\ g.inBank = n /\ g.short = s
    BY <2>7, <2>2, <2>5, <2>6 DEF DriverRecord
  <2>9. DataIn'
    <3>1. over' = FALSE
      BY <2>8, <1>13, <1>6, <1>19 DEF DriverRecord
    <3>2. host'.phase = "data" /\ host'.stopped = FALSE /\ host'.count = 0 /\ host'.request = r
      BY <1>3, <1>15, <1>16, <2>3
    <3>3. shortPacket' = TRUE <=> inBank' < EP_CTRL_SIZE
      BY <2>8, <2>5, <2>6, <1>13
    <3>. QED
      <4>1. tc' = <<>> /\ req' = ProcessSetup(r) /\ outOpen' = FALSE /\ inBank' = n /\ nbTrans' = n
        BY <2>8, <1>13, <1>7
      <4>2. nbTrans' <= req'.payload /\ (shortPacket' = TRUE => nbTrans' = req'.payload)
        BY <2>8, <2>5, <2>6, <2>3, <1>13
      <4>3. inBank' \in 0 .. EP_CTRL_SIZE /\ nbTrans' = host'.count + inBank'
        BY <4>1, <3>2, <2>5
      <4>. QED
        BY <4>1, <4>2, <4>3, <3>1, <3>2, <3>3, <1>19, TokensDiffer DEF DataIn
  <2>10. Following'
    BY <2>8, <2>9, <1>17, <1>13, <1>16, <1>19, <1>3 DEF Following
  <2>. QED
    BY <2>8, <2>10, <1>17
<1>20. CASE r.ok = TRUE /\ r.in = FALSE /\ r.length = 0
  <2>1. g = SendZlpIn(f)
    BY <1>12, <1>20
  <2>2. /\ g \in DriverRecord /\ g.state = "wait in zlp" /\ g.inBank = 0 /\ g.tc = <<>>
        /\ g.stalled = FALSE /\ g.callbacks = 0 /\ g.served = f.served /\ g.over = e.over
    BY <2>1, <1>10, ZlpInFacts
  <2>3. Payload(r) = 0
    BY <1>20, <1>3, ProcessSetupType
  <2>4. WaitInZlp'
    <3>1. over' = FALSE
      BY <2>2, <1>13, <1>6, <1>20 DEF DriverRecord
    <3>2. ReadWhole'
      BY <2>3, <1>3, <1>16 DEF ReadWhole, Payload
    <3>. QED
      BY <3>1, <3>2, <2>2, <1>3, <1>13, <1>16, <1>20, TokensDiffer DEF WaitInZlp
  <2>5. Following'
    BY <2>2, <2>4, <1>17, <1>13, <1>16, <1>20, <1>3 DEF Following
  <2>. QED
    BY <2>2, <2>5, <1>17
<1>21. CASE r.ok = TRUE /\ r.in = FALSE /\ r.length # 0
  <2>1. g = [f EXCEPT !.state = "data out", !.outOpen = TRUE, !.tc = Without(@, "out")]
    BY <1>12, <1>21
  <2>2. /\ g \in DriverRecord /\ g.state = "data out" /\ g.outOpen = TRUE /\ g.tc = <<>>
        /\ g.stalled = FALSE /\ g.callbacks = 0 /\ g.served = f.served /\ g.under = e.under
        /\ g.inBank = NAK /\ g.nb = 0 /\ g.req = q
    BY <2>1, <1>10, NoneLeft DEF DriverRecord, DriverState
  <2>3. q.length = r.length
    BY <1>3, <1>7, ProcessSetupType
  <2>4. DataOut'
    <3>1. under' = FALSE
      BY <2>2, <1>13, <1>6, <1>21 DEF DriverRecord
    <3>2. host'.phase = "data" /\ host'.stopped = FALSE /\ host'.count = 0 /\ host'.request = r
      BY <1>3, <1>16, <1>21
    <3>. QED
      <4>1. /\ tc' = <<>> /\ req' = ProcessSetup(r) /\ outOpen' = TRUE /\ inBank' = NAK
            /\ nbTrans' = 0
        BY <2>2, <1>13, <1>7
      <4>3. req'.length = r.length
        BY <2>2, <2>3, <1>13
      <4>2. nbTrans' < req'.length
        BY <4>1, <4>3, <1>15, <1>21
      <4>. QED
        BY <4>1, <4>2, <3>1, <3>2, <1>21, TokensDiffer DEF DataOut
  <2>5. Following'
    BY <2>2, <2>4, <1>17, <1>13, <1>16, <1>21, <1>3 DEF Following
  <2>. QED
    BY <2>2, <2>5, <1>17
<1>. QED
  BY <1>14, <1>15, <1>18, <1>19, <1>20, <1>21

\* udd_ctrl_in_sent: the handshake is over, the data phase is, or the next
\* packet is put up.
LEMMA InSentStep ==
    ASSUME ControlAssumption, ControlInv, tc = <<"in">>, ~BusEvent,
           DriverBecomes(InSent([Driver EXCEPT !.tc = <<>>])),
           UNCHANGED <<setupFlag, setupData, outBytes, hostVars>>
    PROVE  ControlInv'
<1>. USE DEF hostVars, HostRecord, RequestRecord
<1>1. /\ ControlType /\ (setupFlag = TRUE => Pending) /\ (setupFlag = FALSE => Following)
      /\ setupFlag \in BOOLEAN
  BY DEF ControlInv, ControlType
<1>2. PICK d : d = [Driver EXCEPT !.tc = <<>>]
  OBVIOUS
<1>3. /\ d \in DriverRecord /\ d.state = state /\ d.req = req /\ d.nb = nbTrans
      /\ d.short = shortPacket /\ d.callbacks = callbacks /\ d.served = served
      /\ d.outOpen = outOpen /\ d.stalled = stalled /\ d.tc = <<>>
      /\ d.under = under /\ d.over = over
  <2>1. Driver \in DriverRecord
    BY <1>1, DriverTyped
  <2>2. d \in DriverRecord
    BY <2>1, <1>2 DEF DriverRecord, Tokens
  <2>. QED
    BY <2>2, <1>2 DEF Driver
<1>4. PICK g : g = InSent(d)
  OBVIOUS
<1>5. /\ state' = g.state /\ req' = g.req /\ nbTrans' = g.nb /\ shortPacket' = g.short
      /\ callbacks' = g.callbacks /\ served' = g.served
      /\ inBank' = g.inBank /\ outOpen' = g.outOpen /\ stalled' = g.stalled
      /\ tc' = g.tc /\ under' = g.under /\ over' = g.over
  BY <1>2, <1>4 DEF DriverBecomes
<1>6. /\ setupFlag' = setupFlag /\ setupData' = setupData /\ host' = host /\ completed' = completed
  OBVIOUS
<1>7. /\ callbacks \in 0 .. 1 /\ served \in 0 .. 1 /\ (state # "setup" => callbacks = 0)
      /\ host.request \in Request \cup {NoRequest}
  BY <1>1 DEF ControlType
<1>8. ASSUME g \in DriverRecord, g.callbacks \in 0 .. 1, g.served = served,
             g.state # "setup" => g.callbacks = 0
      PROVE  ControlType'
  BY <1>1, <1>2, <1>4, <1>6, <1>7, <1>8, BecomesTyped
<1>9. CASE state = "wait in zlp"
  <2>1. PICK c : c = EndOfRequest(d)
    OBVIOUS
  <2>2. /\ c \in DriverRecord /\ c.callbacks = 1 /\ c.tc = <<>> /\ c.served = served
        /\ c.outOpen = outOpen /\ c.stalled = stalled
    <3>0. callbacks = 0
      BY <1>7, <1>9
    <3>1. callbacks + 1 = 1
      BY <3>0
    <3>. QED
      BY <3>1, <1>3, <2>1, EndFacts
  <2>3. g = CtrlInit(c)
    BY <1>3, <1>4, <1>9, <2>1 DEF InSent
  <2>4. /\ g \in DriverRecord /\ g.state = "setup" /\ g.tc = <<>> /\ g.inBank = NAK
        /\ g.outOpen = outOpen /\ g.stalled = stalled /\ g.under = FALSE /\ g.over = FALSE
        /\ g.callbacks = 1 /\ g.served = served
    BY <2>2, <2>3, CtrlInitFacts
  <2>5. ControlType'
    BY <2>4, <1>8
  <2>6. CASE setupFlag = TRUE
    <3>1. Pending'
      BY <2>4, <2>6, <1>1, <1>5, <1>6, TokensDiffer DEF Pending
    <3>. QED
      BY <3>1, <2>5, <2>6, <1>6 DEF ControlInv
  <2>7. CASE setupFlag = FALSE
    <3>1. stalled = FALSE /\ (completed = TRUE => served = 1) /\ WaitInZlp
      BY <2>7, <1>1, <1>9 DEF Following, ControlType
    <3>2. ReadWhole' /\ host'.phase = "done"
      BY <3>1, <1>6 DEF WaitInZlp, ReadWhole, Payload
    <3>3. Following'
      BY <3>1, <3>2, <2>4, <1>5, <1>6 DEF Following
    <3>. QED
      BY <3>3, <2>5, <2>7, <1>6 DEF ControlInv
  <2>. QED
    BY <2>6, <2>7, <1>1
<1>10. CASE state # "wait in zlp"
  <2>1. setupFlag = FALSE
    BY <1>1, <1>10 DEF Pending
  <2>2. /\ state = "data in" /\ DataIn /\ stalled = FALSE /\ (completed = TRUE => served = 1)
        /\ host.request \in Request /\ host.request.ok = TRUE
    BY <2>1, <1>1, <1>10, TokensDiffer
    DEF Following, ControlType, DataOut, WaitOutZlp
  <2>3. /\ host.request.in = TRUE /\ req = ProcessSetup(host.request) /\ nbTrans <= req.payload
        /\ outOpen = FALSE /\ (shortPacket = TRUE => nbTrans = req.payload)
        /\ nbTrans = host.count /\ host.stopped = FALSE
        /\ host.phase = (IF shortPacket = TRUE \/ nbTrans >= req.length THEN "status" ELSE "data")
    BY <2>2 DEF DataIn
  <2>4. under = FALSE /\ over = FALSE
    BY <2>2, <1>1 DEF BusEvent, ControlType
  <2>5. PICK p : p = Payload(host.request)
    OBVIOUS
  <2>6. /\ p \in Nat /\ req.payload = p /\ req.length \in Nat /\ p <= req.length
        /\ nbTrans \in Nat /\ shortPacket \in BOOLEAN
    BY <2>2, <2>3, <2>5, <1>1, ProcessSetupType DEF ControlType
  <2>7. CASE p - nbTrans = 0 /\ (req.length = nbTrans \/ shortPacket = TRUE)
    <3>1. g = SendZlpOut(d)
      BY <2>2, <2>6, <2>7, <1>3, <1>4 DEF InSent
    <3>2. /\ g \in DriverRecord /\ g.state = "wait out zlp" /\ g.outOpen = TRUE /\ g.tc = <<>>
          /\ g.stalled = FALSE /\ g.callbacks = callbacks /\ g.served = served /\ g.under = FALSE
      BY <3>1, <2>2, <2>4, <1>3, ZlpOutFacts
    <3>3. ControlType'
      BY <3>2, <2>2, <1>7, <1>8
    <3>4. host.phase = "status" /\ host.count = p
      BY <2>3, <2>6, <2>7
    <3>5. ReadWhole'
      BY <3>4, <2>5, <1>6 DEF ReadWhole, Payload
    <3>6. WaitOutZlp'
      BY <3>2, <3>4, <3>5, <2>3, <1>5, <1>6, TokensDiffer DEF WaitOutZlp
    <3>7. Following'
      BY <3>2, <3>6, <2>2, <1>5, <1>6 DEF Following
    <3>. QED
      BY <3>3, <3>7, <2>1, <1>6 DEF ControlInv
  <2>8. CASE ~(p - nbTrans = 0 /\ (req.length = nbTrans \/ shortPacket = TRUE))
    <3>1. PICK n : n = Least(p - nbTrans, EP_CTRL_SIZE)
      OBVIOUS
    <3>2. PICK m : m = nbTrans + n
      OBVIOUS
    <3>3. PICK s \in BOOLEAN : s <=> p - nbTrans < EP_CTRL_SIZE
      OBVIOUS
    <3>4. /\ n \in Nat /\ n \in 0 .. EP_CTRL_SIZE /\ m \in Nat /\ m <= p
          /\ s = TRUE => m = p
          /\ s = TRUE <=> n < EP_CTRL_SIZE
      BY <3>1, <3>2, <3>3, <2>3, <2>6 DEF Least, ControlAssumption
    <3>5. g = [d EXCEPT !.inBank = n, !.nb = m, !.short = s]
      <4>1. d.req.payload - d.nb = p - nbTrans /\ d.nb + n = m
        BY <1>3, <2>6, <3>2
      <4>2. (p - nbTrans < EP_CTRL_SIZE) = s
        BY <3>3
      <4>3. d.state # "wait in zlp" /\ ~(p - nbTrans = 0 /\ (d.req.length = d.nb \/ d.short))
        BY <2>2, <2>6, <2>8, <1>3
      <4>. QED
        BY <4>1, <4>2, <4>3, <3>1, <1>4 DEF InSent
    <3>6. /\ g \in DriverRecord /\ g.state = "data in" /\ g.tc = <<>> /\ g.outOpen = FALSE
          /\ g.stalled = FALSE /\ g.callbacks = callbacks /\ g.served = served /\ g.nb = m
          /\ g.req = req /\ g.over = FALSE /\ g.inBank = n /\ g.short = s
      BY <3>5, <3>4, <2>2, <2>3, <2>4, <1>3 DEF DriverRecord
    <3>7. ControlType'
      BY <3>6, <2>2, <1>7, <1>8
    <3>8. host.phase = "data"
      BY <2>3, <2>6, <2>8
    <3>9. DataIn'
      <4>1. /\ tc' = <<>> /\ req' = req /\ outOpen' = FALSE /\ inBank' = n /\ nbTrans' = m
            /\ over' = FALSE /\ shortPacket' = s
        BY <3>6, <1>5
      <4>2. m = host.count + n
        BY <2>3, <3>2
      <4>. QED
        BY <4>1, <4>2, <3>4, <3>8, <2>3, <2>6, <1>6, TokensDiffer DEF DataIn
    <3>10. Following'
      BY <3>6, <3>9, <2>2, <1>5, <1>6 DEF Following
    <3>. QED
      BY <3>7, <3>10, <2>1, <1>6 DEF ControlInv
  <2>. QED
    BY <2>7, <2>8
<1>. QED
  BY <1>9, <1>10

\* udd_ctrl_out_received, likewise.
LEMMA OutReceivedStep ==
    ASSUME ControlAssumption, ControlInv, tc = <<"out">>, ~BusEvent,
           DriverBecomes(OutReceived([Driver EXCEPT !.tc = <<>>], outBytes)),
           UNCHANGED <<setupFlag, setupData, outBytes, hostVars>>
    PROVE  ControlInv'
<1>. USE DEF hostVars, HostRecord, RequestRecord
<1>1. /\ ControlType /\ (setupFlag = TRUE => Pending) /\ (setupFlag = FALSE => Following)
      /\ setupFlag \in BOOLEAN
  BY DEF ControlInv, ControlType
<1>2. PICK d : d = [Driver EXCEPT !.tc = <<>>]
  OBVIOUS
<1>3. /\ d \in DriverRecord /\ d.state = state /\ d.req = req /\ d.nb = nbTrans
      /\ d.callbacks = callbacks /\ d.served = served /\ d.inBank = inBank
      /\ d.outOpen = outOpen /\ d.stalled = stalled /\ d.tc = <<>>
      /\ d.under = under /\ d.over = over
  <2>1. Driver \in DriverRecord
    BY <1>1, DriverTyped
  <2>2. d \in DriverRecord
    BY <2>1, <1>2 DEF DriverRecord, Tokens
  <2>. QED
    BY <2>2, <1>2 DEF Driver
<1>4. PICK g : g = OutReceived(d, outBytes)
  OBVIOUS
<1>5. /\ state' = g.state /\ req' = g.req /\ nbTrans' = g.nb /\ shortPacket' = g.short
      /\ callbacks' = g.callbacks /\ served' = g.served
      /\ inBank' = g.inBank /\ outOpen' = g.outOpen /\ stalled' = g.stalled
      /\ tc' = g.tc /\ under' = g.under /\ over' = g.over
  BY <1>2, <1>4 DEF DriverBecomes
<1>6. /\ setupFlag' = setupFlag /\ setupData' = setupData /\ host' = host /\ completed' = completed
  OBVIOUS
<1>7. /\ callbacks \in 0 .. 1 /\ served \in 0 .. 1 /\ (state # "setup" => callbacks = 0)
      /\ host.request \in Request \cup {NoRequest}
  BY <1>1 DEF ControlType
<1>8. ASSUME g \in DriverRecord, g.callbacks \in 0 .. 1, g.served = served,
             g.state # "setup" => g.callbacks = 0
      PROVE  ControlType'
  BY <1>1, <1>2, <1>4, <1>6, <1>7, <1>8, BecomesTyped
<1>9. CASE state = "wait out zlp"
  <2>1. PICK c : c = EndOfRequest(d)
    OBVIOUS
  <2>2. /\ c \in DriverRecord /\ c.callbacks = 1 /\ c.tc = <<>> /\ c.served = served
        /\ c.outOpen = outOpen /\ c.stalled = stalled
    <3>1. callbacks = 0
      BY <1>7, <1>9
    <3>2. callbacks + 1 = 1
      BY <3>1
    <3>. QED
      BY <3>2, <1>3, <2>1, EndFacts
  <2>3. g = CtrlInit(c)
    BY <1>3, <1>4, <1>9, <2>1 DEF OutReceived
  <2>4. /\ g \in DriverRecord /\ g.state = "setup" /\ g.tc = <<>> /\ g.inBank = NAK
        /\ g.outOpen = outOpen /\ g.stalled = stalled /\ g.under = FALSE /\ g.over = FALSE
        /\ g.callbacks = 1 /\ g.served = served
    BY <2>2, <2>3, CtrlInitFacts
  <2>5. ControlType'
    BY <2>4, <1>8
  <2>6. CASE setupFlag = TRUE
    <3>1. Pending'
      BY <2>4, <2>6, <1>1, <1>5, <1>6, TokensDiffer DEF Pending
    <3>. QED
      BY <3>1, <2>5, <2>6, <1>6 DEF ControlInv
  <2>7. CASE setupFlag = FALSE
    <3>1. stalled = FALSE /\ (completed = TRUE => served = 1) /\ WaitOutZlp
      BY <2>7, <1>1, <1>9 DEF Following, ControlType
    <3>2. ReadWhole' /\ host'.phase = "done"
      BY <3>1, <1>6 DEF WaitOutZlp, ReadWhole, Payload
    <3>3. Following'
      BY <3>1, <3>2, <2>4, <1>5, <1>6 DEF Following
    <3>. QED
      BY <3>3, <2>5, <2>7, <1>6 DEF ControlInv
  <2>. QED
    BY <2>6, <2>7, <1>1
<1>10. CASE state # "wait out zlp"
  <2>1. setupFlag = FALSE
    BY <1>1, <1>10 DEF Pending
  <2>2. /\ state = "data out" /\ DataOut /\ stalled = FALSE /\ (completed = TRUE => served = 1)
        /\ host.request \in Request /\ host.request.ok = TRUE
    BY <2>1, <1>1, <1>10, TokensDiffer
    DEF Following, ControlType, DataIn, WaitInZlp
  <2>3. PICK l, b : l = host.request.length /\ b = outBytes
    OBVIOUS
  <2>4. req.length = l /\ req.payload = l /\ l \in Nat /\ Payload(host.request) = l
    BY <2>2, <2>3, ProcessSetupType DEF DataOut
  <2>5. /\ host.request.in = FALSE /\ req = ProcessSetup(host.request) /\ nbTrans < l
        /\ inBank = NAK /\ b = Least(EP_CTRL_SIZE, l - nbTrans)
        /\ host.count = nbTrans + b /\ host.stopped = FALSE
        /\ host.phase = (IF host.count = l THEN "status" ELSE "data")
    BY <2>2, <2>3, <2>4 DEF DataOut
  <2>6. under = FALSE /\ over = FALSE
    BY <2>2, <1>1 DEF BusEvent, ControlType
  <2>7. nbTrans \in Nat
    BY <1>1 DEF ControlType
  <2>8. PICK m : m = nbTrans + b
    OBVIOUS
  <2>9. /\ b \in Nat /\ m \in Nat /\ m <= l /\ Least(b, l - nbTrans) = b
        /\ b # EP_CTRL_SIZE => m = l
    BY <2>4, <2>5, <2>7, <2>8 DEF Least, ControlAssumption
  <2>10. CASE m = l
    <3>1. PICK c : c = [d EXCEPT !.nb = m, !.req.payload = m]
      OBVIOUS
    <3>2. /\ c \in DriverRecord /\ c.callbacks = callbacks /\ c.tc = <<>> /\ c.served = served
          /\ c.stalled = FALSE /\ c.over = FALSE
      BY <3>1, <2>2, <2>6, <2>9, <1>3 DEF DriverRecord
    <3>3. g = SendZlpIn(c)
      <4>1. d.state # "wait out zlp" /\ d.req.payload - d.nb = l - nbTrans /\ d.req.length = l /\ d.nb = nbTrans
        BY <2>2, <2>4, <1>3
      <4>2. l <= m
        BY <2>9, <2>10
      <4>. QED
        BY <4>1, <4>2, <3>1, <2>3, <2>8, <2>9, <1>4 DEF OutReceived
    <3>4. /\ g \in DriverRecord /\ g.state = "wait in zlp" /\ g.inBank = 0 /\ g.tc = <<>>
          /\ g.stalled = FALSE /\ g.callbacks = callbacks /\ g.served = served /\ g.over = FALSE
      BY <3>2, <3>3, ZlpInFacts
    <3>5. ControlType'
      BY <3>4, <2>2, <1>7, <1>8
    <3>6. host.phase = "status" /\ host.count = l
      BY <2>5, <2>8, <2>10
    <3>7. ReadWhole'
      BY <3>6, <2>4, <1>6 DEF ReadWhole, Payload
    <3>8. WaitInZlp'
      BY <3>4, <3>6, <3>7, <2>5, <1>5, <1>6, TokensDiffer DEF WaitInZlp
    <3>9. Following'
      BY <3>4, <3>8, <2>2, <1>5, <1>6 DEF Following
    <3>. QED
      BY <3>5, <3>9, <2>1, <1>6 DEF ControlInv
  <2>11. CASE m # l
    <3>1. m < l /\ b = EP_CTRL_SIZE
      BY <2>4, <2>9, <2>11
    <3>2. g = [d EXCEPT !.nb = m, !.outOpen = TRUE, !.tc = Without(@, "out")]
      <4>1. /\ d.state # "wait out zlp" /\ d.req.payload - d.nb = l - nbTrans
            /\ d.req.length = l /\ d.req.payload = l /\ d.nb = nbTrans
        BY <2>2, <2>4, <1>3
      <4>2. ~(b # EP_CTRL_SIZE \/ l <= m) /\ l # m
        BY <3>1, <2>4, <2>9
      <4>. QED
        BY <4>1, <4>2, <2>3, <2>8, <2>9, <1>4 DEF OutReceived
    <3>3. /\ g \in DriverRecord /\ g.state = "data out" /\ g.tc = <<>> /\ g.outOpen = TRUE
          /\ g.stalled = FALSE /\ g.callbacks = callbacks /\ g.served = served /\ g.nb = m
          /\ g.req = req /\ g.under = FALSE /\ g.inBank = NAK
      BY <3>2, <2>2, <2>5, <2>6, <2>9, <1>3, NoneLeft DEF DriverRecord
    <3>4. ControlType'
      BY <3>3, <2>2, <1>7, <1>8
    <3>5. host.phase = "data" /\ host.count = m
      BY <2>5, <2>8, <2>11
    <3>6. DataOut'
      <4>1. /\ tc' = <<>> /\ req' = req /\ outOpen' = TRUE /\ inBank' = NAK /\ nbTrans' = m
            /\ under' = FALSE
        BY <3>3, <1>5
      <4>. QED
        BY <4>1, <3>1, <3>5, <2>4, <2>5, <1>6, TokensDiffer DEF DataOut
    <3>7. Following'
      BY <3>3, <3>6, <2>2, <1>5, <1>6 DEF Following
    <3>. QED
      BY <3>4, <3>7, <2>1, <1>6 DEF ControlInv
  <2>. QED
    BY <2>10, <2>11
<1>. QED
  BY <1>9, <1>10

\* The transfer complete interrupt.
LEMMA CompleteStep ==
    ASSUME ControlAssumption, ControlInv, TransferComplete
    PROVE  ControlInv'
<1>. USE DEF HostRecord, RequestRecord
<1>1. tc \in Tokens /\ setupFlag \in BOOLEAN /\ ControlType
  BY DEF ControlInv, ControlType
<1>2. ~BusEvent /\ UNCHANGED <<setupData, outBytes, hostVars>>
  BY DEF TransferComplete
<1>3. CASE tc = <<"in">>
  <2>1. /\ DriverBecomes(InSent([Driver EXCEPT !.tc = Tail(@)])) /\ UNCHANGED setupFlag
    BY <1>3, TokensDiffer DEF TransferComplete
  <2>2. [Driver EXCEPT !.tc = Tail(@)] = [Driver EXCEPT !.tc = <<>>]
    BY <1>3, TokensDiffer DEF Driver
  <2>. QED
    BY <2>1, <2>2, <1>2, <1>3, InSentStep
<1>4. CASE tc = <<"out">>
  <2>1. /\ DriverBecomes(OutReceived([Driver EXCEPT !.tc = Tail(@)], outBytes)) /\ UNCHANGED setupFlag
    BY <1>4, TokensDiffer DEF TransferComplete
  <2>2. [Driver EXCEPT !.tc = Tail(@)] = [Driver EXCEPT !.tc = <<>>]
    BY <1>4, TokensDiffer DEF Driver
  <2>. QED
    BY <2>1, <2>2, <1>2, <1>4, OutReceivedStep
<1>5. CASE tc = <<>>
  <2>1. /\ setupFlag = TRUE /\ DriverBecomes(SetupReceived(Driver, setupData)) /\ setupFlag' = FALSE
    BY <1>1, <1>5 DEF TransferComplete
  <2>2. Pending
    BY <2>1 DEF ControlInv
  <2>3. inBank = NAK /\ outOpen = FALSE /\ stalled = FALSE
    BY <2>2 DEF Pending
  <2>4. PICK d : d = Driver
    OBVIOUS
  <2>5. d \in DriverRecord
    BY <2>4, <1>1, DriverTyped
  <2>6. /\ d.state = state /\ d.tc = <<>> /\ d.callbacks = callbacks
        /\ d.inBank = NAK /\ d.outOpen = FALSE /\ d.stalled = FALSE
        /\ d.under = under /\ d.over = over
    BY <2>3, <2>4, <1>5 DEF Driver
  <2>. QED
    BY <2>1, <2>4, <2>5, <2>6, <1>2, <1>5, SetupStep
<1>. QED
  BY <1>1, <1>3, <1>4, <1>5 DEF Tokens

\* An underflow or overflow that is only acknowledged.
LEMMA FlagsCleared ==
    ASSUME ControlInv,
           UNCHANGED <<state, req, nbTrans, shortPacket, callbacks, served, inBank, outOpen, stalled, tc>>,
           under' \in {under, FALSE}, over' \in {over, FALSE},
           UNCHANGED <<setupFlag, setupData, outBytes, hostVars>>
    PROVE  ControlInv'
<1>. USE DEF hostVars, HostRecord, RequestRecord
<1>1. ControlType'
  <2>1. under' \in BOOLEAN /\ over' \in BOOLEAN
    BY DEF ControlInv, ControlType
  <2>2. /\ state' = state /\ req' = req /\ nbTrans' = nbTrans /\ shortPacket' = shortPacket
        /\ callbacks' = callbacks /\ served' = served /\ inBank' = inBank /\ outOpen' = outOpen
        /\ stalled' = stalled /\ tc' = tc /\ setupFlag' = setupFlag /\ host' = host
        /\ completed' = completed
    OBVIOUS
  <2>. QED
    BY <2>1, <2>2 DEF ControlInv, ControlType
<1>2. Pending => Pending'
  BY DEF Pending
<1>3. /\ DataIn => DataIn'
      /\ DataOut => DataOut'
      /\ WaitInZlp => WaitInZlp'
      /\ WaitOutZlp => WaitOutZlp'
      /\ ReadWhole => ReadWhole'
  <2>1. ReadWhole => ReadWhole'
    BY DEF ReadWhole
  <2>2. DataIn => DataIn'
    BY DEF DataIn
  <2>3. DataOut => DataOut'
    BY DEF DataOut
  <2>4. WaitInZlp => WaitInZlp'
    BY <2>1 DEF WaitInZlp
  <2>5. WaitOutZlp => WaitOutZlp'
    BY <2>1 DEF WaitOutZlp
  <2>. QED
    BY <2>1, <2>2, <2>3, <2>4, <2>5
<1>4. Following => Following'
  BY <1>3 DEF Following
<1>. QED
  BY <1>1, <1>2, <1>4 DEF ControlInv

\* The bus event interrupt for an IN token: only in a data phase that the host
\* stopped does it do more.
LEMMA UnderflowStep ==
    ASSUME ControlAssumption, ControlInv, Underflow
    PROVE  ControlInv'
<1>. USE DEF HostRecord, RequestRecord
<1>1. /\ ControlType /\ (setupFlag = TRUE => Pending) /\ (setupFlag = FALSE => Following)
      /\ setupFlag \in BOOLEAN /\ under \in BOOLEAN /\ over \in BOOLEAN
  BY DEF ControlInv, ControlType
<1>2. PICK d : d = [Driver EXCEPT !.under = FALSE]
  OBVIOUS
<1>3. /\ d \in DriverRecord /\ d.state = state /\ d.req = req /\ d.nb = nbTrans /\ d.short = shortPacket
      /\ d.callbacks = callbacks /\ d.served = served /\ d.inBank = inBank
      /\ d.outOpen = outOpen /\ d.stalled = stalled /\ d.tc = tc
      /\ d.under = FALSE /\ d.over = over
  <2>1. Driver \in DriverRecord
    BY <1>1, DriverTyped
  <2>2. d \in DriverRecord
    BY <2>1, <1>2 DEF DriverRecord
  <2>. QED
    BY <2>2, <1>2 DEF Driver
<1>4. UNCHANGED <<setupData, outBytes, hostVars>> /\ state # "setup" /\ under = TRUE
  BY <1>1 DEF Underflow, BusEvent
<1>5. ASSUME DriverBecomes(d), UNCHANGED setupFlag
      PROVE  ControlInv'
  <2>1. /\ UNCHANGED <<state, req, nbTrans, shortPacket, callbacks, served, inBank, outOpen, stalled, tc>>
        /\ under' \in {under, FALSE} /\ over' \in {over, FALSE}
    BY <1>3, <1>5 DEF DriverBecomes
  <2>. QED
    BY <2>1, <1>4, <1>5, FlagsCleared
<1>6. CASE tc # <<>>
  <2>1. DriverBecomes(d)
    BY <1>2, <1>6 DEF Underflow, Alone
  <2>2. UNCHANGED setupFlag
    BY <1>1, <1>6 DEF Underflow
  <2>. QED
    BY <2>1, <2>2, <1>5
<1>7. CASE tc = <<>> /\ setupFlag = TRUE
  <2>1. DriverBecomes(SetupReceived(d, setupData))
    BY <1>2, <1>7 DEF Underflow, Alone
  <2>2. setupFlag' = FALSE
    BY <1>7 DEF Underflow
  <2>3. inBank = NAK /\ outOpen = FALSE /\ stalled = FALSE
    BY <1>1, <1>7 DEF Pending
  <2>. QED
    BY <2>1, <2>2, <2>3, <1>3, <1>4, <1>7, SetupStep
<1>8. CASE tc = <<>> /\ setupFlag = FALSE
  <2>1. Alone /\ setupFlag' = FALSE /\ Following
    BY <1>1, <1>8 DEF Alone, Underflow
  <2>2. CASE state = "data out"
    <3>1. DriverBecomes(SendZlpIn(d))
      BY <2>1, <2>2, <1>2, <1>8 DEF Underflow
    <3>2. PICK g : g = SendZlpIn(d)
      OBVIOUS
    <3>3. /\ g \in DriverRecord /\ g.state = "wait in zlp" /\ g.inBank = 0 /\ g.tc = <<>>
          /\ g.stalled = stalled /\ g.callbacks = callbacks /\ g.served = served /\ g.over = over
      BY <3>2, <1>3, <1>8, ZlpInFacts
    <3>4. /\ state' = "wait in zlp" /\ inBank' = 0 /\ tc' = <<>> /\ stalled' = stalled /\ served' = served
          /\ over' = over /\ host' = host /\ completed' = completed
      BY <3>1, <3>2, <3>3, <1>4 DEF DriverBecomes, hostVars
    <3>5. ControlType'
      <4>1. callbacks = 0 /\ served \in 0 .. 1
        BY <2>2, <1>1 DEF ControlType
      <4>2. callbacks \in 0 .. 1
        BY <4>1
      <4>. QED
        BY <4>1, <4>2, <3>1, <3>2, <3>3, <2>1, <1>1, <1>4, BecomesTyped
    <3>6. DataOut
      BY <2>1, <2>2 DEF Following
    <3>7. /\ host.phase = "status" /\ host.stopped = TRUE /\ over = FALSE
          /\ host.request.in = FALSE
      BY <3>6, <1>4, <1>8 DEF DataOut
    <3>8. WaitInZlp'
      BY <3>4, <3>7, TokensDiffer DEF WaitInZlp, ReadWhole
    <3>9. /\ stalled = FALSE /\ (completed = TRUE => served = 1)
          /\ host.request \in Request /\ host.request.ok = TRUE
      BY <2>1, <2>2, <1>1 DEF Following, ControlType
    <3>10. Following'
      BY <3>4, <3>8, <3>9 DEF Following
    <3>. QED
      BY <3>5, <3>10, <2>1 DEF ControlInv
  <2>3. CASE state # "data out"
    <3>1. state # "wait out zlp"
      BY <2>1, <1>4 DEF Following, WaitOutZlp
    <3>2. DriverBecomes(d)
      BY <3>1, <2>3, <1>2, <1>8 DEF Underflow
    <3>. QED
      BY <3>2, <2>1, <1>5, <1>8
  <2>. QED
    BY <2>2, <2>3
<1>. QED
  BY <1>1, <1>6, <1>7, <1>8

\* The same for an OUT token.
LEMMA OverflowStep ==
    ASSUME ControlAssumption, ControlInv, Overflow
    PROVE  ControlInv'
<1>. USE DEF HostRecord, RequestRecord
<1>1. /\ ControlType /\ (setupFlag = TRUE => Pending) /\ (setupFlag = FALSE => Following)
      /\ setupFlag \in BOOLEAN /\ under \in BOOLEAN /\ over \in BOOLEAN
  BY DEF ControlInv, ControlType
<1>2. PICK d : d = [Driver EXCEPT !.over = FALSE]
  OBVIOUS
<1>3. /\ d \in DriverRecord /\ d.state = state /\ d.req = req /\ d.nb = nbTrans /\ d.short = shortPacket
      /\ d.callbacks = callbacks /\ d.served = served /\ d.inBank = inBank
      /\ d.outOpen = outOpen /\ d.stalled = stalled /\ d.tc = tc
      /\ d.over = FALSE /\ d.under = under
  <2>1. Driver \in DriverRecord
    BY <1>1, DriverTyped
  <2>2. d \in DriverRecord
    BY <2>1, <1>2 DEF DriverRecord
  <2>. QED
    BY <2>2, <1>2 DEF Driver
<1>4. UNCHANGED <<setupData, outBytes, hostVars>> /\ state # "setup" /\ over = TRUE
  BY <1>1 DEF Overflow, BusEvent
<1>5. ASSUME DriverBecomes(d), UNCHANGED setupFlag
      PROVE  ControlInv'
  <2>1. /\ UNCHANGED <<state, req, nbTrans, shortPacket, callbacks, served, inBank, outOpen, stalled, tc>>
        /\ under' \in {under, FALSE} /\ over' \in {over, FALSE}
    BY <1>3, <1>5 DEF DriverBecomes
  <2>. QED
    BY <2>1, <1>4, <1>5, FlagsCleared
<1>6. CASE tc # <<>>
  <2>1. DriverBecomes(d)
    BY <1>2, <1>6 DEF Overflow, Alone
  <2>2. UNCHANGED setupFlag
    BY <1>1, <1>6 DEF Overflow
  <2>. QED
    BY <2>1, <2>2, <1>5
<1>7. CASE tc = <<>> /\ setupFlag = TRUE
  <2>1. DriverBecomes(SetupReceived(d, setupData))
    BY <1>2, <1>7 DEF Overflow, Alone
  <2>2. setupFlag' = FALSE
    BY <1>7 DEF Overflow
  <2>3. inBank = NAK /\ outOpen = FALSE /\ stalled = FALSE
    BY <1>1, <1>7 DEF Pending
  <2>. QED
    BY <2>1, <2>2, <2>3, <1>3, <1>4, <1>7, SetupStep
<1>8. CASE tc = <<>> /\ setupFlag = FALSE
  <2>1. Alone /\ setupFlag' = FALSE /\ Following
    BY <1>1, <1>8 DEF Alone, Overflow
  <2>2. CASE state = "data in"
    <3>1. DriverBecomes(SendZlpOut(d))
      BY <2>1, <2>2, <1>2, <1>8 DEF Overflow
    <3>2. PICK g : g = SendZlpOut(d)
      OBVIOUS
    <3>3. /\ g \in DriverRecord /\ g.state = "wait out zlp" /\ g.outOpen = TRUE /\ g.tc = <<>>
          /\ g.stalled = stalled /\ g.callbacks = callbacks /\ g.served = served /\ g.under = under
      BY <3>2, <1>3, <1>8, ZlpOutFacts
    <3>4. /\ state' = "wait out zlp" /\ outOpen' = TRUE /\ tc' = <<>> /\ stalled' = stalled /\ served' = served
          /\ under' = under /\ host' = host /\ completed' = completed
      BY <3>1, <3>2, <3>3, <1>4 DEF DriverBecomes, hostVars
    <3>5. ControlType'
      <4>1. callbacks = 0 /\ served \in 0 .. 1
        BY <2>2, <1>1 DEF ControlType
      <4>2. callbacks \in 0 .. 1
        BY <4>1
      <4>. QED
        BY <4>1, <4>2, <3>1, <3>2, <3>3, <2>1, <1>1, <1>4, BecomesTyped
    <3>6. DataIn
      BY <2>1, <2>2 DEF Following
    <3>7. /\ host.phase = "status" /\ host.stopped = TRUE /\ under = FALSE
          /\ host.request.in = TRUE
      BY <3>6, <1>4, <1>8 DEF DataIn
    <3>8. WaitOutZlp'
      BY <3>4, <3>7, TokensDiffer DEF WaitOutZlp, ReadWhole
    <3>9. /\ stalled = FALSE /\ (completed = TRUE => served = 1)
          /\ host.request \in Request /\ host.request.ok = TRUE
      BY <2>1, <2>2, <1>1 DEF Following, ControlType
    <3>10. Following'
      BY <3>4, <3>8, <3>9 DEF Following
    <3>. QED
      BY <3>5, <3>10, <2>1 DEF ControlInv
  <2>3. CASE state # "data in"
    <3>1. state # "wait in zlp"
      BY <2>1, <1>4 DEF Following, WaitInZlp
    <3>2. DriverBecomes(d)
      BY <3>1, <2>3, <1>2, <1>8 DEF Overflow
    <3>. QED
      BY <3>2, <2>1, <1>5, <1>8
  <2>. QED
    BY <2>2, <2>3
<1>. QED
  BY <1>1, <1>6, <1>7, <1>8

\* A step of the host and the controller keeps the types.
LEMMA HostType ==
    ASSUME ControlType, UNCHANGED driverVars,
           host' \in HostRecord,
           tc' \in Tokens, inBank' \in Nat \cup {NAK}, outOpen' \in BOOLEAN, stalled' \in BOOLEAN,
           setupFlag' \in BOOLEAN, under' \in BOOLEAN, over' \in BOOLEAN, completed' \in BOOLEAN
    PROVE  ControlType'
<1>. USE DEF HostRecord, RequestRecord
<1>1. /\ state' = state /\ req' = req /\ nbTrans' = nbTrans /\ shortPacket' = shortPacket
      /\ callbacks' = callbacks /\ served' = served
  BY DEF driverVars
<1>. QED
  BY <1>1 DEF ControlType

\* The steps of the host: a SETUP, the end of a data phase, an answer STALL, a
\* token that is not answered, and a packet.
LEMMA SetupSent ==
    ASSUME ControlAssumption, ControlInv, NEW r \in Request, HostSetup(r)
    PROVE  ControlInv'
<1>. USE DEF HostRecord, RequestRecord
<1>1. setupFlag = FALSE /\ Following /\ ControlType
  BY DEF HostSetup, ControlInv, ControlType
<1>2. /\ setupFlag' = TRUE /\ setupData' = r /\ inBank' = NAK /\ outOpen' = FALSE /\ stalled' = FALSE
      /\ tc' \in {tc, <<>>} /\ under' = under /\ over' = over
      /\ state' = state /\ callbacks' = callbacks
  BY DEF HostSetup, driverVars
<1>3. /\ host'.request = r /\ host'.stopped = FALSE /\ host'.count = 0
      /\ host'.phase = (IF r.length = 0 THEN "status" ELSE "data")
      /\ completed' = (host.phase = "done")
  BY DEF HostSetup
<1>4. ControlType'
  <2>1. PICK ph \in Phase : ph = IF r.length = 0 THEN "status" ELSE "data"
    BY DEF Phase
  <2>2. host' = [phase |-> ph, request |-> r, stopped |-> FALSE, count |-> 0]
    BY <2>1 DEF HostSetup
  <2>3. host' \in HostRecord
    BY <2>2
  <2>4. completed' \in BOOLEAN /\ UNCHANGED driverVars
    BY DEF HostSetup
  <2>5. tc' \in Tokens /\ under' \in BOOLEAN /\ over' \in BOOLEAN
    BY <1>1, <1>2 DEF ControlType, Tokens
  <2>. QED
    BY <2>3, <2>4, <2>5, <1>1, <1>2, HostType
<1>5. host.phase \in {"data", "status"} => tc = <<>>
  BY DEF HostSetup, Quiet, Alone
<1>6. tc = <<"in">> => state = "wait in zlp"
  BY <1>1, <1>5, TokensDiffer DEF Following, ControlType, DataIn, DataOut, WaitOutZlp
<1>7. tc = <<"out">> => state = "wait out zlp"
  BY <1>1, <1>5, TokensDiffer DEF Following, ControlType, DataIn, DataOut, WaitInZlp
<1>8. host.phase = "done" =>
        state \in {"wait in zlp", "wait out zlp"} \/ (state = "setup" /\ callbacks = 1)
  <2>1. DataIn => host.phase # "done"
    BY <1>1 DEF DataIn, ControlType, Tokens
  <2>2. DataOut => host.phase # "done"
    BY <1>1 DEF DataOut, ControlType, Tokens
  <2>. QED
    BY <2>1, <2>2, <1>1 DEF Following, ControlType
<1>9. state = "setup" => under = FALSE /\ over = FALSE
  BY <1>1 DEF Following
<1>10. Pending'
  <2>1. /\ tc' = <<"in">> => state' = "wait in zlp"
        /\ tc' = <<"out">> => state' = "wait out zlp"
    BY <1>2, <1>6, <1>7, TokensDiffer
  <2>2. completed' = TRUE => state' \in {"wait in zlp", "wait out zlp"} \/ (state' = "setup" /\ callbacks' = 1)
    BY <1>2, <1>3, <1>8
  <2>. QED
    BY <2>1, <2>2, <1>2, <1>3, <1>9 DEF Pending
<1>. QED
  BY <1>2, <1>4, <1>10 DEF ControlInv

LEMMA DataStopped ==
    ASSUME ControlAssumption, ControlInv, HostStopsData
    PROVE  ControlInv'
<1>. USE DEF HostRecord, RequestRecord
<1>1. setupFlag = FALSE /\ Following /\ ControlType /\ tc = <<>> /\ host.phase = "data"
  BY DEF HostStopsData, Quiet, Alone, ControlInv, ControlType
<1>2. /\ host' = [host EXCEPT !.phase = "status", !.stopped = TRUE]
      /\ UNCHANGED <<driverVars, bankVars, eventVars, completed, transfers>>
  BY DEF HostStopsData
<1>3. host \in HostRecord
  BY <1>1 DEF ControlType
<1>4. /\ host' \in HostRecord
      /\ host'.phase = "status" /\ host'.stopped = TRUE /\ host'.request = host.request
      /\ host'.count = host.count
  BY <1>2, <1>3 DEF Phase
<1>5. /\ state' = state /\ req' = req /\ nbTrans' = nbTrans /\ shortPacket' = shortPacket
      /\ callbacks' = callbacks /\ served' = served /\ inBank' = inBank /\ outOpen' = outOpen
      /\ stalled' = stalled /\ tc' = tc /\ setupFlag' = setupFlag /\ under' = under /\ over' = over
      /\ completed' = completed
  BY <1>2 DEF driverVars, bankVars, eventVars
<1>6. ControlType'
  <2>1. /\ tc' \in Tokens /\ inBank' \in Nat \cup {NAK} /\ outOpen' \in BOOLEAN /\ stalled' \in BOOLEAN
        /\ setupFlag' \in BOOLEAN /\ under' \in BOOLEAN /\ over' \in BOOLEAN /\ completed' \in BOOLEAN
    BY <1>1, <1>5 DEF ControlType
  <2>. QED
    BY <2>1, <1>1, <1>2, <1>4, HostType
<1>7. state \in {"stall", "data in", "data out"}
  BY <1>1 DEF Following, ControlType, WaitInZlp, WaitOutZlp
<1>8. under = FALSE /\ over = FALSE
  BY <1>1, <1>7 DEF HostStopsData, Quiet, BusEvent, ControlType
<1>9. DataIn => DataIn'
  BY <1>1, <1>4, <1>5, <1>8, TokensDiffer DEF DataIn
<1>10. DataOut => DataOut'
  BY <1>1, <1>4, <1>5, <1>8, TokensDiffer DEF DataOut
<1>11. Following'
  BY <1>1, <1>4, <1>5, <1>7, <1>9, <1>10 DEF Following
<1>. QED
  BY <1>1, <1>5, <1>6, <1>11 DEF ControlInv

LEMMA RefusedStep ==
    ASSUME ControlInv, stalled = TRUE, Refused, UNCHANGED <<driverVars, completed, transfers>>,
           host.phase \in {"data", "status"}
    PROVE  ControlInv'
<1>. USE DEF HostRecord, RequestRecord
<1>1. ControlType /\ setupFlag = FALSE /\ Following /\ state = "stall"
  BY DEF ControlInv, ControlType, Pending, Following
<1>2. host \in HostRecord
  BY <1>1 DEF ControlType
<1>3. /\ host' \in HostRecord
      /\ host'.phase = "refused" /\ host'.request = host.request
  BY <1>2 DEF Refused, Phase
<1>4. /\ state' = state /\ req' = req /\ nbTrans' = nbTrans /\ shortPacket' = shortPacket
      /\ callbacks' = callbacks /\ served' = served /\ inBank' = inBank /\ outOpen' = outOpen
      /\ stalled' = stalled /\ tc' = tc /\ setupFlag' = setupFlag /\ under' = under /\ over' = over
      /\ completed' = completed
  BY DEF driverVars, bankVars, eventVars, Refused
<1>5. ControlType'
  BY <1>1, <1>3, <1>4 DEF ControlType
<1>6. Following'
  BY <1>1, <1>3, <1>4 DEF Following
<1>. QED
  BY <1>1, <1>4, <1>5, <1>6 DEF ControlInv

LEMMA InUnanswered ==
    ASSUME ControlAssumption, ControlInv, stalled = FALSE, under' = TRUE,
           host.phase = (IF host.request.in THEN "data" ELSE "status"),
           UNCHANGED <<bankVars, tc, setupFlag, over, setupData, outBytes, host>>,
           UNCHANGED <<driverVars, completed, transfers>>
    PROVE  ControlInv'
<1>. USE DEF HostRecord, RequestRecord
<1>1. /\ ControlType /\ (setupFlag = TRUE => Pending) /\ (setupFlag = FALSE => Following)
      /\ setupFlag \in BOOLEAN
  BY DEF ControlInv, ControlType
<1>2. /\ state' = state /\ req' = req /\ nbTrans' = nbTrans /\ shortPacket' = shortPacket
      /\ callbacks' = callbacks /\ served' = served /\ inBank' = inBank /\ outOpen' = outOpen
      /\ stalled' = stalled /\ tc' = tc /\ setupFlag' = setupFlag /\ over' = over
      /\ completed' = completed /\ host' = host /\ setupData' = setupData /\ outBytes' = outBytes
  BY DEF driverVars, bankVars
<1>3. ControlType'
  <2>1. /\ tc' \in Tokens /\ inBank' \in Nat \cup {NAK} /\ outOpen' \in BOOLEAN /\ stalled' \in BOOLEAN
        /\ setupFlag' \in BOOLEAN /\ under' \in BOOLEAN /\ over' \in BOOLEAN /\ completed' \in BOOLEAN
        /\ host' \in HostRecord
    BY <1>1, <1>2 DEF ControlType
  <2>. QED
    BY <2>1, <1>1, HostType
<1>4. host.request.in \in BOOLEAN
  BY <1>1, HostTyped
<1>5. CASE setupFlag = TRUE
  <2>1. Pending'
    <3>0. PICK r \in Request : r = host.request
      BY <1>1, <1>5 DEF Pending
    <3>1. host.request.in = TRUE => host.request.length # 0
      <4>1. r.length \in Nat /\ (r.in = TRUE => r.length > 0)
        BY ProcessSetupType
      <4>. QED
        BY <4>1, <3>0
    <3>. QED
      BY <3>1, <1>1, <1>2, <1>4, <1>5 DEF Pending
  <2>. QED
    BY <2>1, <1>2, <1>3, <1>5 DEF ControlInv
<1>6. CASE setupFlag = FALSE
  <2>1. state \notin {"setup", "stall"}
    BY <1>1, <1>6 DEF Following
  <2>2. DataIn => DataIn'
    BY <1>2, <1>4 DEF DataIn
  <2>3. DataOut => DataOut'
    BY <1>2, <1>4 DEF DataOut
  <2>4. ReadWhole => ReadWhole'
    BY <1>2 DEF ReadWhole, Payload
  <2>5. WaitInZlp => WaitInZlp'
    BY <2>4, <1>2 DEF WaitInZlp
  <2>6. state # "wait out zlp"
    BY <1>1, <1>6 DEF Following, WaitOutZlp, ControlType, Tokens
  <2>7. Following'
    BY <2>1, <2>2, <2>3, <2>5, <2>6, <1>1, <1>2, <1>6 DEF Following
  <2>. QED
    BY <2>7, <1>2, <1>3, <1>6 DEF ControlInv
<1>. QED
  BY <1>1, <1>5, <1>6

LEMMA OutUnanswered ==
    ASSUME ControlAssumption, ControlInv, stalled = FALSE, over' = TRUE,
           host.phase = (IF host.request.in THEN "status" ELSE "data"),
           UNCHANGED <<bankVars, tc, setupFlag, under, setupData, outBytes, host>>,
           UNCHANGED <<driverVars, completed, transfers>>
    PROVE  ControlInv'
<1>. USE DEF HostRecord, RequestRecord
<1>1. /\ ControlType /\ (setupFlag = TRUE => Pending) /\ (setupFlag = FALSE => Following)
      /\ setupFlag \in BOOLEAN
  BY DEF ControlInv, ControlType
<1>2. /\ state' = state /\ req' = req /\ nbTrans' = nbTrans /\ shortPacket' = shortPacket
      /\ callbacks' = callbacks /\ served' = served /\ inBank' = inBank /\ outOpen' = outOpen
      /\ stalled' = stalled /\ tc' = tc /\ setupFlag' = setupFlag /\ under' = under
      /\ completed' = completed /\ host' = host /\ setupData' = setupData /\ outBytes' = outBytes
  BY DEF driverVars, bankVars
<1>3. ControlType'
  <2>1. /\ tc' \in Tokens /\ inBank' \in Nat \cup {NAK} /\ outOpen' \in BOOLEAN /\ stalled' \in BOOLEAN
        /\ setupFlag' \in BOOLEAN /\ under' \in BOOLEAN /\ over' \in BOOLEAN /\ completed' \in BOOLEAN
        /\ host' \in HostRecord
    BY <1>1, <1>2 DEF ControlType
  <2>. QED
    BY <2>1, <1>1, HostType
<1>4. host.request.in \in BOOLEAN
  BY <1>1, HostTyped
<1>5. CASE setupFlag = TRUE
  <2>1. Pending'
    <3>0. PICK r \in Request : r = host.request
      BY <1>1, <1>5 DEF Pending
    <3>1. host.request.in = TRUE => host.request.length # 0
      <4>1. r.length \in Nat /\ (r.in = TRUE => r.length > 0)
        BY ProcessSetupType
      <4>. QED
        BY <4>1, <3>0
    <3>. QED
      BY <3>1, <1>1, <1>2, <1>4, <1>5 DEF Pending
  <2>. QED
    BY <2>1, <1>2, <1>3, <1>5 DEF ControlInv
<1>6. CASE setupFlag = FALSE
  <2>1. state \notin {"setup", "stall"}
    BY <1>1, <1>6 DEF Following
  <2>2. DataIn => DataIn'
    BY <1>2, <1>4 DEF DataIn
  <2>3. DataOut => DataOut'
    BY <1>2, <1>4 DEF DataOut
  <2>4. ReadWhole => ReadWhole'
    BY <1>2 DEF ReadWhole, Payload
  <2>5. WaitOutZlp => WaitOutZlp'
    BY <2>4, <1>2 DEF WaitOutZlp
  <2>6. state # "wait in zlp"
    BY <1>1, <1>6 DEF Following, WaitInZlp, ControlType, Tokens
  <2>7. Following'
    BY <2>1, <2>2, <2>3, <2>5, <2>6, <1>1, <1>2, <1>6 DEF Following
  <2>. QED
    BY <2>7, <1>2, <1>3, <1>6 DEF ControlInv
<1>. QED
  BY <1>1, <1>5, <1>6

LEMMA InStep ==
    ASSUME ControlAssumption, ControlInv, HostIn
    PROVE  ControlInv'
<1>. USE DEF HostRecord, RequestRecord
<1>1. /\ ControlType /\ (setupFlag = TRUE => Pending) /\ (setupFlag = FALSE => Following)
      /\ setupFlag \in BOOLEAN /\ stalled \in BOOLEAN
  BY DEF ControlInv, ControlType
<1>2. /\ host.phase = (IF host.request.in THEN "data" ELSE "status")
      /\ UNCHANGED <<driverVars, completed, transfers>>
  BY DEF HostIn
<1>3. CASE stalled = TRUE
  <2>1. Refused
    BY <1>3 DEF HostIn
  <2>. QED
    BY <2>1, <1>2, <1>3, RefusedStep
<1>4. CASE stalled = FALSE /\ inBank = NAK
  <2>1. under' = TRUE /\ UNCHANGED <<bankVars, tc, setupFlag, over, setupData, outBytes, host>>
    BY <1>4 DEF HostIn
  <2>. QED
    BY <2>1, <1>2, <1>4, InUnanswered
<1>5. CASE stalled = FALSE /\ inBank # NAK
  <2>1. /\ tc' = Append(tc, "in") /\ inBank' = NAK
        /\ UNCHANGED <<outOpen, stalled, setupFlag, under, over, setupData, outBytes>>
    BY <1>5 DEF HostIn
  <2>2. setupFlag = FALSE /\ Following
    BY <1>1, <1>5 DEF Pending
  <2>3. host.request.in \in BOOLEAN /\ host \in HostRecord
    BY <1>1, HostTyped
  <2>4. state \in {"data in", "wait in zlp"}
    <3>1. state \notin {"setup", "stall"}
      BY <1>2, <1>5, <2>2, <2>3 DEF Following
    <3>2. state # "data out"
      BY <1>5, <2>2 DEF Following, DataOut
    <3>3. state # "wait out zlp"
      BY <1>1, <1>2, <2>2 DEF Following, WaitOutZlp, ControlType, Tokens
    <3>. QED
      BY <3>1, <3>2, <3>3, <1>1 DEF ControlType
  <2>5. /\ tc = <<>> /\ inBank \in Nat
    <3>1. tc = <<>>
      BY <2>2, <2>3, <2>4, <1>1, <1>2, <1>5 DEF Following, ControlType, Tokens, DataIn, WaitInZlp
    <3>. QED
      BY <3>1, <1>1, <1>5 DEF ControlType
  <2>6. /\ tc' = <<"in">> /\ state' = state /\ req' = req /\ nbTrans' = nbTrans
        /\ shortPacket' = shortPacket /\ callbacks' = callbacks /\ served' = served
        /\ outOpen' = outOpen /\ stalled' = stalled /\ setupFlag' = FALSE /\ under' = under
        /\ over' = over /\ completed' = completed /\ inBank' = NAK
    BY <1>2, <2>1, <2>2, <2>5, TokensDiffer DEF driverVars
  <2>7. /\ tc' \in Tokens /\ inBank' \in Nat \cup {NAK} /\ outOpen' \in BOOLEAN /\ stalled' \in BOOLEAN
        /\ setupFlag' \in BOOLEAN /\ under' \in BOOLEAN /\ over' \in BOOLEAN /\ completed' \in BOOLEAN
    BY <1>1, <2>6 DEF ControlType, Tokens
  <2>8. /\ host.request \in Request /\ host.request.ok = TRUE /\ (completed = TRUE => served = 1)
    BY <2>2, <2>4 DEF Following
  <2>9. CASE state = "data in"
    <3>1. DataIn
      BY <2>2, <2>9 DEF Following
    <3>2. PICK c \in Nat : c = host.count + inBank
      BY <2>3, <2>5
    <3>3. PICK ph \in Phase : ph = IF inBank < EP_CTRL_SIZE \/ c >= host.request.length THEN "status" ELSE "data"
      BY DEF Phase
    <3>4. host' = [host EXCEPT !.count = c, !.phase = ph]
      BY <3>1, <3>2, <3>3, <1>5 DEF HostIn, DataIn
    <3>5. /\ host' \in HostRecord
          /\ host'.phase = ph /\ host'.count = c /\ host'.stopped = host.stopped
          /\ host'.request = host.request
      BY <3>4, <2>3
    <3>6. ControlType'
      BY <3>5, <2>7, <1>1, <1>2, HostType
    <3>7. /\ host.request.in = TRUE /\ req = ProcessSetup(host.request) /\ nbTrans <= req.payload
          /\ outOpen = FALSE /\ (over = TRUE => host.phase = "status")
          /\ shortPacket = TRUE => nbTrans = req.payload
          /\ nbTrans = c /\ (shortPacket = TRUE <=> inBank < EP_CTRL_SIZE)
      BY <3>1, <3>2, <2>5 DEF DataIn
    <3>8. over = FALSE /\ host.stopped = FALSE
      BY <3>1, <3>7, <2>5, <1>1, <1>2 DEF DataIn, ControlType
    <3>9. req.length = host.request.length
      BY <3>7, <2>8, ProcessSetupType
    <3>10. DataIn'
      BY <3>3, <3>5, <3>7, <3>8, <3>9, <2>6, TokensDiffer DEF DataIn
    <3>11. Following'
      BY <3>5, <3>10, <2>6, <2>8, <2>9, <1>5 DEF Following
    <3>. QED
      BY <3>6, <3>11, <2>6 DEF ControlInv
  <2>10. CASE state = "wait in zlp"
    <3>1. WaitInZlp
      BY <2>2, <2>10 DEF Following
    <3>2. host' = [host EXCEPT !.phase = "done"]
      BY <3>1, <1>5 DEF HostIn, WaitInZlp
    <3>3. /\ host' \in HostRecord
          /\ host'.phase = "done" /\ host'.count = host.count /\ host'.stopped = host.stopped
          /\ host'.request = host.request
      BY <3>2, <2>3 DEF Phase
    <3>4. ControlType'
      BY <3>3, <2>7, <1>1, <1>2, HostType
    <3>5. WaitInZlp'
      BY <3>1, <3>3, <2>6, TokensDiffer DEF WaitInZlp, ReadWhole, Payload
    <3>6. Following'
      BY <3>3, <3>5, <2>6, <2>8, <2>10, <1>5 DEF Following
    <3>. QED
      BY <3>4, <3>6, <2>6 DEF ControlInv
  <2>. QED
    BY <2>4, <2>9, <2>10
<1>. QED
  BY <1>1, <1>3, <1>4, <1>5

LEMMA OutStep ==
    ASSUME ControlAssumption, ControlInv, HostOut
    PROVE  ControlInv'
<1>. USE DEF HostRecord, RequestRecord
<1>1. /\ ControlType /\ (setupFlag = TRUE => Pending) /\ (setupFlag = FALSE => Following)
      /\ setupFlag \in BOOLEAN /\ stalled \in BOOLEAN /\ outOpen \in BOOLEAN
  BY DEF ControlInv, ControlType
<1>2. /\ host.phase = (IF host.request.in THEN "status" ELSE "data")
      /\ UNCHANGED <<driverVars, completed, transfers>>
  BY DEF HostOut
<1>3. CASE stalled = TRUE
  <2>1. Refused
    BY <1>3 DEF HostOut
  <2>. QED
    BY <2>1, <1>2, <1>3, RefusedStep
<1>4. CASE stalled = FALSE /\ outOpen = FALSE
  <2>1. over' = TRUE /\ UNCHANGED <<bankVars, tc, setupFlag, under, setupData, outBytes, host>>
    BY <1>4 DEF HostOut
  <2>. QED
    BY <2>1, <1>2, <1>4, OutUnanswered
<1>5. CASE stalled = FALSE /\ outOpen = TRUE
  <2>1. /\ tc' = Append(tc, "out") /\ outOpen' = FALSE
        /\ UNCHANGED <<inBank, stalled, setupFlag, under, over, setupData>>
    BY <1>5 DEF HostOut
  <2>2. setupFlag = FALSE /\ Following
    BY <1>1, <1>5 DEF Pending
  <2>3. host.request.in \in BOOLEAN /\ host \in HostRecord
    BY <1>1, HostTyped
  <2>4. state \in {"data out", "wait out zlp"}
    <3>1. state \notin {"setup", "stall"}
      BY <1>2, <1>5, <2>2, <2>3 DEF Following
    <3>2. state # "data in"
      BY <1>5, <2>2 DEF Following, DataIn
    <3>3. state # "wait in zlp"
      BY <1>1, <1>2, <2>2 DEF Following, WaitInZlp, ControlType, Tokens
    <3>. QED
      BY <3>1, <3>2, <3>3, <1>1 DEF ControlType
  <2>5. tc = <<>>
    BY <2>2, <2>3, <2>4, <1>1, <1>2, <1>5 DEF Following, ControlType, Tokens, DataOut, WaitOutZlp
  <2>6. /\ tc' = <<"out">> /\ state' = state /\ req' = req /\ nbTrans' = nbTrans
        /\ shortPacket' = shortPacket /\ callbacks' = callbacks /\ served' = served
        /\ outOpen' = FALSE /\ stalled' = stalled /\ setupFlag' = FALSE /\ under' = under
        /\ over' = over /\ completed' = completed /\ inBank' = inBank
    BY <1>2, <2>1, <2>2, <2>5, TokensDiffer DEF driverVars
  <2>7. /\ tc' \in Tokens /\ inBank' \in Nat \cup {NAK} /\ outOpen' \in BOOLEAN /\ stalled' \in BOOLEAN
        /\ setupFlag' \in BOOLEAN /\ under' \in BOOLEAN /\ over' \in BOOLEAN /\ completed' \in BOOLEAN
    BY <1>1, <2>6 DEF ControlType, Tokens
  <2>8. /\ host.request \in Request /\ host.request.ok = TRUE /\ (completed = TRUE => served = 1)
    BY <2>2, <2>4 DEF Following
  <2>9. CASE state = "data out"
    <3>1. DataOut
      BY <2>2, <2>9 DEF Following
    <3>2. PICK l : l = host.request.length
      OBVIOUS
    <3>3. req.length = l /\ l \in Nat /\ req = ProcessSetup(host.request) /\ nbTrans \in Nat
      BY <3>1, <3>2, <2>8, <1>1, ProcessSetupType DEF DataOut, ControlType
    <3>4. /\ host.request.in = FALSE /\ nbTrans < l /\ inBank = NAK /\ host.count = nbTrans
          /\ under = TRUE => host.phase = "status"
      BY <3>1, <3>3, <2>5 DEF DataOut
    <3>5. under = FALSE /\ host.stopped = FALSE
      BY <3>1, <3>4, <2>5, <1>1, <1>2 DEF DataOut, ControlType
    <3>6. PICK n : n = Least(EP_CTRL_SIZE, l - host.count)
      OBVIOUS
    <3>7. n \in Nat /\ host.count + n \in Nat
      BY <3>3, <3>4, <3>6 DEF Least, ControlAssumption
    <3>8. PICK c \in Nat : c = host.count + n
      BY <3>7
    <3>9. PICK ph \in Phase : ph = IF c = l THEN "status" ELSE "data"
      BY DEF Phase
    <3>10. outBytes' = n /\ host' = [host EXCEPT !.count = c, !.phase = ph]
      BY <3>2, <3>4, <3>6, <3>8, <3>9, <1>5 DEF HostOut
    <3>11. /\ host' \in HostRecord
           /\ host'.phase = ph /\ host'.count = c /\ host'.stopped = host.stopped
           /\ host'.request = host.request
      BY <3>10, <2>3
    <3>12. ControlType'
      BY <3>11, <2>7, <1>1, <1>2, HostType
    <3>13. DataOut'
      BY <3>3, <3>4, <3>5, <3>6, <3>8, <3>9, <3>10, <3>11, <2>6, TokensDiffer DEF DataOut
    <3>14. Following'
      BY <3>11, <3>13, <2>6, <2>8, <2>9, <1>5 DEF Following
    <3>. QED
      BY <3>12, <3>14, <2>6 DEF ControlInv
  <2>10. CASE state = "wait out zlp"
    <3>1. WaitOutZlp
      BY <2>2, <2>10 DEF Following
    <3>2. host' = [host EXCEPT !.phase = "done"]
      BY <3>1, <1>5 DEF HostOut, WaitOutZlp
    <3>3. /\ host' \in HostRecord
          /\ host'.phase = "done" /\ host'.count = host.count /\ host'.stopped = host.stopped
          /\ host'.request = host.request
      BY <3>2, <2>3 DEF Phase
    <3>4. ControlType'
      BY <3>3, <2>7, <1>1, <1>2, HostType
    <3>5. WaitOutZlp'
      BY <3>1, <3>3, <2>6, TokensDiffer DEF WaitOutZlp, ReadWhole, Payload
    <3>6. Following'
      BY <3>3, <3>5, <2>6, <2>8, <2>10, <1>5 DEF Following
    <3>. QED
      BY <3>4, <3>6, <2>6 DEF ControlInv
  <2>. QED
    BY <2>4, <2>9, <2>10
<1>. QED
  BY <1>1, <1>3, <1>4, <1>5

\* The invariant holds, one step per action.
LEMMA ControlInvariance ==
    ASSUME ControlAssumption
    PROVE  ControlSpec => []ControlInv
<1>. USE DEF HostRecord, RequestRecord
<1>1. ControlInit => ControlInv
  <2>. SUFFICES ASSUME ControlInit PROVE ControlInv
    OBVIOUS
  <2>1. /\ state = "setup" /\ nbTrans = 0 /\ shortPacket = FALSE /\ callbacks = 0 /\ served = 0
        /\ inBank = NAK /\ outOpen = FALSE /\ stalled = FALSE /\ tc = <<>> /\ setupFlag = FALSE
        /\ under = FALSE /\ over = FALSE /\ completed = FALSE /\ host = Idle
        /\ req = ProcessSetup(NoRequest)
    BY DEF ControlInit
  <2>2. req \in RequestRecord
    BY <2>1 DEF ProcessSetup, NoRequest
  <2>3. /\ host \in HostRecord
        /\ host.phase = "idle"
    <3>1. NoRequest \in Request \cup {NoRequest} /\ 0 \in Nat /\ "idle" \in Phase
      BY DEF Phase
    <3>. QED
      BY <3>1, <2>1 DEF Idle
  <2>4. nbTrans \in Nat /\ callbacks \in 0 .. 1 /\ served \in 0 .. 1
    BY <2>1
  <2>5. ControlType
    BY <2>1, <2>2, <2>3, <2>4 DEF ControlType, Tokens
  <2>6. Following
    BY <2>1, <2>3 DEF Following
  <2>. QED
    BY <2>1, <2>5, <2>6 DEF ControlInv
<1>2. ControlInv /\ [ControlNext]_controlVars => ControlInv'
  <2>. SUFFICES ASSUME ControlInv, [ControlNext]_controlVars PROVE ControlInv'
    OBVIOUS
  <2>1. CASE UNCHANGED controlVars
    <3>1. /\ UNCHANGED <<state, req, nbTrans, shortPacket, callbacks, served, inBank, outOpen, stalled, tc>>
          /\ under' \in {under, FALSE} /\ over' \in {over, FALSE}
          /\ UNCHANGED <<setupFlag, setupData, outBytes, hostVars>>
      BY <2>1 DEF controlVars, driverVars, bankVars, eventVars
    <3>. QED
      BY <3>1, FlagsCleared
  <2>. QED
    BY <2>1, CompleteStep, UnderflowStep, OverflowStep, SetupSent, InStep, OutStep, DataStopped
    DEF ControlNext
<1>. QED
  BY <1>1, <1>2, PTL DEF ControlSpec

\* A control transfer is whole for every size of packet, every length and size
\* of payload and however many transfers a host makes, stops and gives up:
\* what the host reads to the end is the payload, an accepted request is not
\* stalled, its callback runs once, and the assertions of udd_ctrl_in_sent and
\* udd_ctrl_out_received hold.
THEOREM TransfersWhole ==
    ASSUME ControlAssumption
    PROVE  ControlSpec => []TransferWhole
<1>1. ControlInv => TransferWhole
  <2>. SUFFICES ASSUME ControlInv PROVE TransferWhole
    OBVIOUS
  <2>1. /\ ControlType /\ (setupFlag = TRUE => Pending) /\ (setupFlag = FALSE => Following)
        /\ setupFlag \in BOOLEAN /\ tc \in Tokens
    BY DEF ControlInv, ControlType
  <2>2. DataIn \/ DataOut => host.phase \in {"data", "status"}
    BY <2>1 DEF DataIn, DataOut, Tokens
  <2>3. PayloadWhole
    <3>1. setupFlag = TRUE => host.phase \in {"data", "status"}
      BY <2>1 DEF Pending
    <3>2. ASSUME setupFlag = FALSE, host.phase \in {"done", "refused"}, host.request.ok = TRUE
          PROVE  host.phase = "done" /\ ReadWhole
      <4>1. state \in {"setup", "wait in zlp", "wait out zlp"}
        BY <3>2, <2>1, <2>2 DEF Following, ControlType
      <4>2. state = "setup" => host.phase = "done" /\ ReadWhole
        BY <3>2, <2>1 DEF Following
      <4>3. state = "wait in zlp" => host.phase = "done" /\ ReadWhole
        BY <3>2, <2>1 DEF Following, WaitInZlp, Tokens
      <4>4. state = "wait out zlp" => host.phase = "done" /\ ReadWhole
        BY <3>2, <2>1 DEF Following, WaitOutZlp, Tokens
      <4>. QED
        BY <4>1, <4>2, <4>3, <4>4
    <3>3. host.request.ok \in BOOLEAN /\ host.stopped \in BOOLEAN
      BY <2>1, HostTyped DEF HostRecord
    <3>. QED
      BY <3>1, <3>2, <3>3, <2>1 DEF PayloadWhole, ReadWhole, Payload
  <2>4. CallbackOnce
    <3>0. callbacks \in 0 .. 1
      BY <2>1 DEF ControlType
    <3>1. callbacks <= 1
      BY <3>0
    <3>2. Quiet => setupFlag = FALSE /\ tc = <<>>
      BY <2>1 DEF Quiet, Alone
    <3>3. host.phase = "done" /\ Quiet => callbacks = 1
      BY <3>2, <2>1, <2>2 DEF Following, ControlType, WaitInZlp, WaitOutZlp
    <3>4. host.phase = "refused" /\ Quiet => callbacks = 0
      BY <3>2, <2>1, <2>2 DEF Following, ControlType
    <3>5. completed /\ ~setupFlag => served = 1
      BY <2>1 DEF Following, ControlType
    <3>. QED
      BY <3>1, <3>3, <3>4, <3>5 DEF CallbackOnce
  <2>5. PhaseAssertions
    BY <2>1, TokensDiffer
    DEF PhaseAssertions, Tokens, Pending, Following, ControlType, DataIn, DataOut, WaitInZlp, WaitOutZlp
  <2>. QED
    BY <2>3, <2>4, <2>5 DEF TransferWhole
<1>. QED
  BY <1>1, ControlInvariance, PTL

=============================================================================
