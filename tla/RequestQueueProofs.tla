------------------------- MODULE RequestQueueProofs -------------------------
(***************************************************************************)
(* Proofs that the command path of RequestQueue keeps its promises for     *)
(* every queue size, timeout, transmit space and set of commands.          *)
(***************************************************************************)
EXTENDS RequestQueue, Sequences, FiniteSetTheorems, TLAPS

\* The occupied slots are the n that follow the oldest request.
RingAt(n) ==
    /\ \A k \in 0 .. REQUEST_QUEUE_SIZE - 1 : isParsed(Ahead(Oldest, k)) <=> k < n
    /\ currentReceivingRequest = Ahead(Oldest, n)

\* They include all that a pending stop still has to discard.
RingInv ==
    \E n \in 0 .. REQUEST_QUEUE_SIZE : RingAt(n) /\ Doomed <= n

\* What the main loop may rely on at each of its steps.
MainInv ==
    /\ pc \in {"disableWait", "checkNow"} =>
         \/ isParsed(currentProcessingRequest)
         \/ emergencyStopRequest = 1 /\ ~rxActive
    /\ pc \in {"checkStop", "execute", "respond", "send", "disableUsb", "clear"} =>
         isParsed(currentProcessingRequest) /\ emergencyStopRequest # 1
    /\ pc = "settle" => emergencyStopRequest # 1
    /\ pc \in {"reset", "clearStop"} => emergencyStopRequest = 1
    /\ pc = "enableUsb" => emergencyStopRequest = 0
    /\ pc \in {"clear", "settle", "reset", "clearStop", "enableUsb"} => ~rxActive
    /\ pc = "clearStop" => ~peripheralsOn

\* When the wait timer may run, and when a response is under way.
IdleInv ==
    /\ waitResponses <=> pc \in {"poll", "disableWait"}
    /\ response # 0 <=> pc \in {"respond", "send", "acknowledge"}

IInv ==
    /\ TypeOK
    /\ RingInv
    /\ MainInv
    /\ DeafOnlyWhenNeeded
    /\ IdleInv

-----------------------------------------------------------------------------
(* The arithmetic of the ring.                                             *)

\* Any place up to a full turn ahead is a slot.
LEMMA AheadInSlot ==
    ASSUME NEW i \in Slot, NEW k \in 0 .. REQUEST_QUEUE_SIZE
    PROVE  Ahead(i, k) \in Slot
  BY QueueSizeAssumption DEF Slot, Ahead

\* Within a turn, different distances lead to different slots.
LEMMA AheadInjective ==
    ASSUME NEW i \in Slot,
           NEW j \in 0 .. REQUEST_QUEUE_SIZE - 1,
           NEW k \in 0 .. REQUEST_QUEUE_SIZE - 1,
           Ahead(i, j) = Ahead(i, k)
    PROVE  j = k
  BY QueueSizeAssumption DEF Slot, Ahead

\* Every slot is some distance ahead.
LEMMA AheadOnto ==
    ASSUME NEW i \in Slot, NEW s \in Slot
    PROVE  \E k \in 0 .. REQUEST_QUEUE_SIZE - 1 : Ahead(i, k) = s
  <1> DEFINE d == IF s >= i THEN s - i ELSE s - i + REQUEST_QUEUE_SIZE
  <1>1. d \in 0 .. REQUEST_QUEUE_SIZE - 1
    BY QueueSizeAssumption DEF Slot
  <1>2. Ahead(i, d) = s
    BY QueueSizeAssumption DEF Slot, Ahead
  <1> QED
    BY <1>1, <1>2

\* No distance, and a full turn, lead back to the same slot.
LEMMA AheadNone ==
    ASSUME NEW i \in Slot
    PROVE  Ahead(i, 0) = i /\ Ahead(i, REQUEST_QUEUE_SIZE) = i
  BY QueueSizeAssumption DEF Slot, Ahead

\* The two ways of moving one slot on agree.
LEMMA FollowingAhead ==
    ASSUME NEW i \in Slot, NEW k \in 0 .. REQUEST_QUEUE_SIZE - 1
    PROVE  /\ Following(i) \in Slot
           /\ Following(Ahead(i, k)) = Ahead(i, k + 1)
           /\ Ahead(Following(i), k) = Ahead(i, k + 1)
  BY QueueSizeAssumption DEF Slot, Ahead, Following

\* The oldest request's slot is a slot.
LEMMA OldestInSlot ==
    ASSUME TypeOK
    PROVE  Oldest \in Slot
  BY QueueSizeAssumption DEF TypeOK, Oldest, Slot, Following

\* The count the receive callback makes is the length of the run of requests.
LEMMA QueuedCount ==
    ASSUME TypeOK, NEW n \in 0 .. REQUEST_QUEUE_SIZE, RingAt(n)
    PROVE  Cardinality(Queued) = n
  <1> DEFINE f == [k \in 1 .. n |-> Ahead(Oldest, k - 1)]
  <1>1. Oldest \in Slot
    BY OldestInSlot
  <1>2. ASSUME NEW k \in 1 .. n
        PROVE  k - 1 \in 0 .. REQUEST_QUEUE_SIZE - 1 /\ k - 1 < n
    BY QueueSizeAssumption
  <1>3. f \in [1 .. n -> Queued]
    <2> SUFFICES ASSUME NEW k \in 1 .. n
                 PROVE  Ahead(Oldest, k - 1) \in Queued
      OBVIOUS
    <2>1. k - 1 \in 0 .. REQUEST_QUEUE_SIZE /\ k - 1 \in 0 .. REQUEST_QUEUE_SIZE - 1 /\ k - 1 < n
      BY <1>2, QueueSizeAssumption
    <2>2. Ahead(Oldest, k - 1) \in Slot
      BY <1>1, <2>1, AheadInSlot
    <2> QED
      BY <2>1, <2>2 DEF RingAt, Queued
  <1>4. ASSUME NEW j \in 1 .. n, NEW k \in 1 .. n, f[j] = f[k]
        PROVE  j = k
    <2>1. j - 1 \in 0 .. REQUEST_QUEUE_SIZE - 1 /\ k - 1 \in 0 .. REQUEST_QUEUE_SIZE - 1
      BY <1>2
    <2>2. Ahead(Oldest, j - 1) = Ahead(Oldest, k - 1)
      BY <1>4
    <2>3. j - 1 = k - 1
      BY <1>1, <2>1, <2>2, AheadInjective
    <2> QED
      BY <2>3
  <1>5. ASSUME NEW s \in Queued
        PROVE  \E k \in 1 .. n : f[k] = s
    <2>1. s \in Slot /\ isParsed(s)
      BY DEF Queued
    <2>2. PICK k \in 0 .. REQUEST_QUEUE_SIZE - 1 : Ahead(Oldest, k) = s
      BY <1>1, <2>1, AheadOnto
    <2>3. k < n
      BY <2>1, <2>2 DEF RingAt
    <2>4. k + 1 \in 1 .. n /\ (k + 1) - 1 = k
      BY <2>3
    <2>5. f[k + 1] = s
      BY <2>2, <2>4
    <2> QED
      BY <2>4, <2>5
  <1>6. f \in Bijection(1 .. n, Queued)
    BY <1>3, <1>4, <1>5 DEF Bijection, Injection, IsInjective, Surjection
  <1>7. ExistsBijection(1 .. n, Queued)
    BY <1>6 DEF ExistsBijection
  <1> QED
    BY <1>7, FS_CountingElements

-----------------------------------------------------------------------------
(* The invariant.                                                          *)

\* A step that leaves the ring, the oldest slot and the count of condemned
\* requests alone leaves the ring invariant alone.
LEMMA RingUnchanged ==
    ASSUME RingInv, UNCHANGED ringVars, Oldest' = Oldest, Doomed' = Doomed
    PROVE  RingInv'
  BY DEF RingInv, RingAt, ringVars, isParsed

\* The firmware starts in the invariant.
LEMMA InitInvariant ==
    Init => IInv
  <1> SUFFICES ASSUME Init PROVE IInv
    OBVIOUS
  <1> USE QueueSizeAssumption, TimeoutAssumption, TransmitAssumption
  <1>1. TypeOK
    <2>1. 0 \in Slot /\ requests \in [Slot -> Command \cup {NoRequest}]
      BY DEF Init, Slot
    <2>2. /\ emergencyStopRequest \in 0 .. REQUEST_QUEUE_SIZE + 1
          /\ inactivityCounter \in 0 .. INACTIVITY_TIMEOUT_SECONDS - 1
          /\ response \in 0 .. MAX_RESPONSE
          /\ txUsed \in 0 .. TX_BUFFERS
      BY DEF Init, NO_EMERGENCY_STOP
    <2> QED
      BY <2>1, <2>2 DEF Init, TypeOK, MainStep
  <1>2. Oldest = 0 /\ Doomed = 0
    BY DEF Init, Oldest, Doomed
  <1>3. RingAt(0)
    BY <1>2, AheadInSlot DEF Init, RingAt, isParsed, Slot, Ahead
  <1>4. RingInv
    BY <1>2, <1>3 DEF RingInv
  <1>5. MainInv /\ DeafOnlyWhenNeeded /\ IdleInv
    BY DEF Init, MainInv, DeafOnlyWhenNeeded, IdleInv, NO_EMERGENCY_STOP
  <1> QED
    BY <1>1, <1>4, <1>5 DEF IInv

\* Every step of the firmware keeps the invariant.
LEMMA StepInvariant ==
    IInv /\ [Next]_vars => IInv'
  <1> SUFFICES ASSUME IInv, [Next]_vars PROVE IInv'
    OBVIOUS
  <1> USE QueueSizeAssumption, TimeoutAssumption, TransmitAssumption, CommandAssumption
        DEF IInv
  <1>1. CASE UNCHANGED vars
    <2>1. TypeOK' /\ MainInv' /\ DeafOnlyWhenNeeded' /\ IdleInv'
      BY <1>1 DEF vars, ringVars, stopVars, sendVars, idleVars, TypeOK, MainInv, DeafOnlyWhenNeeded, IdleInv, isParsed
    <2>2. RingInv'
      BY <1>1, RingUnchanged DEF vars, ringVars, stopVars, Oldest, Doomed
    <2> QED
      BY <2>1, <2>2
  <1>2. CASE BeginPacket
    <2>1. TypeOK'
      BY <1>2 DEF BeginPacket, UsbInterrupt, ringVars, stopVars, sendVars, idleVars, TypeOK, MainStep, MainInv, NO_EMERGENCY_STOP
    <2>2. MainInv' /\ DeafOnlyWhenNeeded' /\ IdleInv'
      BY <1>2 DEF BeginPacket, UsbInterrupt, ringVars, stopVars, sendVars, idleVars, TypeOK, MainInv, DeafOnlyWhenNeeded, IdleInv, isParsed, NO_EMERGENCY_STOP, EMERGENCY_STOP_NOW
    <2>3. RingInv'
      BY <1>2, RingUnchanged DEF BeginPacket, UsbInterrupt, ringVars, stopVars, Oldest, Doomed, TypeOK, MainInv, NO_EMERGENCY_STOP, EMERGENCY_STOP_NOW
    <2> QED
      BY <2>1, <2>2, <2>3
  <1>3. CASE EndPacket
    <2>1. TypeOK'
      BY <1>3 DEF EndPacket, ringVars, stopVars, sendVars, idleVars, TypeOK, MainStep, MainInv, NO_EMERGENCY_STOP
    <2>2. MainInv' /\ DeafOnlyWhenNeeded' /\ IdleInv'
      BY <1>3 DEF EndPacket, ringVars, stopVars, sendVars, idleVars, TypeOK, MainInv, DeafOnlyWhenNeeded, IdleInv, isParsed, NO_EMERGENCY_STOP, EMERGENCY_STOP_NOW
    <2>3. RingInv'
      BY <1>3, RingUnchanged DEF EndPacket, ringVars, stopVars, Oldest, Doomed, TypeOK, MainInv, NO_EMERGENCY_STOP, EMERGENCY_STOP_NOW
    <2> QED
      BY <2>1, <2>2, <2>3
  <1>4. CASE TransferComplete
    <2>1. TypeOK'
      BY <1>4 DEF TransferComplete, UsbInterrupt, ringVars, stopVars, sendVars, idleVars, TypeOK, MainStep, MainInv, NO_EMERGENCY_STOP
    <2>2. MainInv' /\ DeafOnlyWhenNeeded' /\ IdleInv'
      BY <1>4 DEF TransferComplete, UsbInterrupt, ringVars, stopVars, sendVars, idleVars, TypeOK, MainInv, DeafOnlyWhenNeeded, IdleInv, isParsed, NO_EMERGENCY_STOP, EMERGENCY_STOP_NOW
    <2>3. RingInv'
      BY <1>4, RingUnchanged DEF TransferComplete, UsbInterrupt, ringVars, stopVars, Oldest, Doomed, TypeOK, MainInv, NO_EMERGENCY_STOP, EMERGENCY_STOP_NOW
    <2> QED
      BY <2>1, <2>2, <2>3
  <1>5. CASE DataEnable
    <2>1. TypeOK'
      BY <1>5 DEF DataEnable, UsbInterrupt, ringVars, stopVars, sendVars, idleVars, TypeOK, MainStep, MainInv, NO_EMERGENCY_STOP
    <2>2. MainInv' /\ DeafOnlyWhenNeeded' /\ IdleInv'
      BY <1>5 DEF DataEnable, UsbInterrupt, ringVars, stopVars, sendVars, idleVars, TypeOK, MainInv, DeafOnlyWhenNeeded, IdleInv, isParsed, NO_EMERGENCY_STOP, EMERGENCY_STOP_NOW
    <2>3. RingInv'
      BY <1>5, RingUnchanged DEF DataEnable, UsbInterrupt, ringVars, stopVars, Oldest, Doomed, TypeOK, MainInv, NO_EMERGENCY_STOP, EMERGENCY_STOP_NOW
    <2> QED
      BY <2>1, <2>2, <2>3
  <1>6. CASE cdcDisconnectCallback
    <2>1. TypeOK'
      BY <1>6 DEF cdcDisconnectCallback, UsbInterrupt, ringVars, stopVars, sendVars, idleVars, TypeOK, MainStep, MainInv, NO_EMERGENCY_STOP
    <2>2. MainInv' /\ DeafOnlyWhenNeeded' /\ IdleInv'
      BY <1>6 DEF cdcDisconnectCallback, UsbInterrupt, ringVars, stopVars, sendVars, idleVars, TypeOK, MainInv, DeafOnlyWhenNeeded, IdleInv, isParsed, NO_EMERGENCY_STOP, EMERGENCY_STOP_NOW
    <2>3. RingInv'
      BY <1>6, RingUnchanged DEF cdcDisconnectCallback, UsbInterrupt, ringVars, stopVars, Oldest, Doomed, TypeOK, MainInv, NO_EMERGENCY_STOP, EMERGENCY_STOP_NOW
    <2> QED
      BY <2>1, <2>2, <2>3
  <1>7. CASE WaitTimer
    <2>1. TypeOK'
      <3>1. txUsed' \in 0 .. TX_BUFFERS
        BY <1>7 DEF WaitTimer, WithMessage, TypeOK
      <3>2. inactivityCounter' \in 0 .. INACTIVITY_TIMEOUT_SECONDS - 1
        BY <1>7 DEF WaitTimer, TypeOK
      <3>3. peripheralsOn' \in BOOLEAN
        BY <1>7 DEF WaitTimer, TypeOK
      <3> QED
        BY <1>7, <3>1, <3>2, <3>3 DEF WaitTimer, ringVars, stopVars, sendVars, idleVars, TypeOK
    <2>2. MainInv' /\ DeafOnlyWhenNeeded' /\ IdleInv'
      BY <1>7 DEF WaitTimer, WithMessage, ringVars, stopVars, sendVars, idleVars, TypeOK, MainInv, DeafOnlyWhenNeeded, IdleInv, isParsed, NO_EMERGENCY_STOP, EMERGENCY_STOP_NOW
    <2>3. RingInv'
      BY <1>7, RingUnchanged DEF WaitTimer, WithMessage, ringVars, stopVars, Oldest, Doomed, TypeOK, MainInv, NO_EMERGENCY_STOP, EMERGENCY_STOP_NOW
    <2> QED
      BY <2>1, <2>2, <2>3
  <1>8. CASE Poll
    <2>1. TypeOK'
      BY <1>8 DEF Poll, At, ringVars, stopVars, sendVars, idleVars, TypeOK, MainStep, MainInv, NO_EMERGENCY_STOP
    <2>2. MainInv' /\ DeafOnlyWhenNeeded' /\ IdleInv'
      BY <1>8 DEF Poll, At, ringVars, stopVars, sendVars, idleVars, TypeOK, MainInv, DeafOnlyWhenNeeded, IdleInv, isParsed, NO_EMERGENCY_STOP, EMERGENCY_STOP_NOW
    <2>3. RingInv'
      BY <1>8, RingUnchanged DEF Poll, At, ringVars, stopVars, Oldest, Doomed, TypeOK, MainInv, NO_EMERGENCY_STOP, EMERGENCY_STOP_NOW
    <2> QED
      BY <2>1, <2>2, <2>3
  <1>9. CASE disableSendingWaitResponses
    <2>1. TypeOK'
      BY <1>9 DEF disableSendingWaitResponses, At, ringVars, stopVars, sendVars, idleVars, TypeOK, MainStep, MainInv, NO_EMERGENCY_STOP
    <2>2. MainInv' /\ DeafOnlyWhenNeeded' /\ IdleInv'
      BY <1>9 DEF disableSendingWaitResponses, At, ringVars, stopVars, sendVars, idleVars, TypeOK, MainInv, DeafOnlyWhenNeeded, IdleInv, isParsed, NO_EMERGENCY_STOP, EMERGENCY_STOP_NOW
    <2>3. RingInv'
      BY <1>9, RingUnchanged DEF disableSendingWaitResponses, At, ringVars, stopVars, Oldest, Doomed, TypeOK, MainInv, NO_EMERGENCY_STOP, EMERGENCY_STOP_NOW
    <2> QED
      BY <2>1, <2>2, <2>3
  <1>10. CASE CheckStopNow
    <2>1. TypeOK'
      BY <1>10 DEF CheckStopNow, At, ringVars, stopVars, sendVars, idleVars, TypeOK, MainStep, MainInv, NO_EMERGENCY_STOP
    <2>2. MainInv' /\ DeafOnlyWhenNeeded' /\ IdleInv'
      BY <1>10 DEF CheckStopNow, At, ringVars, stopVars, sendVars, idleVars, TypeOK, MainInv, DeafOnlyWhenNeeded, IdleInv, isParsed, NO_EMERGENCY_STOP, EMERGENCY_STOP_NOW
    <2>3. RingInv'
      BY <1>10, RingUnchanged DEF CheckStopNow, At, ringVars, stopVars, Oldest, Doomed, TypeOK, MainInv, NO_EMERGENCY_STOP, EMERGENCY_STOP_NOW
    <2> QED
      BY <2>1, <2>2, <2>3
  <1>11. CASE CheckStop
    <2>1. TypeOK'
      BY <1>11 DEF CheckStop, At, ringVars, stopVars, sendVars, idleVars, TypeOK, MainStep, MainInv, NO_EMERGENCY_STOP
    <2>2. MainInv' /\ DeafOnlyWhenNeeded' /\ IdleInv'
      BY <1>11 DEF CheckStop, At, ringVars, stopVars, sendVars, idleVars, TypeOK, MainInv, DeafOnlyWhenNeeded, IdleInv, isParsed, NO_EMERGENCY_STOP, EMERGENCY_STOP_NOW
    <2>3. RingInv'
      BY <1>11, RingUnchanged DEF CheckStop, At, ringVars, stopVars, Oldest, Doomed, TypeOK, MainInv, NO_EMERGENCY_STOP, EMERGENCY_STOP_NOW
    <2> QED
      BY <2>1, <2>2, <2>3
  <1>12. CASE Execute
    <2>1. TypeOK'
      BY <1>12 DEF Execute, At, ringVars, stopVars, sendVars, idleVars, TypeOK, MainStep, MainInv, NO_EMERGENCY_STOP
    <2>2. MainInv' /\ DeafOnlyWhenNeeded' /\ IdleInv'
      BY <1>12 DEF Execute, At, ringVars, stopVars, sendVars, idleVars, TypeOK, MainInv, DeafOnlyWhenNeeded, IdleInv, isParsed, NO_EMERGENCY_STOP, EMERGENCY_STOP_NOW
    <2>3. RingInv'
      BY <1>12, RingUnchanged DEF Execute, At, ringVars, stopVars, Oldest, Doomed, TypeOK, MainInv, NO_EMERGENCY_STOP, EMERGENCY_STOP_NOW
    <2> QED
      BY <2>1, <2>2, <2>3
  <1>13. CASE Respond
    <2>1. TypeOK'
      BY <1>13 DEF Respond, At, ringVars, stopVars, sendVars, idleVars, TypeOK, MainStep, MainInv, NO_EMERGENCY_STOP
    <2>2. MainInv' /\ DeafOnlyWhenNeeded' /\ IdleInv'
      BY <1>13 DEF Respond, At, ringVars, stopVars, sendVars, idleVars, TypeOK, MainInv, DeafOnlyWhenNeeded, IdleInv, isParsed, NO_EMERGENCY_STOP, EMERGENCY_STOP_NOW
    <2>3. RingInv'
      BY <1>13, RingUnchanged DEF Respond, At, ringVars, stopVars, Oldest, Doomed, TypeOK, MainInv, NO_EMERGENCY_STOP, EMERGENCY_STOP_NOW
    <2> QED
      BY <2>1, <2>2, <2>3
  <1>14. CASE Send
    <2>1. TypeOK'
      BY <1>14 DEF Send, SendDataToUsb, ringVars, stopVars, sendVars, idleVars, TypeOK, MainStep, MainInv, NO_EMERGENCY_STOP
    <2>2. MainInv' /\ DeafOnlyWhenNeeded' /\ IdleInv'
      BY <1>14 DEF Send, SendDataToUsb, ringVars, stopVars, sendVars, idleVars, TypeOK, MainInv, DeafOnlyWhenNeeded, IdleInv, isParsed, NO_EMERGENCY_STOP, EMERGENCY_STOP_NOW
    <2>3. RingInv'
      BY <1>14, RingUnchanged DEF Send, SendDataToUsb, ringVars, stopVars, Oldest, Doomed, TypeOK, MainInv, NO_EMERGENCY_STOP, EMERGENCY_STOP_NOW
    <2> QED
      BY <2>1, <2>2, <2>3
  <1>15. CASE disableUsbInterrupts
    <2>1. TypeOK'
      BY <1>15 DEF disableUsbInterrupts, At, ringVars, stopVars, sendVars, idleVars, TypeOK, MainStep, MainInv, NO_EMERGENCY_STOP
    <2>2. MainInv' /\ DeafOnlyWhenNeeded' /\ IdleInv'
      BY <1>15 DEF disableUsbInterrupts, At, ringVars, stopVars, sendVars, idleVars, TypeOK, MainInv, DeafOnlyWhenNeeded, IdleInv, isParsed, NO_EMERGENCY_STOP, EMERGENCY_STOP_NOW
    <2>3. RingInv'
      BY <1>15, RingUnchanged DEF disableUsbInterrupts, At, ringVars, stopVars, Oldest, Doomed, TypeOK, MainInv, NO_EMERGENCY_STOP, EMERGENCY_STOP_NOW
    <2> QED
      BY <2>1, <2>2, <2>3
  <1>16. CASE SettleStop
    <2>1. TypeOK'
      <3>1. emergencyStopRequest' \in 0 .. REQUEST_QUEUE_SIZE + 1
        BY <1>16 DEF SettleStop, TypeOK, NO_EMERGENCY_STOP
      <3>2. usbInterrupts' \in BOOLEAN
        BY <1>16 DEF SettleStop, TypeOK
      <3> QED
        BY <1>16, <3>1, <3>2 DEF SettleStop, At, ringVars, stopVars, sendVars, idleVars, TypeOK, MainStep
    <2>2. MainInv' /\ DeafOnlyWhenNeeded' /\ IdleInv'
      BY <1>16 DEF SettleStop, At, ringVars, stopVars, sendVars, idleVars, TypeOK, MainInv, DeafOnlyWhenNeeded, IdleInv, isParsed, NO_EMERGENCY_STOP, EMERGENCY_STOP_NOW
    <2>3. RingInv'
      BY <1>16, RingUnchanged DEF SettleStop, At, ringVars, stopVars, Oldest, Doomed, TypeOK, MainInv, NO_EMERGENCY_STOP, EMERGENCY_STOP_NOW
    <2> QED
      BY <2>1, <2>2, <2>3
  <1>17. CASE resetPeripherals
    <2>1. TypeOK'
      BY <1>17 DEF resetPeripherals, At, ringVars, stopVars, sendVars, idleVars, TypeOK, MainStep, MainInv, NO_EMERGENCY_STOP
    <2>2. MainInv' /\ DeafOnlyWhenNeeded' /\ IdleInv'
      BY <1>17 DEF resetPeripherals, At, ringVars, stopVars, sendVars, idleVars, TypeOK, MainInv, DeafOnlyWhenNeeded, IdleInv, isParsed, NO_EMERGENCY_STOP, EMERGENCY_STOP_NOW
    <2>3. RingInv'
      BY <1>17, RingUnchanged DEF resetPeripherals, At, ringVars, stopVars, Oldest, Doomed, TypeOK, MainInv, NO_EMERGENCY_STOP, EMERGENCY_STOP_NOW
    <2> QED
      BY <2>1, <2>2, <2>3
  <1>18. CASE ClearStop
    <2>1. TypeOK'
      BY <1>18 DEF ClearStop, At, ringVars, stopVars, sendVars, idleVars, TypeOK, MainStep, MainInv, NO_EMERGENCY_STOP
    <2>2. MainInv' /\ DeafOnlyWhenNeeded' /\ IdleInv'
      BY <1>18 DEF ClearStop, At, ringVars, stopVars, sendVars, idleVars, TypeOK, MainInv, DeafOnlyWhenNeeded, IdleInv, isParsed, NO_EMERGENCY_STOP, EMERGENCY_STOP_NOW
    <2>3. RingInv'
      BY <1>18, RingUnchanged DEF ClearStop, At, ringVars, stopVars, Oldest, Doomed, TypeOK, MainInv, NO_EMERGENCY_STOP, EMERGENCY_STOP_NOW
    <2> QED
      BY <2>1, <2>2, <2>3
  <1>19. CASE enableUsbInterrupts
    <2>1. TypeOK'
      BY <1>19 DEF enableUsbInterrupts, At, ringVars, stopVars, sendVars, idleVars, TypeOK, MainStep, MainInv, NO_EMERGENCY_STOP
    <2>2. MainInv' /\ DeafOnlyWhenNeeded' /\ IdleInv'
      BY <1>19 DEF enableUsbInterrupts, At, ringVars, stopVars, sendVars, idleVars, TypeOK, MainInv, DeafOnlyWhenNeeded, IdleInv, isParsed, NO_EMERGENCY_STOP, EMERGENCY_STOP_NOW
    <2>3. RingInv'
      BY <1>19, RingUnchanged DEF enableUsbInterrupts, At, ringVars, stopVars, Oldest, Doomed, TypeOK, MainInv, NO_EMERGENCY_STOP, EMERGENCY_STOP_NOW
    <2> QED
      BY <2>1, <2>2, <2>3
  <1>20. CASE Acknowledge
    <2>1. TypeOK'
      BY <1>20 DEF Acknowledge, SendDataToUsb, ringVars, stopVars, sendVars, idleVars, TypeOK, MainStep, MainInv, NO_EMERGENCY_STOP
    <2>2. MainInv' /\ DeafOnlyWhenNeeded' /\ IdleInv'
      BY <1>20 DEF Acknowledge, SendDataToUsb, ringVars, stopVars, sendVars, idleVars, TypeOK, MainInv, DeafOnlyWhenNeeded, IdleInv, isParsed, NO_EMERGENCY_STOP, EMERGENCY_STOP_NOW
    <2>3. RingInv'
      BY <1>20, RingUnchanged DEF Acknowledge, SendDataToUsb, ringVars, stopVars, Oldest, Doomed, TypeOK, MainInv, NO_EMERGENCY_STOP, EMERGENCY_STOP_NOW
    <2> QED
      BY <2>1, <2>2, <2>3
  <1>21. CASE enableSendingWaitResponses
    <2>1. TypeOK'
      BY <1>21 DEF enableSendingWaitResponses, At, ringVars, stopVars, sendVars, idleVars, TypeOK, MainStep, MainInv, NO_EMERGENCY_STOP
    <2>2. MainInv' /\ DeafOnlyWhenNeeded' /\ IdleInv'
      BY <1>21 DEF enableSendingWaitResponses, At, ringVars, stopVars, sendVars, idleVars, TypeOK, MainInv, DeafOnlyWhenNeeded, IdleInv, isParsed, NO_EMERGENCY_STOP, EMERGENCY_STOP_NOW
    <2>3. RingInv'
      BY <1>21, RingUnchanged DEF enableSendingWaitResponses, At, ringVars, stopVars, Oldest, Doomed, TypeOK, MainInv, NO_EMERGENCY_STOP, EMERGENCY_STOP_NOW
    <2> QED
      BY <2>1, <2>2, <2>3
  <1>22. ASSUME NEW c \in Command, ReceiveCommand(c) PROVE IInv'
    <2>1. CASE isParsed(currentReceivingRequest)
      <3>1. TypeOK' /\ MainInv' /\ DeafOnlyWhenNeeded' /\ IdleInv'
        BY <1>22, <2>1 DEF ReceiveCommand, ringVars, stopVars, sendVars, idleVars, TypeOK, MainInv, DeafOnlyWhenNeeded, IdleInv, isParsed
      <3>2. RingInv'
        BY <1>22, <2>1, RingUnchanged DEF ReceiveCommand, ringVars, stopVars, Oldest, Doomed
      <3> QED
        BY <3>1, <3>2
    <2>2. CASE ~isParsed(currentReceivingRequest)
      <3>1. TypeOK'
        BY <1>22, <2>2, FollowingAhead DEF ReceiveCommand, ringVars, stopVars, sendVars, idleVars, TypeOK, Slot, Following
      <3>2. MainInv' /\ DeafOnlyWhenNeeded' /\ IdleInv'
        BY <1>22, <2>2 DEF ReceiveCommand, ringVars, stopVars, sendVars, idleVars, TypeOK, MainInv, DeafOnlyWhenNeeded, IdleInv, isParsed
      <3>3. Oldest \in Slot /\ Oldest' = Oldest /\ Doomed' = Doomed
        BY <1>22, <2>2, OldestInSlot DEF ReceiveCommand, stopVars, Oldest, Doomed
      <3>4. PICK n \in 0 .. REQUEST_QUEUE_SIZE : RingAt(n) /\ Doomed <= n
        BY DEF RingInv
      <3>5. n < REQUEST_QUEUE_SIZE
        BY <2>2, <3>3, <3>4, AheadNone DEF RingAt
      <3>6. n \in 0 .. REQUEST_QUEUE_SIZE - 1 /\ n + 1 \in 0 .. REQUEST_QUEUE_SIZE
        BY <3>5
      <3>7. currentReceivingRequest' = Ahead(Oldest', n + 1)
        BY <1>22, <2>2, <3>3, <3>4, <3>6, FollowingAhead DEF ReceiveCommand, RingAt
      <3>8. ASSUME NEW j \in 0 .. REQUEST_QUEUE_SIZE - 1
            PROVE  isParsed(Ahead(Oldest, j))' <=> j < n + 1
        <4>1. Ahead(Oldest, j) \in Slot /\ Ahead(Oldest', j) = Ahead(Oldest, j)
          BY <3>3, AheadInSlot DEF Ahead
        <4>2. CASE j = n
          BY <1>22, <2>2, <3>3, <3>4, <4>1, <4>2 DEF ReceiveCommand, RingAt, isParsed, TypeOK
        <4>3. CASE j # n
          <5>1. Ahead(Oldest, j) # currentReceivingRequest
            BY <3>3, <3>4, <3>6, <4>3, AheadInjective DEF RingAt
          <5>2. isParsed(Ahead(Oldest, j))' <=> isParsed(Ahead(Oldest, j))
            BY <1>22, <2>2, <4>1, <5>1 DEF ReceiveCommand, isParsed, TypeOK
          <5> QED
            BY <3>4, <4>3, <5>2 DEF RingAt
        <4> QED
          BY <4>2, <4>3
      <3>9. RingInv'
        <4>1. RingAt(n + 1)'
          BY <3>7, <3>8 DEF RingAt
        <4>2. Doomed' <= n + 1
          BY <3>3, <3>4, <3>6 DEF TypeOK, Doomed
        <4> QED
          BY <3>6, <4>1, <4>2 DEF RingInv
      <3> QED
        BY <3>1, <3>2, <3>9
    <2> QED
      BY <2>1, <2>2
  <1>23. CASE ReceiveStop
    <2>1. PICK n \in 0 .. REQUEST_QUEUE_SIZE : RingAt(n) /\ Doomed <= n
      BY DEF RingInv
    <2>2. Cardinality(Queued) = n
      BY <2>1, QueuedCount
    <2>3. emergencyStopRequest' = n + 1
      BY <1>23, <2>2 DEF ReceiveStop, EMERGENCY_STOP_NOW
    <2>4. TypeOK'
      <3>1. emergencyStopRequest' \in 0 .. REQUEST_QUEUE_SIZE + 1
        BY <2>3
      <3> QED
        BY <1>23, <3>1 DEF ReceiveStop, ringVars, stopVars, sendVars, idleVars, TypeOK
    <2>5. pc \notin {"clear", "settle", "reset", "clearStop", "enableUsb"}
      BY <1>23 DEF ReceiveStop, MainInv
    <2>6. isParsed(currentProcessingRequest) /\ pc # "advance" => n >= 1
      BY <2>1, <2>5, AheadNone DEF RingAt, Oldest, TypeOK
    <2>7. MainInv' /\ DeafOnlyWhenNeeded' /\ IdleInv'
      BY <1>23, <2>3, <2>5, <2>6 DEF ReceiveStop, ringVars, stopVars, sendVars, idleVars, TypeOK, MainInv, DeafOnlyWhenNeeded, IdleInv, isParsed, NO_EMERGENCY_STOP
    <2>8. RingInv'
      <3>1. Oldest' = Oldest /\ Doomed' = n
        BY <1>23, <2>3, <2>5 DEF ReceiveStop, ringVars, Oldest, Doomed, NO_EMERGENCY_STOP
      <3>2. RingAt(n)'
        BY <1>23, <2>1, <3>1 DEF ReceiveStop, ringVars, RingAt, isParsed
      <3> QED
        BY <3>1, <3>2 DEF RingInv
    <2> QED
      BY <2>4, <2>7, <2>8
  <1>24. CASE ExecuteReset
    <2>1. Init'
      BY <1>24 DEF ExecuteReset, Init
    <2> QED
      BY <2>1, InitInvariant, PTL
  <1>25. CASE ClearRequest
    <2> DEFINE i == currentProcessingRequest
    <2>1. TypeOK'
      BY <1>25 DEF ClearRequest, At, ringVars, stopVars, sendVars, idleVars, TypeOK, MainStep
    <2>2. MainInv' /\ DeafOnlyWhenNeeded' /\ IdleInv'
      BY <1>25 DEF ClearRequest, At, ringVars, stopVars, sendVars, idleVars, TypeOK, MainInv, DeafOnlyWhenNeeded, IdleInv, isParsed, NO_EMERGENCY_STOP
    <2>3. i \in Slot /\ Oldest = i /\ Oldest' = Following(i)
      BY <1>25 DEF ClearRequest, At, Oldest, TypeOK
    <2>4. PICK n \in 0 .. REQUEST_QUEUE_SIZE : RingAt(n) /\ Doomed <= n
      BY DEF RingInv
    <2>5. n >= 1
      BY <1>25, <2>3, <2>4, AheadNone DEF ClearRequest, At, MainInv, RingAt
    <2>6. n - 1 \in 0 .. REQUEST_QUEUE_SIZE - 1
      BY <2>5
    <2>7. currentReceivingRequest' = Ahead(Oldest', n - 1)
      BY <1>25, <2>3, <2>4, <2>6, FollowingAhead DEF ClearRequest, RingAt
    <2>8. ASSUME NEW j \in 0 .. REQUEST_QUEUE_SIZE - 1
          PROVE  isParsed(Ahead(Oldest, j))' <=> j < n - 1
      <3>1. Ahead(Oldest', j) = Ahead(i, j + 1)
        BY <2>3, FollowingAhead
      <3>2. CASE j = REQUEST_QUEUE_SIZE - 1
        <4>1. Ahead(Oldest', j) = i
          BY <2>3, <3>1, <3>2, AheadNone
        <4> QED
          BY <1>25, <2>3, <3>2, <4>1 DEF ClearRequest, isParsed, TypeOK, Ahead
      <3>3. CASE j # REQUEST_QUEUE_SIZE - 1
        <4>1. j + 1 \in 0 .. REQUEST_QUEUE_SIZE - 1
          BY <3>3
        <4>2. Ahead(i, j + 1) # i
          BY <2>3, <4>1, AheadInjective, AheadNone
        <4>3. Ahead(i, j + 1) \in Slot
          BY <2>3, <4>1, AheadInSlot
        <4>4. requests'[Ahead(i, j + 1)] = requests[Ahead(i, j + 1)]
          BY <1>25, <4>2, <4>3 DEF ClearRequest, TypeOK
        <4>5. isParsed(Ahead(i, j + 1)) <=> j + 1 < n
          BY <2>3, <2>4, <4>1 DEF RingAt
        <4> QED
          BY <3>1, <4>4, <4>5 DEF isParsed, Ahead
      <3> QED
        BY <3>2, <3>3
    <2>9. RingInv'
      <3>1. RingAt(n - 1)'
        BY <2>7, <2>8 DEF RingAt
      <3>2. Doomed' <= n - 1
        BY <1>25, <2>4, <2>5 DEF ClearRequest, At, stopVars, Doomed, MainInv, TypeOK, NO_EMERGENCY_STOP
      <3> QED
        BY <2>6, <3>1, <3>2 DEF RingInv
    <2> QED
      BY <2>1, <2>2, <2>9
  <1>26. CASE Advance
    <2>1. TypeOK'
      BY <1>26, FollowingAhead DEF Advance, At, ringVars, stopVars, sendVars, idleVars, TypeOK, MainStep, Slot, Following
    <2>2. MainInv' /\ DeafOnlyWhenNeeded' /\ IdleInv'
      BY <1>26 DEF Advance, At, ringVars, stopVars, sendVars, idleVars, TypeOK, MainInv, DeafOnlyWhenNeeded, IdleInv, isParsed
    <2>3. Oldest' = Oldest /\ Doomed' = Doomed
      BY <1>26 DEF Advance, At, stopVars, Oldest, Doomed
    <2>4. RingInv'
      BY <1>26, <2>3 DEF Advance, RingInv, RingAt, isParsed
    <2> QED
      BY <2>1, <2>2, <2>4
  <1> QED
    BY <1>1, <1>2, <1>3, <1>4, <1>5, <1>6, <1>7, <1>8, <1>9, <1>10, <1>11, <1>12, <1>13, <1>14, <1>15, <1>16, <1>17, <1>18, <1>19, <1>20, <1>21, <1>22, <1>23, <1>24, <1>25, <1>26 DEF Next, MainLoop

-----------------------------------------------------------------------------
(* The theorems.                                                           *)

\* The inductive invariant holds throughout.
THEOREM Invariance ==
    Spec => []IInv
  BY InitInvariant, StepInvariant, PTL DEF Spec

\* The indices, counters and flags of the command path keep their ranges.
THEOREM TypeCorrect ==
    Spec => []TypeOK
  BY Invariance, PTL DEF IInv

\* The occupied slots are always one run between the main loop's index and the
\* receive callback's.
THEOREM RingCorrect ==
    Spec => []QueueIsRing
  <1>1. IInv => QueueIsRing
    BY DEF IInv, RingInv, RingAt, QueueIsRing
  <1> QED
    BY <1>1, Invariance, PTL

\* The receive callback drops a command only when the ring is full.
THEOREM DropsCorrect ==
    Spec => []DropsOnlyWhenFull
  <1>1. IInv => DropsOnlyWhenFull
    <2> SUFFICES ASSUME IInv, isParsed(currentReceivingRequest) PROVE Queued = Slot
      BY DEF DropsOnlyWhenFull
    <2>1. Oldest \in Slot
      BY OldestInSlot DEF IInv
    <2>2. PICK n \in 0 .. REQUEST_QUEUE_SIZE : RingAt(n)
      BY DEF IInv, RingInv
    <2>3. n = REQUEST_QUEUE_SIZE
      <3> SUFFICES ASSUME n # REQUEST_QUEUE_SIZE PROVE FALSE
        OBVIOUS
      <3>1. n \in 0 .. REQUEST_QUEUE_SIZE - 1
        BY QueueSizeAssumption
      <3> QED
        BY <2>2, <3>1 DEF RingAt
    <2>4. ASSUME NEW s \in Slot PROVE isParsed(s)
      <3>1. PICK k \in 0 .. REQUEST_QUEUE_SIZE - 1 : Ahead(Oldest, k) = s
        BY <2>1, AheadOnto
      <3> QED
        BY <2>2, <2>3, <3>1, QueueSizeAssumption DEF RingAt
    <2> QED
      BY <2>4 DEF Queued
  <1> QED
    BY <1>1, Invariance, PTL

\* The main loop never waits for a condemned request that is not there.
THEOREM DiscardsCorrect ==
    Spec => []DiscardsAreQueued
  <1>1. IInv => DiscardsAreQueued
    <2> SUFFICES ASSUME IInv, pc = "poll", emergencyStopRequest > 1
                 PROVE  isParsed(currentProcessingRequest)
      BY DEF DiscardsAreQueued, EMERGENCY_STOP_NOW
    <2>1. Oldest = currentProcessingRequest /\ Oldest \in Slot
      BY DEF Oldest, IInv, TypeOK
    <2>2. PICK n \in 0 .. REQUEST_QUEUE_SIZE : RingAt(n) /\ Doomed <= n
      BY DEF IInv, RingInv
    <2>3. n >= 1
      BY <2>2 DEF Doomed, NO_EMERGENCY_STOP, IInv, TypeOK
    <2> QED
      BY <2>1, <2>2, <2>3, AheadNone, QueueSizeAssumption DEF RingAt
  <1> QED
    BY <1>1, Invariance, PTL

\* USB is deaf exactly during a stop or a critical section of the main loop.
THEOREM DeafCorrect ==
    Spec => []DeafOnlyWhenNeeded
  BY Invariance, PTL DEF IInv

\* The wait timer and the main loop never write responses at the same time.
THEOREM SingleWriterCorrect ==
    Spec => []SingleWriter
  <1>1. IInv => SingleWriter
    BY DEF IInv, IdleInv, SingleWriter
  <1> QED
    BY <1>1, Invariance, PTL

\* A pending stop ends only with the peripherals off.
THEOREM StopTurnsOffCorrect ==
    Spec => ObeyedStopTurnsOff
  <1> DEFINE TurnsOff == emergencyStopRequest # 0 /\ emergencyStopRequest' = 0 => ~peripheralsOn'
  <1>1. IInv /\ [Next]_vars => [TurnsOff]_vars
    <2> SUFFICES ASSUME IInv, Next, emergencyStopRequest # 0, emergencyStopRequest' = 0
                 PROVE  ~peripheralsOn'
      OBVIOUS
    <2>1. CASE ReceiveStop
      <3>1. PICK n \in 0 .. REQUEST_QUEUE_SIZE : RingAt(n)
        BY DEF IInv, RingInv
      <3>2. Cardinality(Queued) = n
        BY <3>1, QueuedCount DEF IInv
      <3> QED
        BY <2>1, <3>2 DEF ReceiveStop, EMERGENCY_STOP_NOW
    <2>2. CASE SettleStop
      BY <2>2 DEF SettleStop, At, IInv, MainInv, TypeOK, NO_EMERGENCY_STOP
    <2>3. CASE ClearStop
      BY <2>3 DEF ClearStop, At, idleVars, IInv, MainInv
    <2>4. CASE ExecuteReset
      BY <2>4 DEF ExecuteReset
    <2> QED
      BY <2>1, <2>2, <2>3, <2>4
         DEF Next, MainLoop, BeginPacket, ReceiveCommand, EndPacket, TransferComplete,
             DataEnable, cdcDisconnectCallback, WaitTimer, Poll, disableSendingWaitResponses,
             CheckStopNow, CheckStop, Execute, Respond, Send, disableUsbInterrupts,
             ClearRequest, Advance, resetPeripherals, enableUsbInterrupts, Acknowledge,
             enableSendingWaitResponses, SendDataToUsb, stopVars
  <1> QED
    BY <1>1, Invariance, PTL DEF Spec, ObeyedStopTurnsOff

-----------------------------------------------------------------------------
(* The ring implements the queue of CommandQueue.                          *)

\* The queue seen from outside, without counting.
LEMMA ContentsOfRing ==
    ASSUME TypeOK, NEW n \in 0 .. REQUEST_QUEUE_SIZE, RingAt(n)
    PROVE  /\ Contents = [k \in 1 .. n |-> requests[Ahead(Oldest, k - 1)]]
           /\ Contents \in Seq(Command \cup {NoRequest})
           /\ Len(Contents) = n
  <1>1. Contents = [k \in 1 .. n |-> requests[Ahead(Oldest, k - 1)]]
    BY QueuedCount DEF Contents
  <1>2. ASSUME NEW k \in 1 .. n
        PROVE  requests[Ahead(Oldest, k - 1)] \in Command \cup {NoRequest}
    <2>1. k - 1 \in 0 .. REQUEST_QUEUE_SIZE
      BY QueueSizeAssumption
    <2>2. Ahead(Oldest, k - 1) \in Slot
      BY <2>1, OldestInSlot, AheadInSlot
    <2> QED
      BY <2>2 DEF TypeOK
  <1> QED
    BY <1>1, <1>2, QueueSizeAssumption

\* The count of the run again, in the form in which it can be primed.
LEMMA RingCount ==
    \A n \in 0 .. REQUEST_QUEUE_SIZE : TypeOK /\ RingAt(n) => Cardinality(Queued) = n
  BY QueuedCount

\* Nothing changes outside while the ring and its oldest slot stay the same.
LEMMA ContentsUnchanged ==
    ASSUME UNCHANGED ringVars, Oldest' = Oldest
    PROVE  Contents' = Contents
  BY DEF Contents, Queued, isParsed, ringVars, Ahead

\* Every step of the firmware is a step of the queue or invisible to it.
LEMMA StepImplements ==
    IInv /\ IInv' /\ [Next]_vars => [Promised!Next]_(Promised!vars)
  <1> SUFFICES ASSUME IInv, IInv', [Next]_vars
               PROVE  [Promised!Next]_(Promised!vars)
    OBVIOUS
  <1> USE QueueSizeAssumption DEF IInv
  <1>1. (\A n \in 0 .. REQUEST_QUEUE_SIZE : TypeOK /\ RingAt(n) => Cardinality(Queued) = n)'
    BY RingCount, PTL
  <1>2. CASE UNCHANGED vars
    <2>1. Oldest' = Oldest /\ UNCHANGED ringVars
      BY <1>2 DEF vars, ringVars, Oldest
    <2>2. Doomed' = Doomed /\ PhaseOf' = PhaseOf
      BY <1>2 DEF vars, stopVars, Doomed, PhaseOf
    <2> QED
      BY <2>1, <2>2, ContentsUnchanged DEF Promised!vars
  <1>3. CASE BeginPacket
    <2>1. Oldest' = Oldest /\ UNCHANGED ringVars
      BY <1>3 DEF BeginPacket, UsbInterrupt, ringVars, Oldest
    <2>2. Doomed' = Doomed /\ PhaseOf' = PhaseOf
      BY <1>3 DEF BeginPacket, UsbInterrupt, stopVars, Doomed, PhaseOf, MainInv, TypeOK, NO_EMERGENCY_STOP, EMERGENCY_STOP_NOW
    <2> QED
      BY <2>1, <2>2, ContentsUnchanged DEF Promised!vars
  <1>4. CASE EndPacket
    <2>1. Oldest' = Oldest /\ UNCHANGED ringVars
      BY <1>4 DEF EndPacket, ringVars, Oldest
    <2>2. Doomed' = Doomed /\ PhaseOf' = PhaseOf
      BY <1>4 DEF EndPacket, stopVars, Doomed, PhaseOf, MainInv, TypeOK, NO_EMERGENCY_STOP, EMERGENCY_STOP_NOW
    <2> QED
      BY <2>1, <2>2, ContentsUnchanged DEF Promised!vars
  <1>5. CASE TransferComplete
    <2>1. Oldest' = Oldest /\ UNCHANGED ringVars
      BY <1>5 DEF TransferComplete, UsbInterrupt, ringVars, Oldest
    <2>2. Doomed' = Doomed /\ PhaseOf' = PhaseOf
      BY <1>5 DEF TransferComplete, UsbInterrupt, stopVars, Doomed, PhaseOf, MainInv, TypeOK, NO_EMERGENCY_STOP, EMERGENCY_STOP_NOW
    <2> QED
      BY <2>1, <2>2, ContentsUnchanged DEF Promised!vars
  <1>6. CASE DataEnable
    <2>1. Oldest' = Oldest /\ UNCHANGED ringVars
      BY <1>6 DEF DataEnable, UsbInterrupt, ringVars, Oldest
    <2>2. Doomed' = Doomed /\ PhaseOf' = PhaseOf
      BY <1>6 DEF DataEnable, UsbInterrupt, stopVars, Doomed, PhaseOf, MainInv, TypeOK, NO_EMERGENCY_STOP, EMERGENCY_STOP_NOW
    <2> QED
      BY <2>1, <2>2, ContentsUnchanged DEF Promised!vars
  <1>7. CASE cdcDisconnectCallback
    <2>1. Oldest' = Oldest /\ UNCHANGED ringVars
      BY <1>7 DEF cdcDisconnectCallback, UsbInterrupt, ringVars, Oldest
    <2>2. Doomed' = Doomed /\ PhaseOf' = PhaseOf
      BY <1>7 DEF cdcDisconnectCallback, UsbInterrupt, stopVars, Doomed, PhaseOf, MainInv, TypeOK, NO_EMERGENCY_STOP, EMERGENCY_STOP_NOW
    <2> QED
      BY <2>1, <2>2, ContentsUnchanged DEF Promised!vars
  <1>8. CASE WaitTimer
    <2>1. Oldest' = Oldest /\ UNCHANGED ringVars
      BY <1>8 DEF WaitTimer, ringVars, Oldest
    <2>2. Doomed' = Doomed /\ PhaseOf' = PhaseOf
      BY <1>8 DEF WaitTimer, stopVars, Doomed, PhaseOf, MainInv, TypeOK, NO_EMERGENCY_STOP, EMERGENCY_STOP_NOW
    <2> QED
      BY <2>1, <2>2, ContentsUnchanged DEF Promised!vars
  <1>9. CASE Poll
    <2>1. Oldest' = Oldest /\ UNCHANGED ringVars
      BY <1>9 DEF Poll, At, ringVars, Oldest
    <2>2. Doomed' = Doomed /\ PhaseOf' = PhaseOf
      BY <1>9 DEF Poll, At, stopVars, Doomed, PhaseOf, MainInv, TypeOK, NO_EMERGENCY_STOP, EMERGENCY_STOP_NOW
    <2> QED
      BY <2>1, <2>2, ContentsUnchanged DEF Promised!vars
  <1>10. CASE disableSendingWaitResponses
    <2>1. Oldest' = Oldest /\ UNCHANGED ringVars
      BY <1>10 DEF disableSendingWaitResponses, At, ringVars, Oldest
    <2>2. Doomed' = Doomed /\ PhaseOf' = PhaseOf
      BY <1>10 DEF disableSendingWaitResponses, At, stopVars, Doomed, PhaseOf, MainInv, TypeOK, NO_EMERGENCY_STOP, EMERGENCY_STOP_NOW
    <2> QED
      BY <2>1, <2>2, ContentsUnchanged DEF Promised!vars
  <1>11. CASE CheckStopNow
    <2>1. Oldest' = Oldest /\ UNCHANGED ringVars
      BY <1>11 DEF CheckStopNow, At, ringVars, Oldest
    <2>2. Doomed' = Doomed /\ PhaseOf' = PhaseOf
      BY <1>11 DEF CheckStopNow, At, stopVars, Doomed, PhaseOf, MainInv, TypeOK, NO_EMERGENCY_STOP, EMERGENCY_STOP_NOW
    <2> QED
      BY <2>1, <2>2, ContentsUnchanged DEF Promised!vars
  <1>12. CASE Execute
    <2>1. Oldest' = Oldest /\ UNCHANGED ringVars
      BY <1>12 DEF Execute, At, ringVars, Oldest
    <2>2. Doomed' = Doomed /\ PhaseOf' = PhaseOf
      BY <1>12 DEF Execute, At, stopVars, Doomed, PhaseOf, MainInv, TypeOK, NO_EMERGENCY_STOP, EMERGENCY_STOP_NOW
    <2> QED
      BY <2>1, <2>2, ContentsUnchanged DEF Promised!vars
  <1>13. CASE Send
    <2>1. Oldest' = Oldest /\ UNCHANGED ringVars
      BY <1>13 DEF Send, SendDataToUsb, ringVars, Oldest
    <2>2. Doomed' = Doomed /\ PhaseOf' = PhaseOf
      BY <1>13 DEF Send, SendDataToUsb, stopVars, Doomed, PhaseOf, MainInv, TypeOK, NO_EMERGENCY_STOP, EMERGENCY_STOP_NOW
    <2> QED
      BY <2>1, <2>2, ContentsUnchanged DEF Promised!vars
  <1>14. CASE disableUsbInterrupts
    <2>1. Oldest' = Oldest /\ UNCHANGED ringVars
      BY <1>14 DEF disableUsbInterrupts, At, ringVars, Oldest
    <2>2. Doomed' = Doomed /\ PhaseOf' = PhaseOf
      BY <1>14 DEF disableUsbInterrupts, At, stopVars, Doomed, PhaseOf, MainInv, TypeOK, NO_EMERGENCY_STOP, EMERGENCY_STOP_NOW
    <2> QED
      BY <2>1, <2>2, ContentsUnchanged DEF Promised!vars
  <1>15. CASE SettleStop
    <2>1. Oldest' = Oldest /\ UNCHANGED ringVars
      BY <1>15 DEF SettleStop, At, ringVars, Oldest
    <2>2. CASE emergencyStopRequest = NO_EMERGENCY_STOP
      <3>1. Doomed' = Doomed /\ PhaseOf' = PhaseOf
        BY <1>15, <2>2 DEF SettleStop, At, Doomed, PhaseOf
      <3> QED
        BY <2>1, <3>1, ContentsUnchanged DEF Promised!vars
    <2>3. CASE emergencyStopRequest # NO_EMERGENCY_STOP
      <3>1. emergencyStopRequest \in Int /\ emergencyStopRequest >= 2
        BY <1>15, <2>3 DEF SettleStop, At, MainInv, TypeOK, NO_EMERGENCY_STOP
      <3>2. Doomed' = Doomed /\ PhaseOf' = PhaseOf
        BY <1>15, <2>3, <3>1 DEF SettleStop, At, Doomed, PhaseOf, NO_EMERGENCY_STOP
      <3> QED
        BY <2>1, <3>2, ContentsUnchanged DEF Promised!vars
    <2> QED
      BY <2>2, <2>3
  <1>16. CASE Advance
    <2>1. Oldest' = Oldest /\ Doomed' = Doomed /\ PhaseOf' = PhaseOf
      BY <1>16 DEF Advance, At, stopVars, Oldest, Doomed, PhaseOf
    <2>2. Contents' = Contents
      BY <1>16, <2>1 DEF Advance, Contents, Queued, isParsed, Ahead
    <2> QED
      BY <2>1, <2>2 DEF Promised!vars
  <1>17. CASE resetPeripherals
    <2>1. Oldest' = Oldest /\ UNCHANGED ringVars
      BY <1>17 DEF resetPeripherals, At, ringVars, Oldest
    <2>2. Doomed' = Doomed /\ PhaseOf' = PhaseOf
      BY <1>17 DEF resetPeripherals, At, stopVars, Doomed, PhaseOf, MainInv, TypeOK, NO_EMERGENCY_STOP, EMERGENCY_STOP_NOW
    <2> QED
      BY <2>1, <2>2, ContentsUnchanged DEF Promised!vars
  <1>18. CASE enableUsbInterrupts
    <2>1. Oldest' = Oldest /\ UNCHANGED ringVars
      BY <1>18 DEF enableUsbInterrupts, At, ringVars, Oldest
    <2>2. Doomed' = Doomed /\ PhaseOf' = PhaseOf
      BY <1>18 DEF enableUsbInterrupts, At, stopVars, Doomed, PhaseOf, MainInv, TypeOK, NO_EMERGENCY_STOP, EMERGENCY_STOP_NOW
    <2> QED
      BY <2>1, <2>2, ContentsUnchanged DEF Promised!vars
  <1>19. CASE Acknowledge
    <2>1. Oldest' = Oldest /\ UNCHANGED ringVars
      BY <1>19 DEF Acknowledge, SendDataToUsb, ringVars, Oldest
    <2>2. Doomed' = Doomed /\ PhaseOf' = PhaseOf
      BY <1>19 DEF Acknowledge, SendDataToUsb, stopVars, Doomed, PhaseOf, MainInv, TypeOK, NO_EMERGENCY_STOP, EMERGENCY_STOP_NOW
    <2> QED
      BY <2>1, <2>2, ContentsUnchanged DEF Promised!vars
  <1>20. CASE enableSendingWaitResponses
    <2>1. Oldest' = Oldest /\ UNCHANGED ringVars
      BY <1>20 DEF enableSendingWaitResponses, At, ringVars, Oldest
    <2>2. Doomed' = Doomed /\ PhaseOf' = PhaseOf
      BY <1>20 DEF enableSendingWaitResponses, At, stopVars, Doomed, PhaseOf, MainInv, TypeOK, NO_EMERGENCY_STOP, EMERGENCY_STOP_NOW
    <2> QED
      BY <2>1, <2>2, ContentsUnchanged DEF Promised!vars
  <1>21. CASE CheckStop
    <2>1. Oldest' = Oldest /\ UNCHANGED ringVars /\ Doomed' = Doomed
      BY <1>21 DEF CheckStop, At, ringVars, stopVars, Oldest, Doomed
    <2>2. Contents' = Contents
      BY <2>1, ContentsUnchanged
    <2>3. CASE emergencyStopRequest = NO_EMERGENCY_STOP
      <3>1. PhaseOf = "waiting" /\ PhaseOf' = "running"
        BY <1>21, <2>3 DEF CheckStop, At, stopVars, PhaseOf
      <3>2. PICK n \in 0 .. REQUEST_QUEUE_SIZE : RingAt(n)
        BY DEF RingInv
      <3>3. n >= 1
        BY <1>21, <3>2, AheadNone DEF CheckStop, At, MainInv, RingAt, Oldest, TypeOK
      <3>4. Contents # <<>>
        BY <3>2, <3>3, ContentsOfRing
      <3>5. Promised!Start
        BY <2>1, <2>2, <3>1, <3>4 DEF Promised!Start
      <3> QED
        BY <3>5 DEF Promised!Next
    <2>4. CASE emergencyStopRequest # NO_EMERGENCY_STOP
      <3>1. PhaseOf' = PhaseOf
        BY <1>21, <2>4 DEF CheckStop, stopVars, PhaseOf
      <3> QED
        BY <2>1, <2>2, <3>1 DEF Promised!vars
    <2> QED
      BY <2>3, <2>4
  <1>22. CASE Respond
    <2>1. Oldest' = Oldest /\ UNCHANGED ringVars /\ Doomed' = Doomed
      BY <1>22 DEF Respond, At, ringVars, stopVars, Oldest, Doomed
    <2>2. Contents' = Contents
      BY <2>1, ContentsUnchanged
    <2>3. CASE emergencyStopRequest = NO_EMERGENCY_STOP
      <3>1. PhaseOf = "running" /\ PhaseOf' = "answered"
        BY <1>22, <2>3 DEF Respond, At, stopVars, PhaseOf
      <3>2. Promised!Answer
        BY <2>1, <2>2, <3>1 DEF Promised!Answer
      <3> QED
        BY <3>2 DEF Promised!Next
    <2>4. CASE emergencyStopRequest # NO_EMERGENCY_STOP
      <3>1. PhaseOf' = PhaseOf
        BY <1>22, <2>4 DEF Respond, stopVars, PhaseOf
      <3> QED
        BY <2>1, <2>2, <3>1 DEF Promised!vars
    <2> QED
      BY <2>3, <2>4
  <1>23. CASE ClearStop
    <2>1. Oldest' = Oldest /\ UNCHANGED ringVars
      BY <1>23 DEF ClearStop, At, ringVars, Oldest
    <2>2. Contents' = Contents
      BY <2>1, ContentsUnchanged
    <2>3. PhaseOf = "stopped" /\ Doomed = 0
      BY <1>23 DEF ClearStop, At, MainInv, PhaseOf, Doomed, NO_EMERGENCY_STOP
    <2>4. PhaseOf' = "waiting" /\ Doomed' = 0
      BY <1>23 DEF ClearStop, At, PhaseOf, Doomed
    <2>5. Promised!Obey
      BY <2>2, <2>3, <2>4 DEF Promised!Obey
    <2> QED
      BY <2>5 DEF Promised!Next
  <1>24. CASE ReceiveStop
    <2>1. pc \notin {"clear", "settle", "reset", "clearStop", "enableUsb"}
      BY <1>24 DEF ReceiveStop, MainInv
    <2>2. Oldest' = Oldest /\ UNCHANGED ringVars
      BY <1>24 DEF ReceiveStop, ringVars, Oldest
    <2>3. Contents' = Contents
      BY <2>2, ContentsUnchanged
    <2>4. PICK n \in 0 .. REQUEST_QUEUE_SIZE : RingAt(n)
      BY DEF RingInv
    <2>5. Cardinality(Queued) = n /\ Len(Contents) = n
      BY <2>4, QueuedCount, ContentsOfRing
    <2>6. PhaseOf' = "stopped" /\ Doomed' = n
      BY <1>24, <2>1, <2>5 DEF ReceiveStop, PhaseOf, Doomed, NO_EMERGENCY_STOP, EMERGENCY_STOP_NOW
    <2>7. Promised!Stop
      BY <2>3, <2>5, <2>6 DEF Promised!Stop
    <2> QED
      BY <2>7 DEF Promised!Next
  <1>25. ASSUME NEW c \in Command, ReceiveCommand(c)
        PROVE  [Promised!Next]_(Promised!vars)
    <2>1. Oldest' = Oldest /\ Oldest \in Slot /\ Doomed' = Doomed /\ PhaseOf' = PhaseOf
      BY <1>25, OldestInSlot DEF ReceiveCommand, ringVars, stopVars, Oldest, Doomed, PhaseOf
    <2>2. CASE isParsed(currentReceivingRequest)
      <3>1. UNCHANGED ringVars
        BY <1>25, <2>2 DEF ReceiveCommand
      <3> QED
        BY <2>1, <3>1, ContentsUnchanged DEF Promised!vars
    <2>3. CASE ~isParsed(currentReceivingRequest)
      <3>1. PICK n \in 0 .. REQUEST_QUEUE_SIZE : RingAt(n)
        BY DEF RingInv
      <3>2. PICK m \in 0 .. REQUEST_QUEUE_SIZE : RingAt(m)'
        BY DEF RingInv
      <3>3. n \in 0 .. REQUEST_QUEUE_SIZE - 1
        BY <2>1, <2>3, <3>1, AheadNone DEF RingAt
      <3>4. /\ requests' = [requests EXCEPT ![currentReceivingRequest] = c]
            /\ currentReceivingRequest = Ahead(Oldest, n)
            /\ Ahead(Oldest, n) \in Slot
        BY <1>25, <2>1, <2>3, <3>1, AheadInSlot DEF ReceiveCommand, RingAt
      <3>5. ASSUME NEW j \in 0 .. REQUEST_QUEUE_SIZE - 1
            PROVE  /\ j = n => requests'[Ahead(Oldest, j)] = c
                   /\ j # n => requests'[Ahead(Oldest, j)] = requests[Ahead(Oldest, j)]
        <4>1. Ahead(Oldest, j) \in Slot
          BY <2>1, AheadInSlot
        <4>2. j # n => Ahead(Oldest, j) # Ahead(Oldest, n)
          BY <2>1, <3>3, AheadInjective
        <4> QED
          BY <3>4, <4>1, <4>2 DEF TypeOK
      <3>6. m = n + 1
        <4>1. ASSUME NEW j \in 0 .. REQUEST_QUEUE_SIZE - 1
              PROVE  j < m <=> j < n + 1
          <5>1. j < m <=> requests'[Ahead(Oldest, j)] # NoRequest
            BY <2>1, <3>2 DEF RingAt, isParsed, Ahead
          <5>2. j < n <=> requests[Ahead(Oldest, j)] # NoRequest
            BY <3>1 DEF RingAt, isParsed
          <5> QED
            BY <3>5, <5>1, <5>2, CommandAssumption
        <4>2. n < m
          BY <3>3, <4>1
        <4>3. CASE m - 1 \in 0 .. REQUEST_QUEUE_SIZE - 1
          <5>1. m - 1 < n + 1
            BY <4>1, <4>3
          <5> QED
            BY <4>2, <5>1
        <4> QED
          BY <4>2, <4>3
      <3>7. Contents = [k \in 1 .. n |-> requests[Ahead(Oldest, k - 1)]] /\ Len(Contents) = n
        BY <3>1, ContentsOfRing
      <3>8. Contents' = [k \in 1 .. n + 1 |-> requests'[Ahead(Oldest, k - 1)]]
        <4>1. Cardinality(Queued)' = m
          BY <1>1, <3>2
        <4> QED
          BY <2>1, <3>2, <3>6, <4>1 DEF Contents, Ahead
      <3>9. ASSUME NEW k \in 1 .. n + 1
            PROVE  Contents'[k] = IF k = n + 1 THEN c ELSE Contents[k]
        <4>1. k - 1 \in 0 .. REQUEST_QUEUE_SIZE - 1
          BY <3>3
        <4>2. Contents'[k] = requests'[Ahead(Oldest, k - 1)]
          BY <3>8
        <4>3. CASE k = n + 1
          BY <3>5, <4>1, <4>2, <4>3
        <4>4. CASE k # n + 1
          <5>1. k \in 1 .. n
            BY <4>4
          <5> QED
            BY <3>5, <3>7, <4>1, <4>2, <4>4, <5>1
        <4> QED
          BY <4>3, <4>4
      <3>10. Contents' = [k \in 1 .. n + 1 |-> IF k = n + 1 THEN c ELSE Contents[k]]
        BY <3>8, <3>9
      <3>11. Contents' = Append(Contents, c)
        <4>1. Contents \in Seq(Command \cup {NoRequest})
          BY <3>1, ContentsOfRing
        <4> QED
          BY <3>7, <3>10, <4>1
      <3>12. Len(Contents) < REQUEST_QUEUE_SIZE
        BY <3>3, <3>7
      <3>13. Promised!Accept(c)
        BY <2>1, <3>11, <3>12 DEF Promised!Accept
      <3> QED
        BY <3>13 DEF Promised!Next
    <2> QED
      BY <2>2, <2>3
  <1>26. CASE ClearRequest
    <2> DEFINE i == currentProcessingRequest
    <2>1. i \in Slot /\ Oldest = i /\ Oldest' = Following(i)
      BY <1>26 DEF ClearRequest, At, Oldest, TypeOK
    <2>2. PICK n \in 0 .. REQUEST_QUEUE_SIZE : RingAt(n) /\ Doomed <= n
      BY DEF RingInv
    <2>3. PICK m \in 0 .. REQUEST_QUEUE_SIZE : RingAt(m)'
      BY DEF RingInv
    <2>4. n \in 1 .. REQUEST_QUEUE_SIZE
      BY <1>26, <2>1, <2>2, AheadNone DEF ClearRequest, At, MainInv, RingAt
    <2>5. ASSUME NEW j \in 0 .. REQUEST_QUEUE_SIZE - 2
          PROVE  requests'[Ahead(Oldest', j)] = requests[Ahead(Oldest, j + 1)]
      <3>1. j \in 0 .. REQUEST_QUEUE_SIZE - 1 /\ j + 1 \in 0 .. REQUEST_QUEUE_SIZE - 1
        OBVIOUS
      <3>2. Ahead(Oldest', j) = Ahead(i, j + 1)
        BY <2>1, <3>1, FollowingAhead
      <3>3. Ahead(i, j + 1) # i
        BY <2>1, <3>1, AheadInjective, AheadNone
      <3>4. Ahead(i, j + 1) \in Slot
        BY <2>1, <3>1, AheadInSlot
      <3> QED
        BY <1>26, <2>1, <3>2, <3>3, <3>4 DEF ClearRequest, TypeOK
    <2>6. requests'[Ahead(Oldest', REQUEST_QUEUE_SIZE - 1)] = NoRequest
      <3>1. Ahead(Oldest', REQUEST_QUEUE_SIZE - 1) = i
        BY <2>1, FollowingAhead, AheadNone
      <3> QED
        BY <1>26, <2>1, <3>1 DEF ClearRequest, TypeOK
    <2>7. m = n - 1
      <3>1. ASSUME NEW j \in 0 .. REQUEST_QUEUE_SIZE - 1
            PROVE  j < m <=> requests'[Ahead(Oldest', j)] # NoRequest
        BY <2>3 DEF RingAt, isParsed, Ahead
      <3>2. m < REQUEST_QUEUE_SIZE
        BY <2>6, <3>1
      <3>3. ASSUME NEW j \in 0 .. REQUEST_QUEUE_SIZE - 2
            PROVE  j < m <=> j + 1 < n
        <4>1. j + 1 < n <=> requests[Ahead(Oldest, j + 1)] # NoRequest
          BY <2>2 DEF RingAt, isParsed
        <4> QED
          BY <2>5, <3>1, <4>1
      <3>4. m >= n - 1
        <4>1. CASE n >= 2
          <5>1. n - 2 \in 0 .. REQUEST_QUEUE_SIZE - 2 /\ (n - 2) + 1 < n
            BY <2>4, <4>1
          <5>2. n - 2 < m
            BY <3>3, <5>1
          <5> QED
            BY <5>2
        <4> QED
          BY <2>4, <4>1
      <3>5. m <= n - 1
        <4>1. CASE m >= 1
          <5>1. m - 1 \in 0 .. REQUEST_QUEUE_SIZE - 2 /\ m - 1 < m
            BY <3>2, <4>1
          <5>2. (m - 1) + 1 < n
            BY <3>3, <5>1
          <5> QED
            BY <5>2
        <4> QED
          BY <2>4, <4>1
      <3> QED
        BY <3>4, <3>5
    <2>8. /\ Contents = [k \in 1 .. n |-> requests[Ahead(Oldest, k - 1)]]
          /\ Contents \in Seq(Command \cup {NoRequest})
          /\ Len(Contents) = n
      BY <2>2, ContentsOfRing
    <2>9. Contents' = [k \in 1 .. n - 1 |-> requests'[Ahead(Oldest', k - 1)]]
      <3>1. Cardinality(Queued)' = m
        BY <1>1, <2>3
      <3> QED
        BY <2>3, <2>7, <3>1 DEF Contents, Ahead
    <2>10. ASSUME NEW k \in 1 .. n - 1
           PROVE  requests'[Ahead(Oldest', k - 1)] = Contents[k + 1]
      <3>1. k - 1 \in 0 .. REQUEST_QUEUE_SIZE - 2 /\ k + 1 \in 1 .. n
        BY <2>4
      <3>2. requests'[Ahead(Oldest', k - 1)] = requests[Ahead(Oldest, (k - 1) + 1)]
        BY <2>5, <3>1
      <3>3. (k - 1) + 1 = (k + 1) - 1
        OBVIOUS
      <3> QED
        BY <2>8, <3>1, <3>2, <3>3
    <2>11. Contents' = [k \in 1 .. n - 1 |-> Contents[k + 1]]
      BY <2>9, <2>10
    <2>12. Contents' = Tail(Contents)
      BY <2>4, <2>8, <2>11
    <2>13. CASE emergencyStopRequest = NO_EMERGENCY_STOP
      <3>1. PhaseOf = "answered" /\ PhaseOf' = "waiting" /\ Doomed' = Doomed
        BY <1>26, <2>13 DEF ClearRequest, At, stopVars, PhaseOf, Doomed
      <3>2. Promised!Complete
        BY <2>12, <3>1 DEF Promised!Complete
      <3> QED
        BY <3>2 DEF Promised!Next
    <2>14. CASE emergencyStopRequest # NO_EMERGENCY_STOP
      <3>1. PhaseOf = "stopped" /\ PhaseOf' = "stopped"
        BY <1>26, <2>14 DEF ClearRequest, stopVars, PhaseOf
      <3>2. Doomed > 0 /\ Doomed' = Doomed - 1
        BY <1>26, <2>14 DEF ClearRequest, At, stopVars, Doomed, MainInv, TypeOK, NO_EMERGENCY_STOP
      <3>3. Promised!Discard
        BY <2>12, <3>1, <3>2 DEF Promised!Discard
      <3> QED
        BY <3>3 DEF Promised!Next
    <2> QED
      BY <2>13, <2>14
  <1>27. CASE ExecuteReset
    <2>1. PICK n \in 0 .. REQUEST_QUEUE_SIZE : RingAt(n)
      BY DEF RingInv
    <2>2. n >= 1
      <3>1. isParsed(currentProcessingRequest) /\ Oldest = currentProcessingRequest
        BY <1>27 DEF ExecuteReset, MainInv, Oldest
      <3>2. Oldest \in Slot /\ 0 \in 0 .. REQUEST_QUEUE_SIZE - 1
        BY <3>1, QueueSizeAssumption DEF TypeOK
      <3>3. isParsed(Ahead(Oldest, 0))
        BY <3>1, <3>2, AheadNone
      <3>4. 0 < n
        BY <2>1, <3>2, <3>3 DEF RingAt
      <3> QED
        BY <3>4
    <2>3. Contents # <<>>
      BY <2>1, <2>2, ContentsOfRing
    <2>4. PhaseOf \in {"running", "stopped"}
      BY <1>27 DEF ExecuteReset, PhaseOf
    <2>5. PhaseOf' = "waiting" /\ Doomed' = 0
      BY <1>27 DEF ExecuteReset, PhaseOf, Doomed
    <2>6. Contents' = <<>>
      <3>1. Queued' = {}
        BY <1>27 DEF ExecuteReset, Queued, isParsed
      <3>2. Cardinality(Queued') = 0
        BY <3>1, FS_EmptySet
      <3> QED
        BY <3>2 DEF Contents
    <2>7. Promised!Restart
      BY <2>3, <2>4, <2>5, <2>6 DEF Promised!Restart
    <2> QED
      BY <2>7 DEF Promised!Next
  <1> QED
    BY <1>2, <1>3, <1>4, <1>5, <1>6, <1>7, <1>8, <1>9, <1>10, <1>11, <1>12, <1>13, <1>14, <1>15, <1>16, <1>17, <1>18, <1>19, <1>20, <1>21, <1>22, <1>23, <1>24, <1>25, <1>26, <1>27 DEF Next, MainLoop

\* The whole command path, seen from outside, is the queue of CommandQueue:
\* first in, first out; answered before it leaves or discarded by a stop that
\* came after it; commands that come after a stop survive it.
THEOREM RingImplementsQueue ==
    Spec => ImplementsCommandQueue
  <1>1. Init => Promised!Init
    <2> SUFFICES ASSUME Init PROVE Promised!Init
      OBVIOUS
    <2>1. Queued = {}
      BY DEF Init, Queued, isParsed
    <2>2. Cardinality(Queued) = 0
      BY <2>1, FS_EmptySet
    <2>3. Contents = <<>>
      BY <2>2 DEF Contents
    <2> QED
      BY <2>3 DEF Init, Promised!Init, PhaseOf, Doomed
  <1> QED
    BY <1>1, StepImplements, Invariance, PTL DEF Spec, ImplementsCommandQueue, Promised!Spec
=============================================================================
