--------------------------- MODULE RequestsProofs ---------------------------
(***************************************************************************)
(* Numbered commands complete once and in order, and the host believes it  *)
(* only of those that did: for every number the host begins with, every    *)
(* window, ring, output buffer and number of faults.  And what the         *)
(* commands leave behind, for every EEPROM, calibration mode and set of    *)
(* commands.                                                               *)
(***************************************************************************)
EXTENDS LineNumbers, Commands, SequenceTheorems, TLAPS

-----------------------------------------------------------------------------
(* Line numbers.  The inductive invariant.                                 *)

\* Lines in the ring are the host's: M110 carries the first number.
LinesKnown ==
    \A i \in 1 .. Len(requests) :
        /\ requests[i].valueN \in START .. START + LAST
        /\ requests[i].M110 <=> requests[i].valueN = START

\* M110 is never behind a command, and gone before the first one completes.
SetFirst ==
    /\ \A i, j \in 1 .. Len(requests) : i < j /\ requests[j].M110 => requests[i].M110
    /\ next = 0 => completed = <<>> /\ \A i \in 1 .. Len(requests) : requests[i].M110
    /\ completed # <<>> => \A i \in 1 .. Len(requests) : ~requests[i].M110

\* A command that runs carries the expected number, and that is not the
\* largest; its request stays in the ring until it is answered.
RunsExpected ==
    /\ stage \in {"run", "check", "send"} => requests # <<>>
    /\ stage = "run" => /\ requests[1].valueN = currentCommandNumber
                        /\ ~requests[1].M110 => currentCommandNumber < MAX_NUMBER

\* A pending stop counts what is in the ring.
StopCounts == emergencyStopRequest > 0 => Len(requests) = emergencyStopRequest - 1

\* An ok or a skip is about a command that completed, or about M110.
AnswersTrue ==
    \A i \in 1 .. Len(responses) :
        responses[i].kind \in {"ok", "skip"} =>
            responses[i].number \in START .. START + Len(completed)

\* So is the one that was composed and not sent yet.
PendingTrue ==
    /\ stage \in {"check", "send", "confirm"} => answer \in Response
    /\ answer.kind \in {"ok", "skip"} => answer.number \in START .. START + Len(completed)

LineInv ==
    /\ LineTypeOK /\ CompletedInOrder /\ CounterTracksCompleted
    /\ LinesKnown /\ SetFirst /\ RunsExpected /\ StopCounts
    /\ AnswersTrue /\ PendingTrue
    /\ confirmed <= Len(completed)

-----------------------------------------------------------------------------
(* Sequences.                                                              *)

LEMMA TailFacts ==
    ASSUME NEW S, NEW s \in Seq(S), s # <<>>
    PROVE  /\ Len(s) \in Nat /\ Len(s) >= 1
           /\ s[1] \in S /\ Head(s) = s[1]
           /\ Tail(s) \in Seq(S) /\ Len(Tail(s)) = Len(s) - 1
           /\ \A i \in 1 .. Len(s) - 1 : i + 1 \in 1 .. Len(s) /\ Tail(s)[i] = s[i + 1]
<1>1. Len(s) \in Nat /\ Len(s) >= 1
  BY EmptySeq, LenProperties
<1>2. /\ Tail(s) \in Seq(S) /\ Len(Tail(s)) = Len(s) - 1
      /\ \A i \in 1 .. Len(Tail(s)) : Tail(s)[i] = s[i + 1]
  BY HeadTailProperties
<1>3. Head(s) = s[1] /\ s[1] \in S
  BY <1>1, ElementOfSeq
<1> QED
  BY <1>1, <1>2, <1>3

LEMMA AppendFacts ==
    ASSUME NEW S, NEW s \in Seq(S), NEW e \in S
    PROVE  /\ Len(s) \in Nat
           /\ Append(s, e) \in Seq(S) /\ Len(Append(s, e)) = Len(s) + 1
           /\ \A i \in 1 .. Len(s) : Append(s, e)[i] = s[i]
           /\ Append(s, e)[Len(s) + 1] = e
  BY AppendProperties, LenProperties

-----------------------------------------------------------------------------
(* What the steps of several actions do to the invariant.                  *)

\* A request leaves: those behind it move up, a pending stop counts one less.
LEMMA ReleaseFacts ==
    ASSUME SizeAssumption, LineTypeOK, LinesKnown, StopCounts, requests # <<>>, Release
    PROVE  /\ requests' \in Seq(Request) /\ Len(requests') = Len(requests) - 1
           /\ Len(requests') <= SLOTS
           /\ \A i \in 1 .. Len(requests') :
                  i + 1 \in 1 .. Len(requests) /\ requests'[i] = requests[i + 1]
           /\ emergencyStopRequest' \in 0 .. SLOTS + 1
           /\ stage' = "idle" /\ answer' = NoAnswer
           /\ LinesKnown' /\ StopCounts' /\ RunsExpected' /\ PendingTrue'
<1>1. /\ Len(requests) \in Nat /\ Len(requests) >= 1
      /\ requests' \in Seq(Request) /\ Len(requests') = Len(requests) - 1
      /\ \A i \in 1 .. Len(requests) - 1 :
            i + 1 \in 1 .. Len(requests) /\ requests'[i] = requests[i + 1]
  BY TailFacts DEF LineTypeOK, Release
<1>2. Len(requests') <= SLOTS
  BY <1>1 DEF LineTypeOK, SizeAssumption
<1>3. emergencyStopRequest' \in 0 .. SLOTS + 1 /\ StopCounts'
  BY <1>1 DEF LineTypeOK, StopCounts, Release, SizeAssumption
<1>4. LinesKnown'
  BY <1>1 DEF LinesKnown
<1>5. stage' = "idle" /\ answer' = NoAnswer /\ RunsExpected' /\ PendingTrue'
  BY DEF Release, RunsExpected, PendingTrue, NoAnswer
<1> QED
  BY <1>1, <1>2, <1>3, <1>4, <1>5

\* An answer is added that is true of what has completed.
LEMMA AnswerFacts ==
    ASSUME NumberAssumption, SizeAssumption, LineTypeOK, AnswersTrue,
           NEW r \in Response, Len(responses) < UNREAD, responses' = Append(responses, r),
           Len(completed) <= Len(completed)', Len(completed)' \in Nat,
           r.kind \in {"ok", "skip"} => r.number \in START .. START + Len(completed)'
    PROVE  responses' \in Seq(Response) /\ Len(responses') <= UNREAD /\ AnswersTrue'
<1>1. /\ Len(responses) \in Nat
      /\ responses' \in Seq(Response) /\ Len(responses') = Len(responses) + 1
      /\ \A i \in 1 .. Len(responses) : responses'[i] = responses[i]
      /\ responses'[Len(responses) + 1] = r
  BY AppendFacts DEF LineTypeOK
<1>2. Len(responses') <= UNREAD
  BY <1>1 DEF SizeAssumption
<1>3. Len(completed) \in Nat
  BY LenProperties DEF LineTypeOK
<1>4. ASSUME NEW i \in 1 .. Len(responses'), responses'[i].kind \in {"ok", "skip"}
      PROVE  responses'[i].number \in START .. START + Len(completed)'
  <2>1. CASE i = Len(responses) + 1
    BY <1>1, <1>4, <2>1
  <2>2. CASE i # Len(responses) + 1
    <3>1. i \in 1 .. Len(responses) /\ responses'[i] = responses[i]
      BY <1>1, <2>2
    <3>2. responses[i].number \in START .. START + Len(completed)
      BY <1>4, <3>1 DEF AnswersTrue
    <3> QED
      BY <1>3, <3>1, <3>2 DEF NumberAssumption
  <2> QED
    BY <2>1, <2>2
<1> QED
  BY <1>1, <1>2, <1>4 DEF AnswersTrue

\* An answer is composed that is true of what has completed.
LEMMA ComposeFacts ==
    ASSUME NEW r \in Response, Compose(r),
           r.kind \in {"ok", "skip"} => r.number \in START .. START + Len(completed)'
    PROVE  /\ stage' \in {"idle", "run", "check", "send", "confirm"} /\ stage' = "check"
           /\ answer' \in Response \cup {NoAnswer} /\ PendingTrue'
  BY DEF Compose, PendingTrue

\* The numbers that completed are those up to the count of them.
LEMMA CountFacts ==
    ASSUME NumberAssumption, LineTypeOK, CompletedInOrder
    PROVE  Len(completed) \in Nat /\ Len(completed) <= LAST
<1>1. Len(completed) \in Nat /\ DOMAIN completed = 1 .. Len(completed)
  BY LenProperties DEF LineTypeOK
<1>2. CASE Len(completed) = 0
  BY <1>1, <1>2 DEF NumberAssumption
<1>3. CASE Len(completed) # 0
  <2>0. completed \in Seq(START + 1 .. START + LAST) /\ Len(completed) \in 1 .. Len(completed)
    BY <1>1, <1>3 DEF LineTypeOK
  <2>1. completed[Len(completed)] \in START + 1 .. START + LAST
    BY <2>0, ElementOfSeq
  <2>2. completed[Len(completed)] = START + Len(completed)
    BY <1>1, <1>3 DEF CompletedInOrder
  <2> QED
    BY <1>1, <2>1, <2>2 DEF NumberAssumption
<1> QED
  BY <1>2, <1>3

\* The oldest request.
LEMMA OldestFacts ==
    ASSUME NumberAssumption, LineTypeOK, LinesKnown, requests # <<>>
    PROVE  /\ oldest = requests[1] /\ oldest \in Request
           /\ Len(requests) \in Nat /\ Len(requests) >= 1
           /\ oldest.valueN \in START .. START + LAST
           /\ oldest.M110 <=> oldest.valueN = START
<1>1. oldest = requests[1] /\ oldest \in Request /\ Len(requests) \in Nat /\ Len(requests) >= 1
  BY TailFacts DEF LineTypeOK, oldest
<1> QED
  BY <1>1 DEF LinesKnown

\* A request leaves and nothing completes: M110 is still first.
LEMMA SetStaysFirst ==
    ASSUME SizeAssumption, LineTypeOK, LinesKnown, SetFirst, StopCounts, requests # <<>>, Release,
           UNCHANGED <<completed, next>>
    PROVE  SetFirst'
<1>1. /\ Len(requests) \in Nat /\ Len(requests') \in Nat
      /\ \A i \in 1 .. Len(requests') :
            i + 1 \in 1 .. Len(requests) /\ requests'[i] = requests[i + 1]
  BY ReleaseFacts, LenProperties DEF LineTypeOK
<1>2. ASSUME NEW i \in 1 .. Len(requests'), NEW j \in 1 .. Len(requests'), i < j, requests'[j].M110
      PROVE  requests'[i].M110
  <2>1. /\ i + 1 \in 1 .. Len(requests) /\ requests'[i] = requests[i + 1]
        /\ j + 1 \in 1 .. Len(requests) /\ requests'[j] = requests[j + 1]
    BY <1>1
  <2>2. i + 1 < j + 1
    BY <1>2
  <2> QED
    BY <1>2, <2>1, <2>2 DEF SetFirst
<1> QED
  BY <1>1, <1>2 DEF SetFirst

-----------------------------------------------------------------------------
(* Every step keeps the invariant.                                         *)

LEMMA InitInvariant ==
    ASSUME NumberAssumption, SizeAssumption, LineInit
    PROVE  LineInv
<1>1. LineTypeOK
  <2>1. requests \in Seq(Request) /\ responses \in Seq(Response)
        /\ completed \in Seq(START + 1 .. START + LAST) /\ Len(requests) = 0 /\ Len(responses) = 0
    BY EmptySeq DEF LineInit
  <2>2. /\ currentCommandNumber \in 0 .. MAX_NUMBER /\ emergencyStopRequest \in 0 .. SLOTS + 1
        /\ next \in 0 .. LAST + 1 /\ confirmed \in 0 .. LAST /\ faults \in 0 .. FAULTS
    BY DEF LineInit, NumberAssumption, SizeAssumption
  <2>3. stage \in {"idle", "run", "check", "send", "confirm"} /\ answer \in Response \cup {NoAnswer}
    BY DEF LineInit
  <2>4. Len(requests) <= SLOTS /\ Len(responses) <= UNREAD
    BY <2>1 DEF SizeAssumption
  <2> QED
    BY <2>1, <2>2, <2>3, <2>4 DEF LineTypeOK
<1> QED
  BY <1>1 DEF LineInv, LineInit, CompletedInOrder, CounterTracksCompleted, LinesKnown, SetFirst,
              RunsExpected, StopCounts, AnswersTrue, PendingTrue, NoAnswer

\* What is composed for a request leaves the ring and the count as they are.
LEMMA ComposeInvariant ==
    ASSUME NumberAssumption, SizeAssumption, LineInv, requests # <<>>,
           NEW r \in Response, Compose(r),
           r.kind \in {"ok", "skip"} => r.number \in START .. START + Len(completed),
           faults' \in 0 .. FAULTS,
           UNCHANGED <<requests, currentCommandNumber, emergencyStopRequest, responses, completed,
                       next, confirmed>>
    PROVE  LineInv'
<1> USE DEF LineInv
<1>1. /\ stage' \in {"idle", "run", "check", "send", "confirm"} /\ stage' = "check"
      /\ answer' \in Response \cup {NoAnswer} /\ PendingTrue'
  BY ComposeFacts
<1>2. LineTypeOK'
  BY <1>1 DEF LineTypeOK
<1>3. LinesKnown' /\ SetFirst' /\ StopCounts' /\ AnswersTrue'
  BY DEF LinesKnown, SetFirst, StopCounts, AnswersTrue
<1>4. RunsExpected'
  BY <1>1 DEF RunsExpected
<1>5. CompletedInOrder' /\ CounterTracksCompleted' /\ (confirmed <= Len(completed))'
  BY DEF CompletedInOrder, CounterTracksCompleted
<1> QED
  BY <1>1, <1>2, <1>3, <1>4, <1>5

LEMMA RefuseInvariant ==
    ASSUME NumberAssumption, SizeAssumption, LineInv, Refuse \/ RefuseBroken
    PROVE  LineInv'
<1> USE DEF LineInv
<1>1. /\ requests # <<>>
      /\ UNCHANGED <<requests, currentCommandNumber, emergencyStopRequest, responses, completed,
                     next, confirmed>>
      /\ faults' \in 0 .. FAULTS
  <2>1. faults \in 0 .. FAULTS /\ FAULTS \in Nat
    BY DEF LineTypeOK, SizeAssumption
  <2> QED
    BY <2>1 DEF Refuse, RefuseBroken, senderVars
<1>2. /\ Len(completed) \in Nat /\ Len(completed) <= LAST
      /\ oldest \in Request /\ oldest.valueN \in START .. START + LAST
      /\ oldest.M110 <=> oldest.valueN = START
  BY <1>1, CountFacts, OldestFacts
<1>3. CASE Compose([kind |-> "Error"])
  <2>1. [kind |-> "Error"] \in Response
    BY DEF Response
  <2> QED
    BY <1>1, <1>3, <2>1, ComposeInvariant
<1>4. CASE Verdict = "rs" /\ Compose(Numbered("rs", currentCommandNumber))
  <2>1. Numbered("rs", currentCommandNumber) \in Response
        /\ Numbered("rs", currentCommandNumber).kind = "rs"
    BY DEF Response, LineTypeOK, Numbered
  <2> QED
    BY <1>1, <1>4, <2>1, ComposeInvariant
<1>5. CASE Verdict = "skip" /\ Compose(Numbered("skip", oldest.valueN))
  <2>1. Numbered("skip", oldest.valueN) \in Response
        /\ Numbered("skip", oldest.valueN).number = oldest.valueN
    BY <1>2 DEF Response, Request, Numbered
  <2>2. oldest.valueN < currentCommandNumber
    BY <1>5 DEF Verdict
  <2>3. oldest.valueN \in START .. START + Len(completed)
    <3>1. START \in Nat
      BY DEF NumberAssumption
    <3>2. currentCommandNumber <= START + Len(completed) + 1 /\ currentCommandNumber \in Nat
      BY <1>2, <3>1 DEF CounterTracksCompleted, LineTypeOK
    <3> QED
      BY <1>2, <2>2, <3>1, <3>2
  <2> QED
    BY <1>1, <1>5, <2>1, <2>3, ComposeInvariant
<1> QED
  BY <1>3, <1>4, <1>5 DEF Refuse, RefuseBroken

LEMMA RunInvariant ==
    ASSUME NumberAssumption, SizeAssumption, LineInv, Run
    PROVE  LineInv'
<1> USE DEF LineInv
<1>1. /\ requests # <<>> /\ stage' = "run" /\ Verdict = "run"
      /\ currentCommandNumber' = IF oldest.M110 THEN oldest.valueN ELSE currentCommandNumber
      /\ UNCHANGED <<requests, emergencyStopRequest, answer, responses, completed, next, confirmed,
                     faults>>
  BY DEF Run, senderVars
<1>2. /\ oldest = requests[1] /\ oldest \in Request
      /\ Len(requests) \in Nat /\ Len(requests) >= 1
      /\ oldest.valueN \in START .. START + LAST
      /\ oldest.M110 <=> oldest.valueN = START
  BY <1>1, OldestFacts
<1>3. LineTypeOK'
  BY <1>1, <1>2 DEF LineTypeOK, Request
<1>4. LinesKnown' /\ SetFirst' /\ StopCounts' /\ AnswersTrue' /\ CompletedInOrder'
      /\ (confirmed <= Len(completed))' /\ PendingTrue'
  BY <1>1 DEF LinesKnown, SetFirst, StopCounts, AnswersTrue, CompletedInOrder, PendingTrue
<1>5. CounterTracksCompleted'
  <2>1. CASE oldest.M110
    <3>1. completed = <<>>
      BY <1>2, <2>1 DEF SetFirst
    <3> QED
      BY <1>1, <1>2, <2>1, <3>1 DEF CounterTracksCompleted
  <2>2. CASE ~oldest.M110
    BY <1>1, <2>2 DEF CounterTracksCompleted
  <2> QED
    BY <2>1, <2>2
<1>6. RunsExpected'
  <2>1. CASE oldest.M110
    BY <1>1, <1>2, <2>1 DEF RunsExpected
  <2>2. CASE ~oldest.M110
    <3>1. currentCommandNumber # MAX_NUMBER /\ ~(oldest.valueN < currentCommandNumber)
          /\ ~(oldest.valueN > currentCommandNumber)
      BY <1>1, <2>2 DEF Verdict
    <3>2. currentCommandNumber \in 0 .. MAX_NUMBER /\ oldest.valueN \in Nat
      BY <1>2 DEF LineTypeOK, NumberAssumption
    <3>3. oldest.valueN = currentCommandNumber /\ currentCommandNumber < MAX_NUMBER
      BY <3>1, <3>2 DEF NumberAssumption
    <3> QED
      BY <1>1, <1>2, <2>2, <3>3 DEF RunsExpected
  <2> QED
    BY <2>1, <2>2
<1> QED
  BY <1>3, <1>4, <1>5, <1>6

LEMMA SucceedInvariant ==
    ASSUME NumberAssumption, SizeAssumption, LineInv, Succeed
    PROVE  LineInv'
<1> USE DEF LineInv
<1>1. /\ requests # <<>> /\ stage = "run" /\ Compose(Numbered("ok", oldest.valueN))
      /\ currentCommandNumber' = (currentCommandNumber + 1) % (MAX_NUMBER + 1)
      /\ completed' = IF oldest.M110 THEN completed ELSE Append(completed, oldest.valueN)
      /\ UNCHANGED <<requests, emergencyStopRequest, responses, next, confirmed, faults>>
  BY DEF Succeed, senderVars, RunsExpected
<1>2. /\ Len(completed) \in Nat /\ Len(completed) <= LAST
      /\ oldest = requests[1] /\ oldest \in Request
      /\ Len(requests) \in Nat /\ Len(requests) >= 1
      /\ oldest.valueN \in START .. START + LAST
      /\ oldest.M110 <=> oldest.valueN = START
  BY <1>1, CountFacts, OldestFacts
<1>3. oldest.valueN = currentCommandNumber /\ (~oldest.M110 => currentCommandNumber < MAX_NUMBER)
  BY <1>1, <1>2 DEF RunsExpected
<1>4. currentCommandNumber' = currentCommandNumber + 1 /\ currentCommandNumber' \in 0 .. MAX_NUMBER
  <2>1. currentCommandNumber + 1 \in 0 .. MAX_NUMBER
    BY <1>2, <1>3 DEF NumberAssumption
  <2>2. \A m, n \in Nat : n < m => n % m = n
    OBVIOUS
  <2> QED
    BY <1>1, <2>1, <2>2 DEF NumberAssumption
<1>5. /\ completed' \in Seq(START + 1 .. START + LAST)
      /\ Len(completed)' \in Nat /\ Len(completed) <= Len(completed)'
      /\ oldest.valueN \in START .. START + Len(completed)'
      /\ CompletedInOrder' /\ CounterTracksCompleted'
      /\ completed' # <<>> => ~oldest.M110
  <2>1. CASE oldest.M110
    <3>1. completed = <<>> /\ completed' = completed
      BY <1>1, <1>2, <2>1 DEF SetFirst
    <3>2. completed' \in Seq(START + 1 .. START + LAST) /\ Len(completed)' = 0 /\ CompletedInOrder'
      BY <3>1, EmptySeq DEF LineTypeOK, CompletedInOrder
    <3>3. CounterTracksCompleted'
      BY <1>2, <1>3, <1>4, <2>1, <3>2 DEF CounterTracksCompleted, NumberAssumption
    <3> QED
      BY <1>2, <2>1, <3>1, <3>2, <3>3 DEF NumberAssumption
  <2>2. CASE ~oldest.M110
    <3>1. oldest.valueN = START + 1 + Len(completed) /\ oldest.valueN \in START + 1 .. START + LAST
      BY <1>2, <1>3, <2>2 DEF CounterTracksCompleted, NumberAssumption
    <3>2. /\ completed' \in Seq(START + 1 .. START + LAST) /\ Len(completed') = Len(completed) + 1
          /\ \A i \in 1 .. Len(completed) : completed'[i] = completed[i]
          /\ completed'[Len(completed) + 1] = oldest.valueN
      BY <1>1, <2>2, <3>1, AppendFacts DEF LineTypeOK
    <3>3. DOMAIN completed = 1 .. Len(completed) /\ DOMAIN completed' = 1 .. Len(completed')
      BY <3>2, LenProperties DEF LineTypeOK
    <3>4. CompletedInOrder'
      <4>1. \A i \in 1 .. Len(completed) : completed[i] = START + i
        BY <3>3 DEF CompletedInOrder
      <4>2. ASSUME NEW i \in 1 .. Len(completed) + 1
            PROVE  completed'[i] = START + i
        <5>1. CASE i = Len(completed) + 1
          BY <1>2, <3>1, <3>2, <5>1 DEF NumberAssumption
        <5>2. CASE i # Len(completed) + 1
          <6>1. i \in 1 .. Len(completed)
            BY <1>2, <5>2
          <6> QED
            BY <3>2, <4>1, <6>1
        <5> QED
          BY <5>1, <5>2
      <4> QED
        BY <3>2, <3>3, <4>2 DEF CompletedInOrder
    <3>5. CounterTracksCompleted'
      BY <1>2, <1>3, <1>4, <3>1, <3>2 DEF CounterTracksCompleted, NumberAssumption
    <3>6. Len(completed)' \in Nat /\ Len(completed) <= Len(completed)'
          /\ oldest.valueN \in START .. START + Len(completed)'
      BY <1>2, <3>1, <3>2 DEF NumberAssumption
    <3> QED
      BY <2>2, <3>2, <3>4, <3>5, <3>6
  <2> QED
    BY <2>1, <2>2
<1>6. AnswersTrue'
  <2>1. START .. START + Len(completed) \subseteq START .. START + Len(completed)'
    BY <1>2, <1>5 DEF NumberAssumption
  <2> QED
    BY <1>1, <2>1 DEF AnswersTrue
<1>7. /\ stage' \in {"idle", "run", "check", "send", "confirm"} /\ stage' = "check"
      /\ answer' \in Response \cup {NoAnswer} /\ PendingTrue'
  <2>1. Numbered("ok", oldest.valueN) \in Response
        /\ Numbered("ok", oldest.valueN).number = oldest.valueN
    BY <1>2 DEF Response, Request, Numbered
  <2> QED
    BY <1>1, <1>5, <2>1, ComposeFacts
<1>8. LineTypeOK'
  BY <1>1, <1>4, <1>5, <1>7 DEF LineTypeOK
<1>9. LinesKnown' /\ StopCounts' /\ RunsExpected'
  BY <1>1, <1>7 DEF LinesKnown, StopCounts, RunsExpected
<1>10. SetFirst'
  <2>1. \A i, j \in 1 .. Len(requests) : i < j /\ requests[j].M110 => requests[i].M110
    BY DEF SetFirst
  <2>2. next = 0 => completed' = <<>> /\ \A i \in 1 .. Len(requests) : requests[i].M110
    <3>1. next = 0 => oldest.M110
      BY <1>2 DEF SetFirst
    <3> QED
      BY <1>1, <3>1 DEF SetFirst
  <2>3. ASSUME completed' # <<>>, NEW i \in 1 .. Len(requests)
        PROVE  ~requests[i].M110
    <3>1. ~requests[1].M110
      BY <1>2, <1>5, <2>3
    <3>2. CASE i = 1
      BY <3>1, <3>2
    <3>3. CASE i # 1
      <4>1. 1 \in 1 .. Len(requests) /\ 1 < i
        BY <1>2, <3>3
      <4> QED
        BY <2>1, <3>1, <4>1
    <3> QED
      BY <3>2, <3>3
  <2> QED
    BY <1>1, <2>1, <2>2, <2>3 DEF SetFirst
<1>11. (confirmed <= Len(completed))'
  BY <1>1, <1>2, <1>5 DEF LineTypeOK
<1> QED
  BY <1>5, <1>6, <1>7, <1>8, <1>9, <1>10, <1>11

LEMMA FailInvariant ==
    ASSUME NumberAssumption, SizeAssumption, LineInv, Fail
    PROVE  LineInv'
<1>1. /\ requests # <<>> /\ Compose([kind |-> "Error"])
      /\ UNCHANGED <<requests, currentCommandNumber, emergencyStopRequest, responses, completed,
                     next, confirmed>>
      /\ faults' \in 0 .. FAULTS
  BY DEF Fail, senderVars, RunsExpected, LineTypeOK, SizeAssumption, LineInv
<1>2. [kind |-> "Error"] \in Response
  BY DEF Response
<1> QED
  BY <1>1, <1>2, ComposeInvariant

\* A request leaves without an answer: a stop took it.
LEMMA LeaveInvariant ==
    ASSUME NumberAssumption, SizeAssumption, LineInv, requests # <<>>, Release,
           UNCHANGED <<currentCommandNumber, responses, completed, next, confirmed, faults>>
    PROVE  LineInv'
<1> USE DEF LineInv
<1>1. LineTypeOK'
  BY ReleaseFacts DEF LineTypeOK
<1>2. LinesKnown' /\ StopCounts' /\ RunsExpected' /\ PendingTrue'
  BY ReleaseFacts
<1>3. SetFirst'
  BY SetStaysFirst
<1>4. CompletedInOrder' /\ CounterTracksCompleted' /\ AnswersTrue' /\ (confirmed <= Len(completed))'
  BY DEF CompletedInOrder, CounterTracksCompleted, AnswersTrue
<1> QED
  BY <1>1, <1>2, <1>3, <1>4

LEMMA CheckStopInvariant ==
    ASSUME NumberAssumption, SizeAssumption, LineInv, CheckStop
    PROVE  LineInv'
<1> USE DEF LineInv
<1>1. /\ stage = "check" /\ requests # <<>>
      /\ UNCHANGED <<currentCommandNumber, responses, completed, next, confirmed, faults>>
  BY DEF CheckStop, senderVars, RunsExpected
<1>2. CASE Release
  BY <1>1, <1>2, LeaveInvariant
<1>3. CASE stage' = "send" /\ UNCHANGED <<requests, emergencyStopRequest, answer>>
  <2>1. LineTypeOK'
    BY <1>1, <1>3 DEF LineTypeOK
  <2>2. RunsExpected' /\ PendingTrue'
    BY <1>1, <1>3 DEF RunsExpected, PendingTrue
  <2>3. LinesKnown' /\ SetFirst' /\ StopCounts' /\ AnswersTrue'
    BY <1>1, <1>3 DEF LinesKnown, SetFirst, StopCounts, AnswersTrue
  <2>4. CompletedInOrder' /\ CounterTracksCompleted' /\ (confirmed <= Len(completed))'
    BY <1>1, <1>3 DEF CompletedInOrder, CounterTracksCompleted
  <2> QED
    BY <2>1, <2>2, <2>3, <2>4
<1> QED
  BY <1>2, <1>3 DEF CheckStop

\* A response is sent that was composed as a true one.
LEMMA WriteFacts ==
    ASSUME NumberAssumption, SizeAssumption, LineInv, stage \in {"send", "confirm"}, Write,
           UNCHANGED completed
    PROVE  responses' \in Seq(Response) /\ Len(responses') <= UNREAD /\ AnswersTrue'
<1>1. Len(completed) \in Nat /\ Len(completed)' = Len(completed)
  BY CountFacts DEF LineInv
<1>2. /\ answer \in Response
      /\ answer.kind \in {"ok", "skip"} => answer.number \in START .. START + Len(completed)
  BY DEF LineInv, PendingTrue
<1>3. Len(responses) < UNREAD /\ responses' = Append(responses, answer)
  BY DEF Write
<1>4. LineTypeOK /\ AnswersTrue
  BY DEF LineInv
<1>5. /\ Len(completed) <= Len(completed)' /\ Len(completed)' \in Nat
      /\ answer.kind \in {"ok", "skip"} => answer.number \in START .. START + Len(completed)'
  BY <1>1, <1>2
<1> QED
  BY <1>2, <1>3, <1>4, <1>5, AnswerFacts

LEMMA SendResponseInvariant ==
    ASSUME NumberAssumption, SizeAssumption, LineInv, SendResponse
    PROVE  LineInv'
<1> USE DEF LineInv
<1>1. /\ stage = "send" /\ requests # <<>> /\ Write /\ Release
      /\ UNCHANGED <<currentCommandNumber, completed, next, confirmed, faults>>
  BY DEF SendResponse, senderVars, RunsExpected
<1>2. responses' \in Seq(Response) /\ Len(responses') <= UNREAD /\ AnswersTrue'
  BY <1>1, WriteFacts
<1>3. LineTypeOK'
  BY <1>1, <1>2, ReleaseFacts DEF LineTypeOK
<1>4. LinesKnown' /\ StopCounts' /\ RunsExpected' /\ PendingTrue'
  BY <1>1, ReleaseFacts
<1>5. SetFirst'
  BY <1>1, SetStaysFirst
<1>6. CompletedInOrder' /\ CounterTracksCompleted' /\ (confirmed <= Len(completed))'
  BY <1>1 DEF CompletedInOrder, CounterTracksCompleted
<1> QED
  BY <1>2, <1>3, <1>4, <1>5, <1>6

LEMMA DiscardInvariant ==
    ASSUME NumberAssumption, SizeAssumption, LineInv, Discard
    PROVE  LineInv'
<1> USE DEF LineInv
<1>1. /\ Release /\ emergencyStopRequest > 1
      /\ UNCHANGED <<currentCommandNumber, responses, completed, next, confirmed, faults>>
  BY DEF Discard, senderVars
<1>2. requests # <<>>
  <2>1. Len(requests) = emergencyStopRequest - 1 /\ emergencyStopRequest \in Nat
    BY <1>1 DEF StopCounts, LineTypeOK, SizeAssumption
  <2> QED
    BY <1>1, <2>1, EmptySeq
<1> QED
  BY <1>1, <1>2, LeaveInvariant

LEMMA ObeyStopInvariant ==
    ASSUME NumberAssumption, SizeAssumption, LineInv, ObeyStop
    PROVE  LineInv'
<1> USE DEF LineInv
<1>1. /\ emergencyStopRequest' = 0 /\ stage' = "confirm" /\ answer' = [kind |-> "stopped"]
      /\ UNCHANGED <<requests, currentCommandNumber, responses, completed, next, confirmed, faults>>
  BY DEF ObeyStop, senderVars
<1>2. [kind |-> "stopped"] \in Response
  BY DEF Response
<1>3. emergencyStopRequest' \in 0 .. SLOTS + 1 /\ StopCounts'
  BY <1>1 DEF StopCounts, SizeAssumption
<1>4. LineTypeOK'
  BY <1>1, <1>2, <1>3 DEF LineTypeOK
<1>5. RunsExpected' /\ PendingTrue'
  BY <1>1, <1>2 DEF RunsExpected, PendingTrue
<1>6. LinesKnown' /\ SetFirst' /\ AnswersTrue' /\ CompletedInOrder' /\ CounterTracksCompleted'
      /\ (confirmed <= Len(completed))'
  BY <1>1 DEF LinesKnown, SetFirst, AnswersTrue, CompletedInOrder, CounterTracksCompleted
<1> QED
  BY <1>3, <1>4, <1>5, <1>6

LEMMA ConfirmStopInvariant ==
    ASSUME NumberAssumption, SizeAssumption, LineInv, ConfirmStop
    PROVE  LineInv'
<1> USE DEF LineInv
<1>1. /\ stage = "confirm" /\ Write /\ stage' = "idle" /\ answer' = NoAnswer
      /\ UNCHANGED <<requests, currentCommandNumber, emergencyStopRequest, completed, next,
                     confirmed, faults>>
  BY DEF ConfirmStop, senderVars
<1>2. responses' \in Seq(Response) /\ Len(responses') <= UNREAD /\ AnswersTrue'
  BY <1>1, WriteFacts
<1>3. LineTypeOK'
  BY <1>1, <1>2 DEF LineTypeOK
<1>4. RunsExpected' /\ PendingTrue'
  BY <1>1 DEF RunsExpected, PendingTrue, NoAnswer
<1>5. LinesKnown' /\ SetFirst' /\ StopCounts' /\ CompletedInOrder' /\ CounterTracksCompleted'
      /\ (confirmed <= Len(completed))'
  BY <1>1 DEF LinesKnown, SetFirst, StopCounts, CompletedInOrder, CounterTracksCompleted
<1> QED
  BY <1>2, <1>3, <1>4, <1>5

LEMMA ReceiveStopInvariant ==
    ASSUME NumberAssumption, SizeAssumption, LineInv, ReceiveStop
    PROVE  LineInv'
<1> USE DEF LineInv
<1>1. /\ emergencyStopRequest' = 1 + Len(requests) /\ faults' \in 0 .. FAULTS
      /\ UNCHANGED <<requests, currentCommandNumber, stage, answer, responses, completed, next,
                     confirmed>>
  BY DEF ReceiveStop, senderVars, LineTypeOK, SizeAssumption
<1>2. Len(requests) \in Nat /\ Len(requests) <= SLOTS
  BY LenProperties DEF LineTypeOK
<1>3. emergencyStopRequest' \in 0 .. SLOTS + 1 /\ StopCounts'
  BY <1>1, <1>2 DEF StopCounts, SizeAssumption
<1>4. LineTypeOK'
  BY <1>1, <1>3 DEF LineTypeOK
<1>5. LinesKnown' /\ SetFirst' /\ RunsExpected' /\ CompletedInOrder' /\ CounterTracksCompleted'
      /\ AnswersTrue' /\ PendingTrue' /\ (confirmed <= Len(completed))'
  BY <1>1 DEF LinesKnown, SetFirst, RunsExpected, CompletedInOrder, CounterTracksCompleted,
              AnswersTrue, PendingTrue
<1> QED
  BY <1>3, <1>4, <1>5

LEMMA SendInvariant ==
    ASSUME NumberAssumption, SizeAssumption, LineInv, NEW valid \in BOOLEAN, Send(valid)
    PROVE  LineInv'
<1> USE DEF LineInv
<1>1. /\ emergencyStopRequest = 0 /\ next <= LAST
      /\ faults' \in 0 .. FAULTS
      /\ requests' = IF Len(requests) = SLOTS THEN requests ELSE Append(requests, Line(next, valid))
      /\ next' = IF next = 0 THEN 0 ELSE next + 1
      /\ UNCHANGED <<currentCommandNumber, emergencyStopRequest, stage, answer, responses,
                     completed, confirmed>>
  BY DEF Send, Queue, LineTypeOK, SizeAssumption
<1>2. /\ Line(next, valid) \in Request /\ Line(next, valid).valueN = START + next
      /\ Line(next, valid).valueN \in START .. START + LAST
      /\ Line(next, valid).M110 <=> next = 0
      /\ Line(next, valid).M110 <=> Line(next, valid).valueN = START
      /\ next' \in 0 .. LAST + 1 /\ (next' = 0 <=> next = 0)
  <2>1. next \in 0 .. LAST /\ next' \in 0 .. LAST + 1 /\ (next' = 0 <=> next = 0)
    BY <1>1 DEF LineTypeOK, NumberAssumption
  <2>2. Line(next, valid).valueN = START + next /\ (Line(next, valid).M110 <=> next = 0)
    BY DEF Line
  <2>3. START + next \in 0 .. MAX_NUMBER /\ START + next \in START .. START + LAST
        /\ (next = 0 <=> START + next = START)
    BY <2>1 DEF NumberAssumption
  <2>4. Line(next, valid) \in Request
    BY <2>3 DEF Line, Request
  <2> QED
    BY <2>1, <2>2, <2>3, <2>4
<1>3. StopCounts' /\ AnswersTrue' /\ CompletedInOrder' /\ CounterTracksCompleted'
      /\ (confirmed <= Len(completed))' /\ PendingTrue'
  BY <1>1 DEF StopCounts, AnswersTrue, CompletedInOrder, CounterTracksCompleted, PendingTrue
<1>4. CASE Len(requests) = SLOTS
  <2>1. LineTypeOK'
    BY <1>1, <1>2, <1>4 DEF LineTypeOK
  <2>2. LinesKnown' /\ SetFirst' /\ RunsExpected'
    BY <1>1, <1>2, <1>4 DEF LinesKnown, SetFirst, RunsExpected
  <2> QED
    BY <1>3, <2>1, <2>2
<1>5. CASE Len(requests) # SLOTS
  <2>1. /\ Len(requests) \in Nat
        /\ requests' \in Seq(Request) /\ Len(requests') = Len(requests) + 1
        /\ \A i \in 1 .. Len(requests) : requests'[i] = requests[i]
        /\ requests'[Len(requests) + 1] = Line(next, valid)
    BY <1>1, <1>2, <1>5, AppendFacts DEF LineTypeOK
  <2>2. Len(requests') <= SLOTS
    BY <1>5, <2>1 DEF LineTypeOK, SizeAssumption
  <2>3. \A i \in 1 .. Len(requests') :
           \/ i \in 1 .. Len(requests) /\ requests'[i] = requests[i]
           \/ i = Len(requests) + 1 /\ requests'[i] = Line(next, valid)
    BY <2>1
  <2>4. LineTypeOK'
    BY <1>1, <1>2, <2>1, <2>2 DEF LineTypeOK
  <2>5. LinesKnown'
    BY <1>2, <2>3 DEF LinesKnown
  <2>6. SetFirst'
    <3>1. ASSUME NEW i \in 1 .. Len(requests'), NEW j \in 1 .. Len(requests'),
                 i < j, requests'[j].M110
          PROVE  requests'[i].M110
      <4>1. i \in 1 .. Len(requests) /\ requests'[i] = requests[i]
        BY <2>1, <3>1
      <4>2. CASE j = Len(requests) + 1
        BY <1>2, <2>1, <3>1, <4>1, <4>2 DEF SetFirst
      <4>3. CASE j # Len(requests) + 1
        BY <2>3, <3>1, <4>1, <4>3 DEF SetFirst
      <4> QED
        BY <4>2, <4>3
    <3>2. next' = 0 => completed' = <<>> /\ \A i \in 1 .. Len(requests') : requests'[i].M110
      BY <1>1, <1>2, <2>3 DEF SetFirst
    <3>3. completed' # <<>> => \A i \in 1 .. Len(requests') : ~requests'[i].M110
      BY <1>1, <1>2, <2>3 DEF SetFirst
    <3> QED
      BY <3>1, <3>2, <3>3 DEF SetFirst
  <2>7. RunsExpected'
    <3>1. requests # <<>> => requests'[1] = requests[1]
      <4>1. requests # <<>> => Len(requests) >= 1
        BY <2>1, EmptySeq, SMTT(20) DEF LineTypeOK
      <4> QED
        BY <2>1, <4>1
    <3>2. requests' # <<>>
      BY <2>1, EmptySeq
    <3> QED
      BY <1>1, <3>1, <3>2 DEF RunsExpected
  <2> QED
    BY <1>3, <2>4, <2>5, <2>6, <2>7
<1> QED
  BY <1>4, <1>5

\* What the host reads changes what it believes and sends, nothing else.
LEMMA ReadInvariant ==
    ASSUME NumberAssumption, SizeAssumption, LineInv, Read
    PROVE  /\ LineInv'
           /\ confirmed' # confirmed => confirmed' \in confirmed + 1 .. Len(completed)
<1> USE DEF LineInv
<1> DEFINE r == Head(responses)
<1>1. /\ responses # <<>> /\ responses' = Tail(responses)
      /\ UNCHANGED <<requests, currentCommandNumber, emergencyStopRequest, stage, answer,
                     completed, faults>>
  BY DEF Read, printerVars
<1>2. /\ Len(responses) \in Nat /\ Len(responses) >= 1
      /\ r = responses[1] /\ r \in Response
      /\ responses' \in Seq(Response) /\ Len(responses') = Len(responses) - 1
      /\ \A i \in 1 .. Len(responses) - 1 :
            i + 1 \in 1 .. Len(responses) /\ responses'[i] = responses[i + 1]
  BY <1>1, TailFacts DEF LineTypeOK
<1>3. Len(completed) \in Nat /\ Len(completed) <= LAST
  BY CountFacts
<1>4. /\ confirmed' = confirmed \/ confirmed' \in confirmed + 1 .. Len(completed)
      /\ next' \in 0 .. LAST + 1 /\ (next' = 0 => next = 0)
  <2>1. CASE r.kind \in {"ok", "skip"}
    <3>1. r.number \in START .. START + Len(completed)
      BY <1>2, <2>1 DEF AnswersTrue
    <3>2. /\ confirmed' = IF r.number - START > confirmed THEN r.number - START ELSE confirmed
          /\ next' = IF next = 0 THEN 1 ELSE next
      BY <2>1 DEF Read
    <3>3. next \in 0 .. LAST + 1 /\ confirmed \in Nat /\ START \in Nat /\ LAST \in Nat \ {0}
      BY DEF LineTypeOK, NumberAssumption
    <3>4. confirmed' = confirmed \/ confirmed' \in confirmed + 1 .. Len(completed)
      BY <1>3, <3>1, <3>2, <3>3
    <3> QED
      BY <3>2, <3>3, <3>4
  <2>2. CASE r.kind = "rs"
    <3>1. /\ confirmed' = confirmed
          /\ next' = IF next > 0 /\ r.number - START \in 1 .. LAST THEN r.number - START ELSE next
      BY <2>2 DEF Read
    <3>2. next \in 0 .. LAST + 1 /\ START \in Nat /\ LAST \in Nat \ {0}
      BY DEF LineTypeOK, NumberAssumption
    <3>3. next' = next \/ (next > 0 /\ next' \in 1 .. LAST)
      BY <3>1
    <3>4. next' \in 0 .. LAST + 1 /\ (next' = 0 => next = 0)
      BY <3>2, <3>3
    <3> QED
      BY <3>1, <3>4
  <2>3. CASE r.kind \in {"Error", "stopped"}
    BY <2>3 DEF Read, senderVars, LineTypeOK
  <2> QED
    BY <2>1, <2>2, <2>3 DEF Read
<1>5. confirmed' \in 0 .. LAST /\ confirmed' <= Len(completed)
  BY <1>3, <1>4 DEF LineTypeOK, NumberAssumption
<1>6. Len(responses') <= UNREAD
  BY <1>2 DEF LineTypeOK, SizeAssumption
<1>7. LineTypeOK'
  BY <1>1, <1>2, <1>4, <1>5, <1>6 DEF LineTypeOK
<1>8. AnswersTrue' /\ PendingTrue'
  BY <1>1, <1>2 DEF AnswersTrue, PendingTrue
<1>9. LinesKnown' /\ SetFirst' /\ RunsExpected' /\ StopCounts' /\ CompletedInOrder'
      /\ CounterTracksCompleted' /\ (confirmed <= Len(completed))'
  BY <1>1, <1>4, <1>5 DEF LinesKnown, SetFirst, RunsExpected, StopCounts, CompletedInOrder,
                          CounterTracksCompleted
<1> QED
  BY <1>4, <1>7, <1>8, <1>9

LEMMA TimeoutInvariant ==
    ASSUME NumberAssumption, SizeAssumption, LineInv, Timeout
    PROVE  LineInv'
<1> USE DEF LineInv
<1>1. /\ confirmed < LAST /\ next' = confirmed + 1
      /\ UNCHANGED <<requests, currentCommandNumber, emergencyStopRequest, stage, answer,
                     responses, completed, confirmed, faults>>
  BY DEF Timeout, printerVars
<1>2. next' \in 0 .. LAST + 1 /\ next' # 0
  BY <1>1 DEF LineTypeOK, NumberAssumption
<1>3. LineTypeOK'
  BY <1>1, <1>2 DEF LineTypeOK
<1>4. LinesKnown' /\ SetFirst' /\ RunsExpected' /\ StopCounts' /\ CompletedInOrder'
      /\ CounterTracksCompleted' /\ AnswersTrue' /\ PendingTrue' /\ (confirmed <= Len(completed))'
  BY <1>1, <1>2 DEF LinesKnown, SetFirst, RunsExpected, StopCounts, CompletedInOrder,
                    CounterTracksCompleted, AnswersTrue, PendingTrue
<1> QED
  BY <1>3, <1>4

LEMMA SameInvariant ==
    ASSUME LineInv, UNCHANGED lineVars
    PROVE  LineInv'
<1> USE DEF lineVars, printerVars, senderVars
<1>1. LineTypeOK'
  BY DEF LineInv, LineTypeOK
<1>2. LinesKnown' /\ SetFirst' /\ RunsExpected' /\ StopCounts' /\ CompletedInOrder'
      /\ CounterTracksCompleted' /\ AnswersTrue' /\ PendingTrue' /\ (confirmed <= Len(completed))'
  BY DEF LineInv, LinesKnown, SetFirst, RunsExpected, StopCounts, CompletedInOrder,
         CounterTracksCompleted, AnswersTrue, PendingTrue
<1> QED
  BY <1>1, <1>2 DEF LineInv

LEMMA StepInvariant ==
    ASSUME NumberAssumption, SizeAssumption, LineInv, [LineNext]_lineVars
    PROVE  LineInv'
<1>1. CASE Refuse \/ RefuseBroken
  BY <1>1, RefuseInvariant
<1>2. CASE Run
  BY <1>2, RunInvariant
<1>3. CASE Succeed
  BY <1>3, SucceedInvariant
<1>4. CASE Fail
  BY <1>4, FailInvariant
<1>5. CASE Discard \/ CheckStop \/ SendResponse
  BY <1>5, DiscardInvariant, CheckStopInvariant, SendResponseInvariant
<1>6. CASE ObeyStop \/ ConfirmStop
  BY <1>6, ObeyStopInvariant, ConfirmStopInvariant
<1>7. CASE Send(TRUE) \/ Send(FALSE)
  BY <1>7, SendInvariant
<1>8. CASE ReceiveStop
  BY <1>8, ReceiveStopInvariant
<1>9. CASE Read
  BY <1>9, ReadInvariant
<1>10. CASE Timeout
  BY <1>10, TimeoutInvariant
<1>11. CASE UNCHANGED lineVars
  BY <1>11, SameInvariant
<1>12. CASE Done
  BY <1>11, <1>12 DEF Done
<1> QED
  BY <1>1, <1>2, <1>3, <1>4, <1>5, <1>6, <1>7, <1>8, <1>9, <1>10, <1>11, <1>12
  DEF LineNext, MainLoop

LEMMA Inductive ==
    ASSUME NumberAssumption, SizeAssumption
    PROVE  LineSpec => []LineInv
<1>1. LineInit => LineInv
  BY InitInvariant
<1>2. LineInv /\ [LineNext]_lineVars => LineInv'
  BY StepInvariant
<1> QED
  BY <1>1, <1>2, PTL DEF LineSpec

-----------------------------------------------------------------------------
(* The theorems.                                                           *)

\* Whatever is dropped, damaged, refused, stopped or sent again, numbered
\* commands complete in the order of their numbers and each once (main.cpp
\* 1184-1212, 1909).
THEOREM InOrder ==
    ASSUME NumberAssumption, SizeAssumption
    PROVE  LineSpec => []CompletedInOrder
<1>1. LineInv => CompletedInOrder
  BY DEF LineInv
<1> QED
  BY <1>1, Inductive, PTL

\* The number the main loop expects is always the one after the last command
\* that completed, also when a stop took its answer (main.cpp 1909, 1938).
THEOREM CounterCorrect ==
    ASSUME NumberAssumption, SizeAssumption
    PROVE  LineSpec => []CounterTracksCompleted
<1>1. LineInv => CounterTracksCompleted
  BY DEF LineInv
<1> QED
  BY <1>1, Inductive, PTL

\* A step of the printer and the host is a completion, a confirmation of what
\* completed, or nothing to NumberedDelivery.
LEMMA StepDelivers ==
    ASSUME NumberAssumption, SizeAssumption, LineInv, [LineNext]_lineVars
    PROVE  [Delivery!Next]_(Delivery!vars)
<1> USE DEF Delivery!vars
<1>1. Len(completed) \in Nat
  BY CountFacts DEF LineInv
<1>2. CASE Succeed
  <2>1. CASE oldest.M110
    BY <1>2, <2>1 DEF Succeed, senderVars
  <2>2. CASE ~oldest.M110
    <3>1. completed' = Append(completed, oldest.valueN) /\ confirmed' = confirmed
      BY <1>2, <2>2 DEF Succeed, senderVars
    <3>2. oldest.valueN \in START + 1 .. START + LAST /\ Len(completed) < LAST
      <4>1. requests # <<>> /\ requests[1].valueN = currentCommandNumber
        BY <1>2 DEF Succeed, LineInv, RunsExpected
      <4>2. oldest.valueN \in START .. START + LAST /\ oldest.valueN # START
            /\ oldest.valueN = currentCommandNumber
        BY <2>2, <4>1, OldestFacts DEF LineInv
      <4> QED
        BY <1>1, <4>2 DEF NumberAssumption, LineInv, CounterTracksCompleted
    <3>3. Len(completed') = Len(completed) + 1
      BY <3>1, <3>2, AppendFacts DEF LineInv, LineTypeOK
    <3> QED
      BY <1>1, <3>1, <3>2, <3>3 DEF Delivery!Next, Delivery!Complete
  <2> QED
    BY <2>1, <2>2
<1>3. CASE Read
  <2>1. completed' = completed
    BY <1>3 DEF Read
  <2>2. CASE confirmed' = confirmed
    BY <2>1, <2>2
  <2>3. CASE confirmed' # confirmed
    BY <1>3, <2>1, <2>3, ReadInvariant DEF Delivery!Next, Delivery!Confirm
  <2> QED
    BY <2>2, <2>3
<1>4. CASE \/ Refuse \/ RefuseBroken \/ Run \/ Fail \/ Discard \/ ObeyStop
           \/ CheckStop \/ SendResponse \/ ConfirmStop
           \/ Send(TRUE) \/ Send(FALSE) \/ ReceiveStop \/ Timeout \/ Done \/ UNCHANGED lineVars
  BY <1>4 DEF Refuse, RefuseBroken, Run, Fail, Discard, ObeyStop, CheckStop, SendResponse,
              ConfirmStop, Send, ReceiveStop, Timeout, Done, lineVars, senderVars
<1> QED
  BY <1>2, <1>3, <1>4 DEF LineNext, MainLoop

\* The main loop's answers implement ordered delivery: the host takes a command
\* for completed, by its ok or by a skip, only if it is.
THEOREM NumbersImplementDelivery ==
    ASSUME NumberAssumption, SizeAssumption
    PROVE  LineSpec => ImplementsNumberedDelivery
<1>1. LineInit => Delivery!Init
  BY EmptySeq DEF LineInit, Delivery!Init
<1>2. LineInv /\ [LineNext]_lineVars => [Delivery!Next]_(Delivery!vars)
  BY StepDelivers
<1> QED
  BY <1>1, <1>2, Inductive, PTL DEF LineSpec, ImplementsNumberedDelivery, Delivery!Spec

-----------------------------------------------------------------------------
(* Commands.  The inductive invariant: which copy may be old while which   *)
(* task is left to do.                                                     *)

MemoryTyped ==
  /\ eeprom = [a \in Addresses |-> eeprom[a]]
  /\ cached = [r \in DOMAIN REGIONS |-> cached[r]]

\* A copy is what the EEPROM holds.
Fresh(r) == cached[r] = Copies(eeprom)[r]

\* M618 refreshes the copies one after the other; the calibrations write the
\* bed only, and turned the heater off before they did.
CommandsInv ==
  /\ MemoryTyped
  /\ task # "serial" => Fresh("serial")
  /\ task \notin {"serial", "bed", "saved", "centred", "corners"} => Fresh("bed")
  /\ task \notin {"serial", "bed", "heater"} => Fresh("heater") /\ HeaterCalibrated

\* Where the regions are.
LEMMA RegionFacts ==
  ASSUME CommandsAssumption
  PROVE  /\ DOMAIN REGIONS = {"serial", "bed", "heater"}
         /\ \A r \in DOMAIN REGIONS : REGIONS[r] \in Addresses
         /\ REGIONS["bed"] # REGIONS["serial"] /\ REGIONS["bed"] # REGIONS["heater"]
         /\ \A e : Copies(e)["serial"] = Shown(e[REGIONS["serial"]])
         /\ \A e : Copies(e)["bed"] = e[REGIONS["bed"]]
         /\ \A e : Copies(e)["heater"] = e[REGIONS["heater"]]
<1>1. DOMAIN REGIONS = {"serial", "bed", "heater"}
  BY DEF CommandsAssumption
<1>2. \A r \in DOMAIN REGIONS : REGIONS[r] \in Addresses
  BY DEF CommandsAssumption, Addresses
<1>3. REGIONS["bed"] # REGIONS["serial"] /\ REGIONS["bed"] # REGIONS["heater"]
  BY <1>1 DEF CommandsAssumption
<1>4. /\ \A e : Copies(e)["serial"] = Shown(e[REGIONS["serial"]])
      /\ \A e : Copies(e)["bed"] = e[REGIONS["bed"]]
      /\ \A e : Copies(e)["heater"] = e[REGIONS["heater"]]
  BY <1>1 DEF Copies
<1> QED
  BY <1>1, <1>2, <1>3, <1>4

\* A copy that is read again is fresh, and the others are as fresh as before.
LEMMA RereadFacts ==
  ASSUME CommandsAssumption, MemoryTyped, NEW r \in DOMAIN REGIONS, Reread(r), UNCHANGED eeprom
  PROVE  MemoryTyped' /\ Fresh(r)' /\ \A q \in DOMAIN REGIONS : Fresh(q) => Fresh(q)'
<1>1. cached' = [q \in DOMAIN REGIONS |-> IF q = r THEN Copies(eeprom)[r] ELSE cached[q]]
  BY DEF Reread, MemoryTyped
<1>2. Copies(eeprom') = Copies(eeprom)
  OBVIOUS
<1>3. MemoryTyped'
  BY <1>1 DEF MemoryTyped
<1>4. cached'[r] = Copies(eeprom)[r]
  BY <1>1
<1>5. \A q \in DOMAIN REGIONS : cached[q] = Copies(eeprom)[q] => cached'[q] = Copies(eeprom)[q]
  BY <1>1
<1> QED
  BY <1>2, <1>3, <1>4, <1>5 DEF Fresh

\* What a calibration writes of the bed concerns no other copy.
LEMMA BedWritten ==
  ASSUME CommandsAssumption, MemoryTyped, NEW b, eeprom' = [eeprom EXCEPT ![REGIONS["bed"]] = b]
  PROVE  /\ eeprom' = [a \in Addresses |-> eeprom'[a]]
         /\ Copies(eeprom')["serial"] = Copies(eeprom)["serial"]
         /\ Copies(eeprom')["heater"] = Copies(eeprom)["heater"]
         /\ eeprom'[REGIONS["heater"]] = eeprom[REGIONS["heater"]]
<1>1. eeprom' = [a \in Addresses |-> IF a = REGIONS["bed"] THEN b ELSE eeprom[a]]
  BY DEF MemoryTyped
<1>2. /\ REGIONS["serial"] \in Addresses /\ REGIONS["serial"] # REGIONS["bed"]
      /\ REGIONS["heater"] \in Addresses /\ REGIONS["heater"] # REGIONS["bed"]
  BY RegionFacts
<1>3. /\ eeprom'[REGIONS["serial"]] = eeprom[REGIONS["serial"]]
      /\ eeprom'[REGIONS["heater"]] = eeprom[REGIONS["heater"]]
  BY <1>1, <1>2
<1>4. eeprom' = [a \in Addresses |-> eeprom'[a]]
  BY <1>1
<1> QED
  BY <1>3, <1>4, RegionFacts

\* A step that leaves EEPROM and copies alone, and the heater at most turned
\* off, from no task that has copies to refresh to another such.
LEMMA QuietInvariant ==
  ASSUME CommandsInv, UNCHANGED <<eeprom, cached>>, heater' => heater,
         task' = task \/ {task, task'} \subseteq {"none", "move", "extrude"}
  PROVE  CommandsInv'
<1>1. MemoryTyped'
  BY DEF CommandsInv, MemoryTyped
<1>2. \A r : Fresh(r)' <=> Fresh(r)
  BY DEF Fresh, Copies
<1>3. HeaterCalibrated => HeaterCalibrated'
  BY DEF HeaterCalibrated
<1> QED
  BY <1>1, <1>2, <1>3 DEF CommandsInv

LEMMA TemperatureInvariant ==
  ASSUME CommandsAssumption, CommandsInv, NEW c, NEW v, task = "none", Temperature(c, v)
  PROVE  CommandsInv'
<1>1. UNCHANGED <<eeprom, task>>
  BY DEF Temperature
<1>2. CASE UNCHANGED <<heater, cached>>
  BY <1>1, <1>2, QuietInvariant
<1>3. CASE Reread("heater") /\ (heater' => Supported(eeprom[REGIONS["heater"]]))
  <2>1. MemoryTyped /\ Fresh("serial") /\ Fresh("bed")
    BY DEF CommandsInv
  <2>2. MemoryTyped' /\ Fresh("serial")' /\ Fresh("bed")' /\ Fresh("heater")'
    BY <1>1, <1>3, <2>1, RegionFacts, RereadFacts
  <2>3. HeaterCalibrated'
    BY <1>1, <1>3 DEF HeaterCalibrated, Supported
  <2> QED
    BY <2>2, <2>3 DEF CommandsInv
<1> QED
  BY <1>2, <1>3 DEF Temperature

LEMMA AccessInvariant ==
  ASSUME CommandsAssumption, CommandsInv, NEW c, NEW v, task = "none", AccessEeprom(c, v)
  PROVE  CommandsInv'
<1>1. UNCHANGED <<cached, heater>>
  BY DEF AccessEeprom, peripherals
<1>2. CASE UNCHANGED <<eeprom, task>>
  BY <1>1, <1>2, QuietInvariant
<1>3. CASE eeprom' = Written(v) /\ task' = "serial"
  BY <1>1, <1>3 DEF CommandsInv, MemoryTyped, Written
<1> QED
  BY <1>2, <1>3 DEF AccessEeprom

LEMMA CalibrateInvariant ==
  ASSUME CommandsAssumption, CommandsInv, NEW c, task = "none", Calibrate(c)
  PROVE  CommandsInv'
<1>1. Reread("heater") /\ heater' = FALSE
  BY DEF Calibrate
<1>2. MemoryTyped /\ Fresh("serial") /\ Fresh("bed") /\ Fresh("heater")
  BY DEF CommandsInv
<1>3. CASE UNCHANGED <<eeprom, task>>
  <2>1. MemoryTyped' /\ Fresh("serial")' /\ Fresh("bed")' /\ Fresh("heater")'
    BY <1>1, <1>2, <1>3, RegionFacts, RereadFacts
  <2> QED
    BY <1>1, <1>3, <2>1 DEF CommandsInv, HeaterCalibrated
<1>4. CASE EraseOffset /\ task' \in {"saved", "centred"}
  <2>1. cached' = cached
    <3>1. cached = [r \in DOMAIN REGIONS |-> cached[r]] /\ "heater" \in DOMAIN REGIONS
      BY <1>2, RegionFacts DEF MemoryTyped
    <3> QED
      BY <1>1, <1>2, <3>1 DEF Reread, Fresh
  <2>2. /\ eeprom' = [a \in Addresses |-> eeprom'[a]]
        /\ Copies(eeprom')["serial"] = Copies(eeprom)["serial"]
        /\ Copies(eeprom')["heater"] = Copies(eeprom)["heater"]
    BY <1>2, <1>4, BedWritten DEF EraseOffset
  <2>3. MemoryTyped' /\ Fresh("serial")' /\ Fresh("heater")'
    BY <1>2, <2>1, <2>2 DEF MemoryTyped, Fresh
  <2> QED
    BY <1>1, <1>4, <2>3 DEF CommandsInv, HeaterCalibrated
<1> QED
  BY <1>3, <1>4 DEF Calibrate

\* G33, and a corner of G32.
LEMMA WriteBedInvariant ==
  ASSUME CommandsAssumption, CommandsInv, NEW b, task \notin {"serial", "bed", "heater"},
         eeprom' = [eeprom EXCEPT ![REGIONS["bed"]] = b], task' \in {"saved", "corners"},
         UNCHANGED <<cached, heater>>
  PROVE  CommandsInv'
<1>1. MemoryTyped /\ Fresh("serial") /\ Fresh("heater") /\ HeaterCalibrated
  BY DEF CommandsInv
<1>2. /\ eeprom' = [a \in Addresses |-> eeprom'[a]]
      /\ Copies(eeprom')["serial"] = Copies(eeprom)["serial"]
      /\ Copies(eeprom')["heater"] = Copies(eeprom)["heater"]
      /\ eeprom'[REGIONS["heater"]] = eeprom[REGIONS["heater"]]
  BY <1>1, BedWritten
<1>3. MemoryTyped' /\ Fresh("serial")' /\ Fresh("heater")'
  BY <1>1, <1>2 DEF MemoryTyped, Fresh
<1>4. HeaterCalibrated'
  BY <1>1, <1>2 DEF HeaterCalibrated, Supported
<1> QED
  BY <1>3, <1>4 DEF CommandsInv

\* A copy is refreshed in the middle of a command.
LEMMA UpdateInvariant ==
  ASSUME CommandsAssumption, CommandsInv,
         UpdateSerialNumber \/ UpdateBedChanges \/ UpdateHeaterChanges \/ LoadBed \/ EndCorners
  PROVE  CommandsInv'
<1>1. MemoryTyped
  BY DEF CommandsInv
<1>2. CASE UpdateSerialNumber
  <2>1. task = "serial" /\ task' = "bed" /\ Reread("serial") /\ UNCHANGED eeprom
    BY <1>2 DEF UpdateSerialNumber
  <2>2. MemoryTyped' /\ Fresh("serial")'
    BY <1>1, <2>1, RegionFacts, RereadFacts
  <2> QED
    BY <2>1, <2>2 DEF CommandsInv
<1>3. CASE UpdateBedChanges
  <2>1. task = "bed" /\ task' = "heater" /\ Reread("bed") /\ UNCHANGED eeprom
    BY <1>3 DEF UpdateBedChanges
  <2>2. Fresh("serial")
    BY <2>1 DEF CommandsInv
  <2>3. MemoryTyped' /\ Fresh("serial")' /\ Fresh("bed")'
    BY <1>1, <2>1, <2>2, RegionFacts, RereadFacts
  <2> QED
    BY <2>1, <2>3 DEF CommandsInv
<1>4. CASE UpdateHeaterChanges
  <2>1. /\ task = "heater" /\ task' = "none" /\ Reread("heater") /\ UNCHANGED eeprom
        /\ heater' => Supported(eeprom[REGIONS["heater"]])
    BY <1>4 DEF UpdateHeaterChanges
  <2>2. Fresh("serial") /\ Fresh("bed")
    BY <2>1 DEF CommandsInv
  <2>3. MemoryTyped' /\ Fresh("serial")' /\ Fresh("bed")' /\ Fresh("heater")'
    BY <1>1, <2>1, <2>2, RegionFacts, RereadFacts
  <2>4. HeaterCalibrated'
    BY <2>1 DEF HeaterCalibrated, Supported
  <2> QED
    BY <2>1, <2>3, <2>4 DEF CommandsInv
<1>5. CASE LoadBed \/ EndCorners
  <2>1. /\ task \in {"saved", "centred", "corners"} /\ task' \in {"none", "corners"}
        /\ Reread("bed") /\ UNCHANGED <<eeprom, heater>>
    BY <1>5 DEF LoadBed, EndCorners, peripherals
  <2>2. Fresh("serial") /\ Fresh("heater") /\ HeaterCalibrated
    BY <2>1 DEF CommandsInv
  <2>3. MemoryTyped' /\ Fresh("serial")' /\ Fresh("bed")' /\ Fresh("heater")'
    BY <1>1, <2>1, <2>2, RegionFacts, RereadFacts
  <2>4. HeaterCalibrated'
    BY <2>1, <2>2 DEF HeaterCalibrated, Supported
  <2> QED
    BY <2>1, <2>3, <2>4 DEF CommandsInv
<1> QED
  BY <1>2, <1>3, <1>4, <1>5

\* The commands that write no memory and turn no heater on.
Quiet(c, v) ==
  \/ Motors(c) \/ ExtruderMode(c) \/ ReadTemperature(c) \/ SetFan(c, v) \/ SetLed(c, v)
  \/ Position(c) \/ Details(c) \/ Nothing(c) \/ Move(c, v) \/ Delay(c) \/ HomeXY(c)
  \/ Mode(c) \/ SetPosition(c, v) \/ Units(c) \/ Unknown(c)

LEMMA QuietFacts ==
  ASSUME NEW c, NEW v, Quiet(c, v)
  PROVE  /\ UNCHANGED <<eeprom, cached>> /\ (heater' => heater)
         /\ task' = task \/ task' \in {"move", "extrude"}
<1>1. CASE Motors(c) \/ ExtruderMode(c) \/ SetFan(c, v)
  BY <1>1 DEF Motors, ExtruderMode, SetFan, memory, peripherals
<1>2. CASE SetLed(c, v) \/ Details(c) \/ Nothing(c) \/ Delay(c)
  BY <1>2 DEF SetLed, Details, Nothing, Delay, memory, peripherals
<1>3. CASE Mode(c) \/ Units(c) \/ Unknown(c) \/ Position(c)
  BY <1>3 DEF Mode, Units, Unknown, Position, memory, peripherals
<1>4. CASE HomeXY(c) \/ SetPosition(c, v)
  BY <1>4 DEF HomeXY, SetPosition, memory, peripherals
<1>5. CASE ReadTemperature(c)
  BY <1>5 DEF ReadTemperature, memory
<1>6. CASE Move(c, v)
  BY <1>6 DEF Move, memory
<1> QED
  BY <1>1, <1>2, <1>3, <1>4, <1>5, <1>6 DEF Quiet

LEMMA ObeyInvariant ==
  ASSUME CommandsAssumption, CommandsInv, NEW c \in COMMANDS, Obey(c)
  PROVE  CommandsInv'
<1>1. PICK v : v = Parsed(c)
  OBVIOUS
<1>2. task = "none" /\ Execute(c, v)
  BY <1>1 DEF Obey
<1>3. CASE Quiet(c, v)
  <2>1. /\ UNCHANGED <<eeprom, cached>> /\ (heater' => heater)
        /\ task' = task \/ task' \in {"move", "extrude"}
    BY <1>3, QuietFacts
  <2> QED
    BY <1>2, <2>1, QuietInvariant
<1>4. CASE Temperature(c, v) \/ AccessEeprom(c, v) \/ Calibrate(c)
  BY <1>2, <1>4, TemperatureInvariant, AccessInvariant, CalibrateInvariant
<1>5. CASE SaveZ0(c)
  <2>1. /\ eeprom' = [eeprom EXCEPT ![REGIONS["bed"]] = 0] /\ task' = "saved"
        /\ UNCHANGED <<cached, heater>>
    BY <1>5 DEF SaveZ0, EraseOffset, peripherals
  <2> QED
    BY <1>2, <2>1, WriteBedInvariant
<1> QED
  BY <1>2, <1>3, <1>4, <1>5 DEF Execute, Quiet

LEMMA CommandsInitInvariant ==
  ASSUME CommandsAssumption, CommandsInit
  PROVE  CommandsInv
<1>1. /\ cached = Copies(eeprom) /\ heater = FALSE
      /\ eeprom = [a \in Addresses |-> IF a = REGIONS["heater"] THEN CHOOSE m \in MODES : TRUE
                                      ELSE UNDERSCORE]
  BY DEF CommandsInit
<1>2. MemoryTyped
  BY <1>1 DEF MemoryTyped, Copies
<1> QED
  BY <1>1, <1>2 DEF CommandsInv, Fresh, HeaterCalibrated

LEMMA CommandsStepInvariant ==
  ASSUME CommandsAssumption, CommandsInv, [CommandsNext]_commandVars
  PROVE  CommandsInv'
<1>1. CASE \E c \in COMMANDS : Obey(c)
  BY <1>1, ObeyInvariant
<1>2. CASE UpdateSerialNumber \/ UpdateBedChanges \/ UpdateHeaterChanges \/ LoadBed \/ EndCorners
  BY <1>2, UpdateInvariant
<1>3. CASE Travel \/ TooBig
  <2>1. /\ UNCHANGED <<eeprom, cached, heater>> /\ task \in {"move", "extrude"} /\ task' = "none"
    BY <1>3 DEF Travel, TooBig, memory, peripherals
  <2> QED
    BY <2>1, QuietInvariant
<1>4. CASE SaveCorner
  <2>1. /\ task = "corners" /\ UNCHANGED <<cached, heater, task>>
        /\ \E b \in BEDS : eeprom' = [eeprom EXCEPT ![REGIONS["bed"]] = b]
    BY <1>4 DEF SaveCorner, peripherals
  <2> QED
    BY <2>1, WriteBedInvariant
<1>5. CASE HeaterTested \/ Inactive
  <2>1. UNCHANGED <<eeprom, cached, task>> /\ (heater' => heater)
    BY <1>5 DEF HeaterTested, Inactive, memory
  <2> QED
    BY <2>1, QuietInvariant
<1>6. CASE UNCHANGED commandVars
  <2>1. UNCHANGED <<eeprom, cached, task, heater>>
    BY <1>6 DEF commandVars, memory, peripherals
  <2> QED
    BY <2>1, QuietInvariant
<1> QED
  BY <1>1, <1>2, <1>3, <1>4, <1>5, <1>6 DEF CommandsNext, Continue

\* Whenever a command is taken and whenever a movement uses the bed, RAM holds
\* what the EEPROM holds and a heater that is on has a mode the code supports,
\* for every EEPROM, every place of the regions in it, every set of commands
\* and every end of a calibration.
THEOREM CachesCorrect ==
  ASSUME CommandsAssumption
  PROVE  CommandsSpec => []CachesFresh
<1>1. CommandsInit => CommandsInv
  BY CommandsInitInvariant
<1>2. CommandsInv /\ [CommandsNext]_commandVars => CommandsInv'
  BY CommandsStepInvariant
<1>3. CommandsInv => CachesFresh
  <2> SUFFICES ASSUME CommandsInv, task \in {"none", "move", "extrude"}
               PROVE  CopiesFresh /\ HeaterCalibrated
    BY DEF CachesFresh
  <2>1. Fresh("serial") /\ Fresh("bed") /\ Fresh("heater") /\ HeaterCalibrated /\ MemoryTyped
    BY DEF CommandsInv
  <2>2. \A r \in DOMAIN REGIONS : cached[r] = Copies(eeprom)[r]
    BY <2>1, RegionFacts DEF Fresh
  <2>3. Copies(eeprom) = [r \in DOMAIN REGIONS |-> Copies(eeprom)[r]]
    BY DEF Copies
  <2>4. cached = Copies(eeprom)
    BY <2>1, <2>2, <2>3 DEF MemoryTyped
  <2> QED
    BY <2>1, <2>4 DEF CopiesFresh
<1> QED
  BY <1>1, <1>2, <1>3, PTL DEF CommandsSpec
=============================================================================
