----------------------------- MODULE LineNumbers ----------------------------
(***************************************************************************)
(* Line numbers: how the main loop answers a command that carries an N     *)
(* parameter, with a host that numbers its commands, resends on "rs" and   *)
(* on silence, over a ring that drops what it cannot hold and stops that   *)
(* discard what waits and silence what runs.                               *)
(*                                                                         *)
(* The ring is abstracted to a bounded queue (RequestQueue has the slots). *)
(* The host is not part of this repository; it is modelled from the        *)
(* responses the firmware gives it.                                        *)
(***************************************************************************)
EXTENDS Naturals, Sequences

CONSTANTS
    START,                 \* the number of the host's M110
    LAST,                  \* how many commands follow it
    MAX_NUMBER,            \* stands for UINT64_MAX
    WINDOW,                \* commands the host sends ahead of a confirmation
    SLOTS,                 \* requests the ring holds
    UNREAD,                \* responses that fit before the firmware blocks
    FAULTS                 \* damaged lines, failing commands and stops in all

NumberAssumption ==
    START \in Nat /\ LAST \in Nat \ {0} /\ MAX_NUMBER \in Nat /\ START + LAST <= MAX_NUMBER
SizeAssumption ==
    WINDOW \in Nat \ {0} /\ SLOTS \in Nat \ {0} /\ UNREAD \in Nat \ {0} /\ FAULTS \in Nat

VARIABLES
    requests,              \* parsed requests, oldest first
    currentCommandNumber,
    emergencyStopRequest,  \* 0, or 1 + the requests to discard first
    stage,                 \* where the main loop is with the oldest request
    answer,                \* the response it composed
    responses,             \* answers the host has not read yet
    completed,             \* numbers of the commands that ended in ok, in order
    next,                  \* host: the command it sends next, 0 for M110
    confirmed,             \* host: commands up to here are done
    faults                 \* faults so far

printerVars == <<requests, currentCommandNumber, emergencyStopRequest, stage, answer>>
senderVars == <<next, confirmed>>
lineVars == <<printerVars, responses, completed, senderVars, faults>>

\* M110 carries START, the host's command n carries START + n.
Request == [valueN : 0 .. MAX_NUMBER, M110 : BOOLEAN, validChecksum : BOOLEAN]
Response == [kind : {"ok", "rs", "skip"}, number : 0 .. MAX_NUMBER]
            \cup [kind : {"Error", "stopped"}]
NoAnswer == [kind |-> "none"]

LineTypeOK ==
    /\ requests \in Seq(Request) /\ Len(requests) <= SLOTS
    /\ currentCommandNumber \in 0 .. MAX_NUMBER
    /\ emergencyStopRequest \in 0 .. SLOTS + 1
    /\ stage \in {"idle", "run", "check", "send", "confirm"}
    /\ answer \in Response \cup {NoAnswer}
    /\ responses \in Seq(Response) /\ Len(responses) <= UNREAD
    /\ completed \in Seq(START + 1 .. START + LAST)
    /\ next \in 0 .. LAST + 1
    /\ confirmed \in 0 .. LAST
    /\ faults \in 0 .. FAULTS

LineInit ==
    /\ requests = <<>>
    /\ currentCommandNumber = 0
    /\ emergencyStopRequest = 0
    /\ stage = "idle"
    /\ answer = NoAnswer
    /\ responses = <<>>
    /\ completed = <<>>
    /\ next = 0
    /\ confirmed = 0
    /\ faults = 0

-----------------------------------------------------------------------------
(* The main loop.                                                          *)

oldest == Head(requests)

\* Faulty: what was already processed is asked for again.
VerdictResendOld ==
    IF ~oldest.validChecksum THEN "rs"
    ELSE IF oldest.M110 \/ oldest.valueN = currentCommandNumber THEN "run"
    ELSE "rs"

\* Faulty: any other number is skipped.
VerdictSkipGaps ==
    IF ~oldest.validChecksum THEN "rs"
    ELSE IF oldest.M110 \/ oldest.valueN = currentCommandNumber THEN "run"
    ELSE "skip"

\* What becomes of a numbered request.
Verdict ==
    IF ~oldest.validChecksum THEN "rs"
    ELSE IF oldest.M110 THEN "run"
    ELSE IF currentCommandNumber = MAX_NUMBER THEN "Error"
    ELSE IF oldest.valueN < currentCommandNumber THEN "skip"
    ELSE IF oldest.valueN > currentCommandNumber THEN "rs"
    ELSE "run"

Numbered(kind, number) == [kind |-> kind, number |-> number]

\* The response is composed; whether it is sent is decided after that.
Compose(response) == stage' = "check" /\ answer' = response

\* Clear the request, count down a pending stop.
Release ==
    /\ requests' = Tail(requests)
    /\ stage' = "idle"
    /\ answer' = NoAnswer
    /\ emergencyStopRequest' = IF emergencyStopRequest = 0 THEN 0
                               ELSE emergencyStopRequest - 1

\* The main loop looks at the oldest request: it refuses it, or begins to run it.
Refuse ==
    /\ requests # <<>> /\ stage = "idle" /\ emergencyStopRequest = 0
    /\ \/ Verdict = "rs" /\ Compose(Numbered("rs", currentCommandNumber))
       \/ Verdict = "skip" /\ Compose(Numbered("skip", oldest.valueN))
       \/ Verdict = "Error" /\ Compose([kind |-> "Error"])
    /\ UNCHANGED <<requests, currentCommandNumber, emergencyStopRequest, responses,
                   completed, senderVars, faults>>

\* The accelerometer or the heater does not answer: the number is not looked at.
RefuseBroken ==
    /\ requests # <<>> /\ stage = "idle" /\ emergencyStopRequest = 0
    /\ faults < FAULTS
    /\ faults' = faults + 1
    /\ Compose([kind |-> "Error"])
    /\ UNCHANGED <<requests, currentCommandNumber, emergencyStopRequest, responses,
                   completed, senderVars>>

Run ==
    /\ requests # <<>> /\ stage = "idle" /\ emergencyStopRequest = 0
    /\ Verdict = "run"
    /\ stage' = "run"
    /\ currentCommandNumber' = IF oldest.M110 THEN oldest.valueN ELSE currentCommandNumber
    /\ UNCHANGED <<requests, emergencyStopRequest, answer, responses, completed,
                   senderVars, faults>>

\* The command ends in ok and is counted, whether or not the ok will be sent.
Succeed ==
    /\ stage = "run"
    /\ Compose(Numbered("ok", oldest.valueN))
    /\ currentCommandNumber' = (currentCommandNumber + 1) % (MAX_NUMBER + 1)
    /\ completed' = IF oldest.M110 THEN completed ELSE Append(completed, oldest.valueN)
    /\ UNCHANGED <<requests, emergencyStopRequest, responses, senderVars, faults>>

\* The command ends in an error: the number stays.
Fail ==
    /\ stage = "run" /\ ~oldest.M110
    /\ faults < FAULTS
    /\ faults' = faults + 1
    /\ Compose([kind |-> "Error"])
    /\ UNCHANGED <<requests, currentCommandNumber, emergencyStopRequest, responses,
                   completed, senderVars>>

\* A stop that arrived meanwhile suppresses the response.
CheckStop ==
    /\ stage = "check"
    /\ \/ /\ emergencyStopRequest = 0
          /\ stage' = "send"
          /\ UNCHANGED <<requests, emergencyStopRequest, answer>>
       \/ /\ emergencyStopRequest > 0
          /\ Release
    /\ UNCHANGED <<currentCommandNumber, responses, completed, senderVars, faults>>

\* sendDataToUsb waits for room.  A stop that arrives while it does takes
\* away the interrupts that would make room.
Write ==
    /\ Len(responses) < UNREAD
    /\ responses' = Append(responses, answer)

SendResponse ==
    /\ stage = "send"
    /\ Write
    /\ Release
    /\ UNCHANGED <<currentCommandNumber, completed, senderVars, faults>>

\* A pending stop: a request leaves unseen.
Discard ==
    /\ emergencyStopRequest > 1 /\ stage = "idle"
    /\ Release
    /\ UNCHANGED <<currentCommandNumber, responses, completed, senderVars, faults>>

\* Every request before the stop is gone: the stop is over, and acknowledged
\* without a number.
ObeyStop ==
    /\ emergencyStopRequest = 1 /\ stage = "idle"
    /\ emergencyStopRequest' = 0
    /\ stage' = "confirm"
    /\ answer' = [kind |-> "stopped"]
    /\ UNCHANGED <<requests, currentCommandNumber, responses, completed, senderVars, faults>>

ConfirmStop ==
    /\ stage = "confirm"
    /\ Write
    /\ stage' = "idle"
    /\ answer' = NoAnswer
    /\ UNCHANGED <<requests, currentCommandNumber, emergencyStopRequest, completed,
                   senderVars, faults>>

MainLoop ==
    \/ Refuse \/ RefuseBroken \/ Run \/ Succeed \/ Fail \/ CheckStop \/ SendResponse
    \/ Discard \/ ObeyStop \/ ConfirmStop

\* The main loop waits for room that only a USB interrupt makes, and a stop
\* has turned those off: it waits for ever (RequestQueue's StuckInWrite).
StuckInWrite ==
    stage \in {"send", "confirm"} /\ Len(responses) = UNREAD /\ emergencyStopRequest > 0

-----------------------------------------------------------------------------
(* The receive callback and the host.                                      *)

Line(n, valid) == [valueN |-> START + n, M110 |-> n = 0, validChecksum |-> valid]

\* The receive callback keeps a line that the ring can hold.
Queue(line) == requests' = IF Len(requests) = SLOTS THEN requests ELSE Append(requests, line)

\* The host sends a numbered line, which arrives whole or damaged.  It sends
\* nothing after M110 before that is answered.
Send(valid) ==
    /\ emergencyStopRequest = 0
    /\ next <= LAST /\ next <= confirmed + WINDOW
    /\ valid \/ faults < FAULTS
    /\ faults' = IF valid THEN faults ELSE faults + 1
    /\ Queue(Line(next, valid))
    /\ next' = IF next = 0 THEN 0 ELSE next + 1
    /\ UNCHANGED <<currentCommandNumber, emergencyStopRequest, stage, answer,
                   responses, completed, confirmed>>

\* M0, M1 or M112 arrives: the requests before it are counted.
ReceiveStop ==
    /\ emergencyStopRequest = 0
    /\ faults < FAULTS
    /\ faults' = faults + 1
    /\ emergencyStopRequest' = 1 + Len(requests)
    /\ UNCHANGED <<requests, currentCommandNumber, stage, answer, responses, completed,
                   senderVars>>

\* The host reads a response, and an interrupt that a stop turns off learns of
\* it and makes room.  ok and skip confirm a command, rs names the one to go
\* back to.
Read ==
    /\ responses # <<>> /\ emergencyStopRequest = 0
    /\ responses' = Tail(responses)
    /\ LET r == Head(responses)
           n == r.number - START IN
         \/ /\ r.kind \in {"ok", "skip"}
            /\ confirmed' = IF n > confirmed THEN n ELSE confirmed
            /\ next' = IF next = 0 THEN 1 ELSE next
         \/ /\ r.kind = "rs"
            /\ next' = IF next > 0 /\ n \in 1 .. LAST THEN n ELSE next
            /\ UNCHANGED confirmed
         \/ /\ r.kind \in {"Error", "stopped"}
            /\ UNCHANGED senderVars
    /\ UNCHANGED <<printerVars, completed, faults>>

\* No answer for too long: the host sends again what is not confirmed.
Timeout ==
    /\ responses = <<>>
    /\ confirmed < LAST
    /\ next > confirmed + 1
    /\ next' = confirmed + 1
    /\ UNCHANGED <<printerVars, responses, completed, confirmed, faults>>

\* The host has nothing left to do and the printer nothing left to run, or the
\* main loop spins.
Done ==
    /\ \/ /\ confirmed = LAST /\ requests = <<>> /\ responses = <<>>
          /\ emergencyStopRequest = 0 /\ stage = "idle"
       \/ StuckInWrite
    /\ UNCHANGED lineVars

LineNext == MainLoop \/ Send(TRUE) \/ Send(FALSE) \/ ReceiveStop \/ Read \/ Timeout \/ Done

LineSpec == LineInit /\ [][LineNext]_lineVars

\* The main loop never waits for anything but its own output; the host keeps
\* reading, sending and timing out.
Fairness ==
    /\ WF_lineVars(MainLoop)
    /\ WF_lineVars(Read)
    /\ SF_lineVars(Send(TRUE))
    /\ SF_lineVars(Timeout)

-----------------------------------------------------------------------------
(* Properties.                                                             *)

\* Numbered commands complete in the order of their numbers, each exactly once
\* (main.cpp 1184-1212, 1909), whatever is dropped, damaged, refused, stopped or
\* sent again.
CompletedInOrder == \A i \in DOMAIN completed : completed[i] = START + i

\* The number the printer expects is the one after the last that completed, and
\* it never passes the largest number (main.cpp 1188, 1909): a command that a
\* stop leaves without an answer is counted, one that it discards is not.
CounterTracksCompleted ==
    \/ currentCommandNumber = START + 1 + Len(completed)
    \/ completed = <<>> /\ currentCommandNumber \in {0, START}

Delivery == INSTANCE NumberedDelivery WITH completed <- Len(completed)

\* The firmware, the host and the lines between them implement numbered
\* delivery: each of the numbered commands is carried out once and in order,
\* and the host believes it (ok or skip) only then.
ImplementsNumberedDelivery == Delivery!Spec

\* A host that keeps sending what is not confirmed gets every command confirmed,
\* also one whose ok a stop suppressed (main.cpp 1938): that is what skip is for.
\* Only a stop that finds the main loop waiting for room (main.cpp 1940, 2036)
\* ends that.
EveryCommandConfirmed == <>(confirmed = LAST \/ StuckInWrite)
=============================================================================
