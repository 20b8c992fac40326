--------------------------- MODULE PrinterRequests ---------------------------
(***************************************************************************)
(* The requests of M33 Manager's Printer class: threads that send and      *)
(* receive, a thread that keeps the status, and one that connects and      *)
(* disconnects, with the recursive mutex they share.  Each function locks  *)
(* for itself and checks isConnected() before it locks; a step of this     *)
(* module is what happens under the lock, except for the reading of an     *)
(* answer, which holds the lock from byte to byte.                         *)
(*                                                                         *)
(* The printer answers request r with the bytes <<r, 1>> .. <<r, LENGTH>>. *)
(* A file descriptor of 0, after a disconnect, is standard input.          *)
(***************************************************************************)
EXTENDS Naturals, Sequences

CONSTANTS
    THREADS,         \* threads that send requests
    LENGTH,          \* bytes of an answer
    WAITS,           \* reads that wait for the first byte, 10 in the code
    REQUESTS,        \* bound on requests
    LINKS,           \* bound on connections
    PULLS,           \* bound on unpluggings
    TERMINATED,      \* receiveResponseTerminated (firmware) or Ascii
    HANGUP,          \* what read returns once the printer is gone
    DISCONNECTS      \* the user disconnects

RequestsAssumption ==
    /\ LENGTH \in Nat \ {0} /\ WAITS \in Nat \ {0} /\ HANGUP \in {"error", "nothing"}
    /\ {TERMINATED, DISCONNECTS} \subseteq BOOLEAN

Nobody == "nobody"

VARIABLES
    fd,              \* the connection, 0 if none
    link,            \* number of connections made
    plugged,         \* the printer is on the bus
    status,
    stopThread, running,  \* the status thread: told to stop, still running
    lock,            \* the thread reading an answer
    pc, written,     \* per requesting thread: where it is, what write returned
    request,         \* per requesting thread: its last request
    i,               \* per requesting thread: reads that waited
    response,        \* per requesting thread: bytes received
    owed,            \* requests the printer has yet to answer
    line,            \* bytes that arrived
    asked, pulls,
    delivered,       \* requests that reached the printer
    wroteAt          \* per requesting thread: connections made when it wrote

vars == <<fd, link, plugged, status, stopThread, running, lock, pc, written, request, i,
          response, owed, line, asked, pulls, delivered, wroteAt>>
thread == <<pc, written, request, i, response, lock>>
usb == <<owed, line>>
ghost == <<delivered, wroteAt>>
stop == <<stopThread, running>>

Init ==
    /\ fd = 0 /\ link = 0 /\ plugged = TRUE /\ status = "Not connected"
    /\ stopThread = FALSE /\ running = TRUE /\ lock = Nobody
    /\ pc = [t \in THREADS |-> "idle"] /\ written = [t \in THREADS |-> FALSE]
    /\ request = [t \in THREADS |-> 0] /\ i = [t \in THREADS |-> 0]
    /\ response = [t \in THREADS |-> <<>>]
    /\ owed = <<>> /\ line = <<>> /\ asked = 0 /\ pulls = 0
    /\ delivered = {} /\ wroteAt = [t \in THREADS |-> 0]

Free == lock = Nobody
IsIdle == \A t \in THREADS : pc[t] = "idle"

-----------------------------------------------------------------------------
\* disconnect
Disconnected == fd' = 0 /\ status' = IF status = "Connected" THEN "Disconnected" ELSE status

\* isConnected: a connection that broke is closed.
IsConnected(yes, no) ==
    IF fd = 0 THEN no /\ UNCHANGED <<fd, status>>
    ELSE IF plugged THEN yes /\ UNCHANGED <<fd, status>>
    ELSE no /\ Disconnected

\* connect to a new printer, with its lock held all along: the old connection
\* is closed first.
Connect ==
    /\ Free /\ link < LINKS /\ ~stopThread
    /\ link' = link + 1
    /\ IF plugged
       THEN fd' = link' /\ status' = IF status = "Connected" THEN "Reconnecting" ELSE "Connecting"
       ELSE fd' = 0 /\ status' = "No devices found"
    /\ owed' = <<>> /\ line' = <<>>
    /\ UNCHANGED <<plugged, stop, thread, asked, pulls, ghost>>

\* The user disconnects.
Disconnect ==
    /\ DISCONNECTS /\ Free /\ fd # 0
    /\ Disconnected
    /\ UNCHANGED <<link, plugged, stop, thread, usb, asked, pulls, ghost>>

-----------------------------------------------------------------------------
\* sendRequest: the check before the lock is taken.
SendCheck(t) ==
    /\ pc[t] = "idle" /\ asked < REQUESTS /\ Free /\ ~stopThread
    /\ asked' = asked + 1
    /\ request' = [request EXCEPT ![t] = asked']
    /\ response' = [response EXCEPT ![t] = <<>>]
    /\ IsConnected(pc' = [pc EXCEPT ![t] = "write"], UNCHANGED pc)
    /\ UNCHANGED <<link, plugged, stop, lock, written, i, usb, pulls, ghost>>

\* The write, and the disconnect when it failed; on a closed connection it
\* goes to standard input, which a terminal takes.
SendWrite(t) ==
    /\ pc[t] = "write" /\ Free
    /\ written' = [written EXCEPT ![t] = fd = 0 \/ plugged]
    /\ IF fd # 0 /\ plugged
       THEN /\ owed' = Append(owed, request[t]) /\ delivered' = delivered \cup {request[t]}
            /\ UNCHANGED <<fd, status>>
       ELSE Disconnected /\ UNCHANGED <<owed, delivered>>
    /\ pc' = [pc EXCEPT ![t] = "written"]
    /\ wroteAt' = [wroteAt EXCEPT ![t] = link]
    /\ UNCHANGED <<link, plugged, stop, lock, request, i, response, line, asked, pulls>>

\* Faulty: what write returned is enough.
SendReturnUnchecked(t) ==
    /\ pc[t] = "written" /\ Free
    /\ pc' = [pc EXCEPT ![t] = IF written[t] THEN "sent" ELSE "idle"]
    /\ UNCHANGED <<fd, status, link, plugged, stop, lock, written, request, i, response, usb, asked, pulls, ghost>>

\* The return value: written, and still connected.
SendReturn(t) ==
    /\ pc[t] = "written" /\ Free
    /\ IsConnected(pc' = [pc EXCEPT ![t] = IF written[t] THEN "sent" ELSE "idle"],
                   pc' = [pc EXCEPT ![t] = "idle"])
    /\ UNCHANGED <<link, plugged, stop, lock, written, request, i, response, usb, asked, pulls, ghost>>

-----------------------------------------------------------------------------
\* receiveResponse: the check before the lock is taken.
ReceiveCheck(t) ==
    /\ pc[t] = "sent" /\ Free
    /\ IsConnected(pc' = [pc EXCEPT ![t] = "lock"], pc' = [pc EXCEPT ![t] = "idle"])
    /\ UNCHANGED <<link, plugged, stop, lock, written, request, i, response, usb, asked, pulls, ghost>>

ReceiveLock(t) ==
    /\ pc[t] = "lock" /\ Free
    /\ lock' = t /\ i' = [i EXCEPT ![t] = 0]
    /\ pc' = [pc EXCEPT ![t] = "first"]
    /\ UNCHANGED <<fd, status, link, plugged, stop, written, request, response, usb, asked, pulls, ghost>>

\* What a read can find.  The printer is taken to answer within a second, which
\* is as long as the first byte is waited for: an answer that came later would
\* be taken for that to the next request.
ByteThere == fd # 0 /\ plugged /\ line # <<>>
NothingThere == \/ fd # 0 /\ plugged /\ line = <<>> /\ owed = <<>>
                \/ fd # 0 /\ ~plugged /\ HANGUP = "nothing"
ErrorThere == fd # 0 /\ ~plugged /\ HANGUP = "error"

Return(t) == pc' = [pc EXCEPT ![t] = "idle"] /\ lock' = Nobody

\* The first byte is waited for, WAITS reads long.
FirstNothing(t) ==
    /\ pc[t] = "first" /\ NothingThere
    /\ i' = [i EXCEPT ![t] = @ + 1]
    /\ IF i'[t] = WAITS THEN Return(t) ELSE UNCHANGED <<pc, lock>>
    /\ UNCHANGED <<fd, status, link, plugged, stop, written, request, response, usb, asked, pulls, ghost>>

Ends(byte) == TERMINATED /\ byte[2] = LENGTH

\* A byte that comes with the last of these reads counts as none.
FirstByte(t) ==
    /\ pc[t] = "first" /\ ByteThere
    /\ i' = [i EXCEPT ![t] = @ + 1]
    /\ line' = Tail(line)
    /\ response' = [response EXCEPT ![t] = IF i'[t] = WAITS \/ Ends(Head(line)) THEN @ ELSE <<Head(line)>>]
    /\ IF i'[t] = WAITS \/ Ends(Head(line)) THEN Return(t)
       ELSE pc' = [pc EXCEPT ![t] = "rest"] /\ UNCHANGED lock
    /\ UNCHANGED <<fd, status, link, plugged, stop, written, request, owed, asked, pulls, ghost>>

\* Further bytes, up to the end of the line for a terminated answer.
RestByte(t) ==
    /\ pc[t] = "rest" /\ ByteThere
    /\ line' = Tail(line)
    /\ response' = [response EXCEPT ![t] = IF Ends(Head(line)) THEN @ ELSE Append(@, Head(line))]
    /\ IF Ends(Head(line)) THEN Return(t) ELSE UNCHANGED <<pc, lock>>
    /\ UNCHANGED <<fd, status, link, plugged, stop, written, request, i, owed, asked, pulls, ghost>>

\* Nothing more: the end of a plain answer; a terminated one goes on reading.
RestNothing(t) ==
    /\ pc[t] = "rest" /\ NothingThere
    /\ IF TERMINATED THEN UNCHANGED <<pc, lock>> ELSE Return(t)
    /\ UNCHANGED <<fd, status, link, plugged, stop, written, request, i, response, usb, asked, pulls, ghost>>

\* The lock is released before the connection is closed.
ReadFails(t) ==
    /\ pc[t] \in {"first", "rest"} /\ ErrorThere
    /\ lock' = Nobody
    /\ pc' = [pc EXCEPT ![t] = "drop"]
    /\ response' = [response EXCEPT ![t] = <<>>]
    /\ UNCHANGED <<fd, status, link, plugged, stop, written, request, i, usb, asked, pulls, ghost>>

Drop(t) ==
    /\ pc[t] = "drop" /\ Free
    /\ Disconnected
    /\ pc' = [pc EXCEPT ![t] = "idle"]
    /\ UNCHANGED <<link, plugged, stop, lock, written, request, i, response, usb, asked, pulls, ghost>>

\* The connection was closed between the check and the lock: descriptor 0 is
\* read.
ReadStray(t) ==
    /\ pc[t] = "first" /\ fd = 0
    /\ Return(t)
    /\ UNCHANGED <<fd, status, link, plugged, stop, written, request, i, response, usb, asked, pulls, ghost>>

-----------------------------------------------------------------------------
\* The printer answers its requests in turn.
Answer ==
    /\ owed # <<>> /\ plugged /\ fd # 0
    /\ line' = line \o [k \in 1 .. LENGTH |-> <<Head(owed), k>>]
    /\ owed' = Tail(owed)
    /\ UNCHANGED <<fd, link, plugged, status, stop, thread, asked, pulls, ghost>>

Unplug ==
    /\ plugged /\ pulls < PULLS
    /\ plugged' = FALSE /\ pulls' = pulls + 1
    /\ owed' = <<>> /\ line' = <<>>
    /\ UNCHANGED <<fd, link, status, stop, thread, asked, ghost>>

\* It can be plugged in again once M33 Manager has closed the port.
Plug ==
    /\ ~plugged /\ fd = 0
    /\ plugged' = TRUE
    /\ UNCHANGED <<fd, link, status, stop, thread, usb, asked, pulls, ghost>>

\* One round of the status thread.
UpdateStatus ==
    /\ running /\ Free
    /\ IF stopThread
       THEN running' = FALSE /\ UNCHANGED <<fd, status>>
       ELSE /\ IF fd # 0 /\ plugged
               THEN status' = "Connected" /\ UNCHANGED fd
               ELSE IsConnected(TRUE, TRUE)
            /\ UNCHANGED running
    /\ UNCHANGED <<link, plugged, stopThread, thread, usb, asked, pulls, ghost>>

\* The destructor: disconnect, then the thread is told to stop and waited for.
Destroy ==
    /\ ~stopThread /\ Free /\ IsIdle
    /\ Disconnected
    /\ stopThread' = TRUE
    /\ UNCHANGED <<link, plugged, running, thread, usb, asked, pulls, ghost>>

Gone == stopThread /\ ~running /\ UNCHANGED vars

Receiving(t) ==
    \/ ReceiveCheck(t) \/ ReceiveLock(t) \/ FirstNothing(t) \/ FirstByte(t) \/ RestByte(t)
    \/ RestNothing(t) \/ ReadFails(t) \/ Drop(t) \/ ReadStray(t)

Next ==
    \/ Connect \/ Disconnect \/ Answer \/ Unplug \/ Plug \/ UpdateStatus \/ Destroy \/ Gone
    \/ \E t \in THREADS : SendCheck(t) \/ SendWrite(t) \/ SendReturn(t) \/ Receiving(t)

Spec == Init /\ [][Next]_vars

-----------------------------------------------------------------------------
(* sendRequest returns true only for a request that reached the printer,   *)
(* unless M33 Manager connected anew since the write: a write on a closed  *)
(* connection counts when there is one again at the return.                *)
SentMeansDelivered ==
    \A t \in THREADS : pc[t] = "sent" /\ wroteAt[t] = link => request[t] \in delivered

(* What a thread receives for its request is the printer's answer to it.   *)
AnswersMine ==
    \A t \in THREADS : \A n \in 1 .. Len(response[t]) : response[t][n] = <<request[t], n>>

(* What a thread receives is of one answer, from its beginning on.         *)
OneAnswer ==
    \A t \in THREADS : \A n \in 1 .. Len(response[t]) : response[t][n] = <<response[t][1][1], n>>
=============================================================================
