---------------------------- MODULE CommandQueue ----------------------------
(***************************************************************************)
(* What the firmware promises about the commands a host sends it, without  *)
(* saying how.  Accepted commands wait in a bounded first-in first-out     *)
(* queue.  The oldest one is run and answered before it leaves.  A stop    *)
(* condemns exactly the commands that were waiting when it arrived: they   *)
(* leave without being started, and the stop is obeyed once the last of    *)
(* them has gone.  Commands accepted after the stop survive it.            *)
(***************************************************************************)
EXTENDS Naturals, Sequences

CONSTANTS
    Command,      \* the commands a host may send
    Capacity      \* how many may wait

VARIABLES
    queue,        \* the accepted commands, oldest first
    phase,        \* what is being done with the oldest one
    doomed        \* how many of the oldest a pending stop still has to discard

vars == <<queue, phase, doomed>>

Init ==
    /\ queue = <<>>
    /\ phase = "waiting"
    /\ doomed = 0

Accept(c) ==
    /\ Len(queue) < Capacity
    /\ queue' = Append(queue, c)
    /\ UNCHANGED <<phase, doomed>>

Stop ==
    /\ phase' = "stopped"
    /\ doomed' = Len(queue)
    /\ UNCHANGED queue

Start ==
    /\ phase = "waiting"
    /\ queue # <<>>
    /\ phase' = "running"
    /\ UNCHANGED <<queue, doomed>>

Answer ==
    /\ phase = "running"
    /\ phase' = "answered"
    /\ UNCHANGED <<queue, doomed>>

Complete ==
    /\ phase = "answered"
    /\ phase' = "waiting"
    /\ queue' = Tail(queue)
    /\ UNCHANGED doomed

Discard ==
    /\ phase = "stopped"
    /\ doomed > 0
    /\ doomed' = doomed - 1
    /\ queue' = Tail(queue)
    /\ UNCHANGED phase

Obey ==
    /\ phase = "stopped"
    /\ doomed = 0
    /\ phase' = "waiting"
    /\ UNCHANGED <<queue, doomed>>

\* A command that restarts the firmware loses everything that was waiting,
\* whether or not a stop arrived while it ran.
Restart ==
    /\ phase \in {"running", "stopped"}
    /\ queue # <<>>
    /\ queue' = <<>>
    /\ phase' = "waiting"
    /\ doomed' = 0

Next ==
    \/ \E c \in Command : Accept(c)
    \/ Stop
    \/ Start
    \/ Answer
    \/ Complete
    \/ Discard
    \/ Obey
    \/ Restart

Spec == Init /\ [][Next]_vars
=============================================================================
