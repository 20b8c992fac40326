-------------------------- MODULE NumberedDelivery --------------------------
(***************************************************************************)
(* What line numbers promise a host: after M110 set the number, commands   *)
(* complete one at a time and in the order of their numbers, none twice    *)
(* and none left out, and the host believes a command completed only when  *)
(* it did.                                                                 *)
(***************************************************************************)
EXTENDS Naturals

CONSTANT LAST              \* the host's last command

VARIABLES
    completed,             \* the number of the last command that completed
    confirmed              \* the number the host knows to have completed

vars == <<completed, confirmed>>

Init == completed = 0 /\ confirmed = 0

Complete ==
    /\ completed < LAST
    /\ completed' = completed + 1
    /\ UNCHANGED confirmed

Confirm ==
    /\ confirmed' \in confirmed + 1 .. completed
    /\ UNCHANGED completed

Next == Complete \/ Confirm

Spec == Init /\ [][Next]_vars
=============================================================================
