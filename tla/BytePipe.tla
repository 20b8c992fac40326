------------------------------ MODULE BytePipe ------------------------------
(***************************************************************************)
(* What the CDC driver's transmit side promises: bytes come out in the     *)
(* order they were put in, none twice and none missing, at most CAPACITY   *)
(* are under way, and only a new connection discards those under way.      *)
(* Bytes are told apart by their number.                                   *)
(***************************************************************************)
EXTENDS Integers, Sequences

CONSTANT CAPACITY

VARIABLES
    pipe,           \* bytes under way
    out,            \* the last byte that came out
    count           \* bytes put in so far

Numbered(first, last) == [k \in 1 .. last - first + 1 |-> first + k - 1]

PipeInit == pipe = <<>> /\ out = 0 /\ count = 0

Put ==
    /\ \E n \in 1 .. CAPACITY - Len(pipe) :
          pipe' = pipe \o Numbered(count + 1, count + n) /\ count' = count + n
    /\ UNCHANGED out

Deliver ==
    /\ \E n \in 1 .. Len(pipe) :
          out' = pipe[n] /\ pipe' = SubSeq(pipe, n + 1, Len(pipe))
    /\ UNCHANGED count

Discard == pipe' = <<>> /\ UNCHANGED <<out, count>>

PipeNext == Put \/ Deliver \/ Discard

PipeSpec == PipeInit /\ [][PipeNext]_<<pipe, out, count>>
=============================================================================
