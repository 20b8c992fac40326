---------------------------- MODULE RegisterBus ----------------------------
(***************************************************************************)
(* What a transfer to the accelerometer promises its caller: one call at a *)
(* time; a read that succeeds returns the chip's registers, a write that   *)
(* succeeds has stored its value; a call that fails may have stored it.    *)
(***************************************************************************)
EXTENDS Integers, Sequences

CONSTANTS
    REGISTERS,      \* the chip has registers 0 .. REGISTERS - 1
    Values,         \* contents of a register
    Packages        \* calls: [read, register, value, length]

VARIABLES
    registers,      \* the chip's registers
    call,           \* calls not yet answered, a sequence of at most one
    done,           \* the chip has served the call
    answer          \* [ok, bytes] of the last call

Bytes(contents, first, length) ==
    [k \in 1 .. length |-> contents[(first + k - 1) % REGISTERS]]

BusInit ==
    /\ registers \in [0 .. REGISTERS - 1 -> Values]
    /\ call = <<>> /\ done = FALSE
    /\ answer = [ok |-> FALSE, bytes |-> <<>>]

Call ==
    /\ call = <<>>
    /\ \E package \in Packages : call' = <<package>>
    /\ UNCHANGED <<registers, done, answer>>

Serve ==
    /\ call # <<>> /\ ~done
    /\ done' = TRUE
    /\ registers' = IF call[1].read THEN registers
                    ELSE [registers EXCEPT ![call[1].register] = call[1].value]
    /\ UNCHANGED <<call, answer>>

Return ==
    /\ call # <<>>
    /\ \E ok \in {FALSE, done} : answer' =
          [ok |-> ok,
           bytes |-> IF ok /\ call[1].read
                     THEN Bytes(registers, call[1].register, call[1].length)
                     ELSE <<>>]
    /\ call' = <<>> /\ done' = FALSE
    /\ UNCHANGED registers

BusNext == Call \/ Serve \/ Return

BusSpec == BusInit /\ [][BusNext]_<<registers, call, done, answer>>
=============================================================================
