-------------------------- MODULE SavedStateProofs --------------------------
(***************************************************************************)
(* The state that survives a loss of power: the axes, for every sequence   *)
(* of axes, every set of values and every number of commands, losses of    *)
(* power and resets, and the EEPROM driver, for every size of memory and   *)
(* page, every set of cells that the save interrupt writes and every       *)
(* number of accesses of the main loop.                                    *)
(***************************************************************************)
EXTENDS AxisState, Eeprom, TLAPS

-----------------------------------------------------------------------------
(* The axes.  Their inductive invariant.                                   *)

Half == UNION {{v[1], v[2]} : v \in VALUES}
Value == [1 .. 2 -> Half]
State == [direction : {"lower", "higher"}, validity : {"VALID", "INVALID"}, value : Value]

AxisTypeOK ==
    /\ current \in [Axis -> State] /\ saved \in [Axis -> State]
    /\ cursor[1] \in DOMAIN AXES /\ cursor[2] \in 1 .. 3
    /\ axis \in Axis /\ target \in VALUES
    /\ kind \in {"move", "home", "G92"} /\ validValue \in {"VALID", "INVALID"}
    /\ step \in {"idle", "off", "first", "second", "on", "travel"}
    /\ head \in [Axis -> Value \cup {BETWEEN}]
    /\ age \in [Axis -> 0 .. ROUND]
    /\ whole \in [Axis -> SUBSET Value]
    /\ saving \in BOOLEAN /\ halfSaved \in BOOLEAN

\* The turn of a parameter in the rotation, and the saves since it had it.
Turn(i, j) == 3 * (i - 1) + j
Since(c, i, j) ==
    IF Turn(i, j) <= Turn(c[1], c[2]) THEN Turn(c[1], c[2]) - Turn(i, j)
    ELSE Turn(c[1], c[2]) + ROUND - Turn(i, j)

SameParameter(a, j) ==
    /\ j = 1 /\ a \in DIRECTED => saved[a].direction = current[a].direction
    /\ j = 2 => saved[a].validity = current[a].validity
    /\ j = 3 => saved[a].value = current[a].value

\* A parameter that had its turn after the axis last changed is in EEPROM.
Fresh ==
    \A i \in DOMAIN AXES, j \in 1 .. 3 :
       /\ ~halfSaved /\ age[AXES[i]] > Since(cursor, i, j) => SameParameter(AXES[i], j)
       /\ halfSaved /\ ~(i = cursor[1] /\ j = 3) /\ age[AXES[i]] >= Since(cursor, i, j)
             => SameParameter(AXES[i], j)

\* Between the halves of a value: it is one whose change was not saved yet.
HalfKnown ==
    halfSaved =>
       /\ saving /\ cursor[2] = 3
       /\ age[AXES[cursor[1]]] < ROUND
       /\ saved[AXES[cursor[1]]].value[1] = current[AXES[cursor[1]]].value[1]

\* Only the axis that is being written is not whole in RAM, and only the one
\* that is being saved in EEPROM.
Wholes ==
    \A a \in Axis :
       /\ ~(halfSaved /\ a = AXES[cursor[1]]) => saved[a].value \in whole[a]
       /\ ~(axis = a /\ step \in {"second", "on"}) => current[a].value \in whole[a]

\* The main loop's command so far.
CommandKnown ==
    /\ saving <=> step \notin {"first", "second", "on"}
    /\ step # "idle" /\ kind # "G92" => current[axis].validity = "INVALID"
    /\ step = "travel" => kind # "G92"
    /\ step = "second" => current[axis].value[1] = target[1]
    /\ step \in {"on", "travel"} => current[axis].value = target
    /\ step \in {"second", "on"} => age[axis] = 0

\* An axis that is not being changed is where it is called valid; G92 leaves
\* the axis alone until it writes the value.
Untouched(a) == axis = a => step = "idle" \/ (kind = "G92" /\ step \in {"off", "first"})
Placed ==
    \A a \in Axis : Untouched(a) /\ current[a].validity = "VALID" /\ a \notin doubtful
                    => head[a] = current[a].value

AxisInv == AxisTypeOK /\ Fresh /\ HalfKnown /\ Wholes /\ CommandKnown /\ Placed

-----------------------------------------------------------------------------
(* The rotation.                                                           *)

LEMMA RoundFacts ==
    ASSUME AxisAssumption
    PROVE  /\ Len(AXES) \in Nat \ {0} /\ DOMAIN AXES = 1 .. Len(AXES)
           /\ Len(PARAMETERS) = 3 /\ ROUND = 3 * Len(AXES) /\ ROUND \in Nat \ {0}
           /\ \A i \in DOMAIN AXES : AXES[i] \in Axis
           /\ PARAMETERS[1] = "direction" /\ PARAMETERS[2] = "validity" /\ PARAMETERS[3] = "value"
<1>1. AXES \in Seq({"X", "Y", "Z"}) /\ AXES # <<>>
  BY DEF AxisAssumption
<1>2. Len(AXES) \in Nat \ {0} /\ DOMAIN AXES = 1 .. Len(AXES)
  BY <1>1
<1>3. Len(PARAMETERS) = 3 /\ PARAMETERS[1] = "direction" /\ PARAMETERS[2] = "validity"
      /\ PARAMETERS[3] = "value"
  BY DEF PARAMETERS
<1>4. ROUND = 3 * Len(AXES) /\ ROUND \in Nat \ {0}
  BY <1>2, <1>3 DEF ROUND
<1>5. \A i \in DOMAIN AXES : AXES[i] \in Axis
  BY DEF Axis
<1> QED
  BY <1>2, <1>3, <1>4, <1>5

LEMMA TurnFacts ==
    ASSUME NEW n \in Nat, NEW i \in 1 .. n, NEW j \in 1 .. 3
    PROVE  /\ Turn(i, j) \in 1 .. 3 * n
           /\ Turn(i, j) = 3 * n => i = n /\ j = 3
  BY DEF Turn

LEMMA TurnsDiffer ==
    ASSUME NEW n \in Nat, NEW i \in 1 .. n, NEW j \in 1 .. 3, NEW h \in 1 .. n, NEW k \in 1 .. 3,
           Turn(h, k) = Turn(i, j)
    PROVE  h = i /\ k = j
  BY DEF Turn

LEMMA SinceFacts ==
    ASSUME AxisAssumption, NEW c, c[1] \in DOMAIN AXES, c[2] \in 1 .. 3,
           NEW i \in DOMAIN AXES, NEW j \in 1 .. 3
    PROVE  /\ Since(c, i, j) \in 0 .. ROUND - 1
           /\ Since(c, i, j) = 0 => i = c[1] /\ j = c[2]
<1> DEFINE n == Len(AXES)
           t == Turn(i, j)
           u == Turn(c[1], c[2])
<1>1. n \in Nat /\ ROUND = 3 * n /\ DOMAIN AXES = 1 .. n
  BY RoundFacts
<1> HIDE DEF n
<1>2. t \in 1 .. 3 * n /\ u \in 1 .. 3 * n /\ (t = u => i = c[1] /\ j = c[2])
  <2>1. n \in Nat /\ i \in 1 .. n /\ c[1] \in 1 .. n
    BY <1>1
  <2>2. t \in 1 .. 3 * n
    BY <2>1, TurnFacts
  <2>3. u \in 1 .. 3 * n
    BY <2>1, TurnFacts
  <2>4. t = u => i = c[1] /\ j = c[2]
    BY <2>1, TurnsDiffer
  <2> QED
    BY <2>2, <2>3, <2>4
<1>3. Since(c, i, j) = IF t <= u THEN u - t ELSE u + 3 * n - t
  BY <1>1 DEF Since
<1> HIDE DEF t, u
<1> QED
  BY <1>1, <1>2, <1>3

\* A save gives the next parameter its turn and makes the others one older.
LEMMA Rotation ==
    ASSUME AxisAssumption, cursor[1] \in DOMAIN AXES, cursor[2] \in 1 .. 3
    PROVE  /\ Advance[1] \in DOMAIN AXES /\ Advance[2] \in 1 .. 3
           /\ \A i \in DOMAIN AXES, j \in 1 .. 3 :
                 ~(i = Advance[1] /\ j = Advance[2])
                    => Since(Advance, i, j) = Since(cursor, i, j) + 1
<1> DEFINE n == Len(AXES)
           u == Turn(cursor[1], cursor[2])
           next == Turn(Advance[1], Advance[2])
<1>1. n \in Nat \ {0} /\ ROUND = 3 * n /\ DOMAIN AXES = 1 .. n /\ Len(PARAMETERS) = 3
  BY RoundFacts
<1>2. /\ Advance[1] \in 1 .. n /\ Advance[2] \in 1 .. 3
      /\ next = IF u = 3 * n THEN 1 ELSE u + 1
  <2> HIDE DEF n
  <2>1. CASE cursor[2] # 3
    <3>1. Advance[1] = cursor[1] /\ Advance[2] = cursor[2] + 1
      BY <1>1, <2>1 DEF Advance
    <3> QED
      BY <1>1, <2>1, <3>1 DEF Turn
  <2>2. CASE cursor[2] = 3 /\ cursor[1] # n
    <3>1. Advance[1] = cursor[1] + 1 /\ Advance[2] = 1
      BY <1>1, <2>2 DEF Advance, n
    <3>2. cursor[1] \in 1 .. n /\ cursor[1] + 1 \in 1 .. n
      BY <1>1, <2>2
    <3>3. u = 3 * (cursor[1] - 1) + 3
      BY <2>2 DEF Turn
    <3>4. next = 3 * ((cursor[1] + 1) - 1) + 1
      BY <3>1 DEF Turn
    <3> HIDE DEF u, next
    <3>5. n \in Nat /\ cursor[1] \in Nat /\ cursor[1] + 1 <= n
      BY <1>1, <3>2
    <3>6. u = 3 * cursor[1] /\ next = 3 * cursor[1] + 1
      BY <3>3, <3>4, <3>5
    <3>7. u # 3 * n /\ next = u + 1
      BY <3>5, <3>6
    <3> QED
      BY <3>1, <3>2, <3>7
  <2>3. CASE cursor[2] = 3 /\ cursor[1] = n
    <3>1. Advance[1] = 1 /\ Advance[2] = 1
      BY <1>1, <2>3 DEF Advance, n
    <3> QED
      BY <1>1, <2>3, <3>1 DEF Turn
  <2> QED
    BY <2>1, <2>2, <2>3
<1>3. ASSUME NEW i \in DOMAIN AXES, NEW j \in 1 .. 3, ~(i = Advance[1] /\ j = Advance[2])
      PROVE  Since(Advance, i, j) = Since(cursor, i, j) + 1
  <2> DEFINE t == Turn(i, j)
  <2>1. t \in 1 .. 3 * n /\ u \in 1 .. 3 * n /\ t # next
    <3> HIDE DEF n
    <3>1. n \in Nat /\ i \in 1 .. n /\ cursor[1] \in 1 .. n /\ Advance[1] \in 1 .. n /\ Advance[2] \in 1 .. 3
      BY <1>1, <1>2
    <3>2. t \in 1 .. 3 * n
      BY <3>1, TurnFacts
    <3>3. u \in 1 .. 3 * n
      BY <3>1, TurnFacts
    <3>4. t # next
      BY <1>3, <3>1, TurnsDiffer
    <3> QED
      BY <3>2, <3>3, <3>4
  <2>2. /\ Since(Advance, i, j) = IF t <= next THEN next - t ELSE next + 3 * n - t
        /\ Since(cursor, i, j) = IF t <= u THEN u - t ELSE u + 3 * n - t
    BY <1>1 DEF Since
  <2> HIDE DEF n, t, u, next
  <2> QED
    BY <1>1, <1>2, <2>1, <2>2
<1> HIDE DEF n
<1> QED
  BY <1>1, <1>2, <1>3

LEMMA ValueFacts ==
    ASSUME AxisAssumption
    PROVE  VALUES \subseteq Value
<1> SUFFICES ASSUME NEW v \in VALUES
             PROVE  v \in Value
  OBVIOUS
<1>1. v = [half \in 1 .. 2 |-> v[half]]
  BY DEF AxisAssumption
<1>2. v[1] \in Half /\ v[2] \in Half
  BY DEF Half
<1>3. \A half \in 1 .. 2 : half = 1 \/ half = 2
  OBVIOUS
<1> QED
  BY <1>1, <1>2, <1>3 DEF Value

\* A value is known by its halves.
LEMMA Halves ==
    ASSUME NEW v \in Value, NEW w \in Value, v[1] = w[1], v[2] = w[2]
    PROVE  v = w
<1>1. \A half \in 1 .. 2 : half = 1 \/ half = 2
  OBVIOUS
<1> QED
  BY <1>1 DEF Value

-----------------------------------------------------------------------------
(* Writing the copies.                                                     *)

ValiditySet(c, a, v) == [c EXCEPT ![a].validity = v]
DirectionSet(c, a, v) == [c EXCEPT ![a].direction = v]

LEMMA SetValidity ==
    ASSUME NEW c \in [Axis -> State], NEW a \in Axis, NEW v \in {"VALID", "INVALID"}
    PROVE  /\ ValiditySet(c, a, v) \in [Axis -> State]
           /\ \A b \in Axis \ {a} : ValiditySet(c, a, v)[b] = c[b]
           /\ ValiditySet(c, a, v)[a].validity = v
           /\ ValiditySet(c, a, v)[a].direction = c[a].direction
           /\ ValiditySet(c, a, v)[a].value = c[a].value
  BY DEF State, ValiditySet

LEMMA SetDirection ==
    ASSUME NEW c \in [Axis -> State], NEW a \in Axis, NEW v \in {"lower", "higher"}
    PROVE  /\ DirectionSet(c, a, v) \in [Axis -> State]
           /\ \A b \in Axis \ {a} : DirectionSet(c, a, v)[b] = c[b]
           /\ DirectionSet(c, a, v)[a].direction = v
           /\ DirectionSet(c, a, v)[a].validity = c[a].validity
           /\ DirectionSet(c, a, v)[a].value = c[a].value
  BY DEF State, DirectionSet

HalfSet(c, a, half, v) == [c EXCEPT ![a].value[half] = v]

LEMMA SetHalf ==
    ASSUME NEW c \in [Axis -> State], NEW a \in Axis, NEW half \in 1 .. 2, NEW v \in Half
    PROVE  /\ HalfSet(c, a, half, v) \in [Axis -> State]
           /\ \A b \in Axis \ {a} : HalfSet(c, a, half, v)[b] = c[b]
           /\ HalfSet(c, a, half, v)[a].direction = c[a].direction
           /\ HalfSet(c, a, half, v)[a].validity = c[a].validity
           /\ HalfSet(c, a, half, v)[a].value[half] = v
           /\ \A other \in 1 .. 2 : other # half =>
                 HalfSet(c, a, half, v)[a].value[other] = c[a].value[other]
<1> DEFINE d == HalfSet(c, a, half, v)
<1> DEFINE w == [c[a].value EXCEPT ![half] = v]
<1>1. c[a] \in State /\ c[a].value \in Value
  BY DEF State
<1>2. w \in Value /\ w[half] = v /\ \A other \in 1 .. 2 : other # half => w[other] = c[a].value[other]
  BY <1>1 DEF Value
<1>3. d = [c EXCEPT ![a].value = w]
  BY DEF HalfSet
<1> HIDE DEF w, d
<1>4. d \in [Axis -> State] /\ \A b \in Axis \ {a} : d[b] = c[b]
  BY <1>1, <1>2, <1>3 DEF State
<1>5. d[a].direction = c[a].direction /\ d[a].validity = c[a].validity /\ d[a].value = w
  BY <1>1, <1>2, <1>3 DEF State
<1> QED
  BY <1>2, <1>4, <1>5 DEF d

-----------------------------------------------------------------------------
(* The main loop's steps.  A change of an axis makes it young again, which *)
(* leaves nothing to show of its copies in EEPROM.                         *)

LEMMA InitInvariant ==
    ASSUME AxisAssumption, AxisInit
    PROVE  AxisInv
<1>1. target \in VALUES /\ VALUES \subseteq Value
  BY ValueFacts DEF AxisInit, AxisAssumption
<1>2. Len(AXES) \in DOMAIN AXES /\ AXES[1] \in Axis /\ Len(PARAMETERS) = 3 /\ ROUND \in 0 .. ROUND
  BY RoundFacts
<1>3. current \in [Axis -> State] /\ saved = current
  BY <1>1 DEF AxisInit, State
<1>4. \A a \in Axis : current[a].value = target /\ current[a].validity = "VALID" /\ head[a] = target
                      /\ target \in whole[a]
  BY DEF AxisInit
<1>5. cursor[1] \in DOMAIN AXES /\ cursor[2] \in 1 .. 3
  BY <1>2 DEF AxisInit
<1>6. AxisTypeOK
  <2>1. head \in [Axis -> Value \cup {BETWEEN}] /\ whole \in [Axis -> SUBSET Value]
    BY <1>1 DEF AxisInit
  <2>2. age \in [Axis -> 0 .. ROUND]
    BY <1>2 DEF AxisInit
  <2> QED
    BY <1>1, <1>2, <1>3, <1>5, <2>1, <2>2 DEF AxisInit, AxisTypeOK
<1>7. Fresh
  BY <1>3 DEF Fresh, SameParameter
<1>8. HalfKnown /\ CommandKnown
  BY DEF AxisInit, HalfKnown, CommandKnown
<1>9. Wholes /\ Placed
  BY <1>3, <1>4 DEF Wholes, Placed
<1> QED
  BY <1>6, <1>7, <1>8, <1>9 DEF AxisInv

LEMMA SinceNat ==
    ASSUME AxisAssumption, AxisTypeOK, NEW i \in DOMAIN AXES, NEW j \in 1 .. 3
    PROVE  /\ AXES[i] \in Axis /\ age[AXES[i]] \in 0 .. ROUND /\ ROUND \in Nat
           /\ Since(cursor, i, j) \in 0 .. ROUND - 1 /\ Since(cursor, i, j) \in Nat
<1>1. AXES[i] \in Axis /\ ROUND \in Nat
  BY RoundFacts
<1>2. age[AXES[i]] \in 0 .. ROUND
  BY <1>1 DEF AxisTypeOK
<1>3. cursor[1] \in DOMAIN AXES /\ cursor[2] \in 1 .. 3
  BY DEF AxisTypeOK
<1>4. Since(cursor, i, j) \in 0 .. ROUND - 1
  BY <1>3, SinceFacts
<1>5. Since(cursor, i, j) \in Nat
  BY <1>1, <1>4
<1> QED
  BY <1>1, <1>2, <1>4, <1>5

LEMMA FreshKept ==
    ASSUME AxisAssumption, AxisInv, ~halfSaved, UNCHANGED <<saved, cursor, halfSaved>>,
           \A a \in Axis : age'[a] = 0 \/ (age'[a] = age[a] /\ current'[a] = current[a])
    PROVE  Fresh' /\ HalfKnown'
<1>1. ASSUME NEW i \in DOMAIN AXES, NEW j \in 1 .. 3, age'[AXES[i]] > Since(cursor, i, j)'
      PROVE  SameParameter(AXES[i], j)'
  <2>1. AXES[i] \in Axis /\ Since(cursor, i, j) \in Nat
    BY <1>1, SinceNat DEF AxisInv
  <2>2. Since(cursor, i, j)' = Since(cursor, i, j)
    BY DEF Since
  <2>3. age'[AXES[i]] # 0
    BY <1>1, <2>1, <2>2
  <2>4. age[AXES[i]] > Since(cursor, i, j) /\ current'[AXES[i]] = current[AXES[i]]
    BY <1>1, <2>1, <2>2, <2>3
  <2>5. SameParameter(AXES[i], j)
    BY <2>4 DEF AxisInv, Fresh
  <2> QED
    BY <2>4, <2>5 DEF SameParameter
<1> QED
  BY <1>1 DEF Fresh, HalfKnown

LEMMA BeginInvariant ==
    ASSUME AxisAssumption, AxisInv, NEW a \in Axis, NEW t \in VALUES, NEW k \in {"move", "home", "G92"},
           Begin(a, t, k)
    PROVE  AxisInv'
<1> USE DEF AxisInv
<1>1. /\ step = "idle" /\ step' = "off" /\ ~halfSaved /\ axis' = a /\ target' = t /\ kind' = k
      /\ validValue' = current[a].validity
      /\ UNCHANGED <<saved, saving, cursor, halfSaved, head, doubtful, whole>>
  BY DEF Begin
<1>2. /\ current' \in [Axis -> State] /\ \A b \in Axis \ {a} : current'[b] = current[b]
      /\ current'[a].value = current[a].value
      /\ k = "G92" => current' = current
      /\ k # "G92" => current'[a].validity = "INVALID"
  <2>1. CASE k = "G92"
    BY <2>1 DEF Begin, AxisTypeOK
  <2>2. CASE k # "G92"
    <3>1. current' = ValiditySet(current, a, "INVALID") /\ current \in [Axis -> State]
      BY <2>2 DEF Begin, AxisTypeOK, ValiditySet
    <3> QED
      BY <2>2, <3>1, SetValidity
  <2> QED
    BY <2>1, <2>2
<1>3. age' \in [Axis -> 0 .. ROUND] /\ age'[a] = 0 /\ \A b \in Axis \ {a} : age'[b] = age[b]
  <2>1. age' = [age EXCEPT ![a] = 0] /\ age \in [Axis -> 0 .. ROUND] /\ 0 \in 0 .. ROUND
    BY RoundFacts DEF Begin, AxisTypeOK
  <2> QED
    BY <2>1
<1>4. current[a].validity \in {"VALID", "INVALID"}
  BY DEF AxisTypeOK, State
<1>5. AxisTypeOK'
  BY <1>1, <1>2, <1>3, <1>4 DEF AxisTypeOK
<1>6. Fresh' /\ HalfKnown'
  BY <1>1, <1>2, <1>3, FreshKept
<1>7. Wholes'
  <2> SUFFICES ASSUME NEW b \in Axis
               PROVE  saved'[b].value \in whole'[b] /\ current'[b].value \in whole'[b]
    BY DEF Wholes
  <2>1. saved[b].value \in whole[b] /\ current[b].value \in whole[b]
    BY <1>1 DEF Wholes
  <2> QED
    BY <1>1, <1>2, <2>1
<1>8. CommandKnown'
  BY <1>1, <1>2 DEF CommandKnown
<1>9. Placed'
  <2> SUFFICES ASSUME NEW b \in Axis, Untouched(b)', current'[b].validity = "VALID", b \notin doubtful'
               PROVE  head'[b] = current'[b].value
    BY DEF Placed
  <2>1. current'[b] = current[b]
    BY <1>1, <1>2 DEF Untouched
  <2>2. Untouched(b)
    BY <1>1 DEF Untouched
  <2> QED
    BY <1>1, <2>1, <2>2 DEF Placed
<1> QED
  BY <1>5, <1>6, <1>7, <1>8, <1>9

LEMMA DisableInvariant ==
    ASSUME AxisAssumption, AxisInv, DisableSaving
    PROVE  AxisInv'
<1> USE DEF AxisInv
<1>1. /\ step = "off" /\ step' = "first" /\ ~halfSaved /\ saving' = FALSE
      /\ UNCHANGED <<current, saved, cursor, halfSaved, axis, target, kind, validValue,
                     head, age, doubtful, whole>>
  BY DEF DisableSaving
<1>2. AxisTypeOK'
  BY <1>1 DEF AxisTypeOK
<1>3. Fresh' /\ HalfKnown'
  BY <1>1, FreshKept
<1>4. Wholes' /\ CommandKnown'
  BY <1>1 DEF Wholes, CommandKnown
<1>5. Placed'
  BY <1>1 DEF Placed, Untouched
<1> QED
  BY <1>2, <1>3, <1>4, <1>5

LEMMA WriteInvariant ==
    ASSUME AxisAssumption, AxisInv,
           WriteHalf("first", "second", 1) \/ WriteHalf("second", "on", 2)
    PROVE  AxisInv'
<1> USE DEF AxisInv
<1>1. /\ ~halfSaved /\ step \in {"first", "second"} /\ step' = IF step = "first" THEN "second" ELSE "on"
      /\ UNCHANGED <<saved, saving, cursor, halfSaved, axis, target, kind, validValue,
                     head, doubtful, whole>>
  BY DEF WriteHalf
<1>2. axis \in Axis /\ target \in Value /\ target[1] \in Half /\ target[2] \in Half
  BY ValueFacts DEF AxisTypeOK, Value
<1>3. /\ current' \in [Axis -> State] /\ \A b \in Axis \ {axis} : current'[b] = current[b]
      /\ current'[axis].validity = current[axis].validity
      /\ step = "first" => current'[axis].value[1] = target[1]
      /\ step = "second" => /\ current'[axis].value[2] = target[2]
                          /\ current'[axis].value[1] = current[axis].value[1]
  <2>1. current \in [Axis -> State]
    BY DEF AxisTypeOK
  <2>2. CASE WriteHalf("first", "second", 1)
    <3>1. current' = HalfSet(current, axis, 1, target[1]) /\ step = "first" /\ 1 \in 1 .. 2
      BY <2>2 DEF WriteHalf, HalfSet
    <3> QED
      BY <1>2, <2>1, <3>1, SetHalf
  <2>3. CASE WriteHalf("second", "on", 2)
    <3>1. current' = HalfSet(current, axis, 2, target[2]) /\ step = "second" /\ 2 \in 1 .. 2
      BY <2>3 DEF WriteHalf, HalfSet
    <3> QED
      BY <1>2, <2>1, <3>1, SetHalf
  <2> QED
    BY <2>2, <2>3
<1>4. age' \in [Axis -> 0 .. ROUND] /\ age'[axis] = 0 /\ \A b \in Axis \ {axis} : age'[b] = age[b]
  <2>1. age' = [age EXCEPT ![axis] = 0] /\ age \in [Axis -> 0 .. ROUND] /\ 0 \in 0 .. ROUND
    BY RoundFacts DEF WriteHalf, Changed, AxisTypeOK
  <2> QED
    BY <1>2, <2>1
<1>5. step = "second" => current'[axis].value = target
  <2> SUFFICES ASSUME step = "second"
               PROVE  current'[axis].value = target
    OBVIOUS
  <2>1. current'[axis].value[1] = target[1] /\ current'[axis].value[2] = target[2]
    BY <1>3 DEF CommandKnown
  <2>2. current'[axis].value \in Value
    BY <1>2, <1>3 DEF State
  <2> QED
    BY <1>2, <2>1, <2>2, Halves
<1>6. AxisTypeOK'
  BY <1>1, <1>3, <1>4 DEF AxisTypeOK
<1>7. Fresh' /\ HalfKnown'
  BY <1>1, <1>3, <1>4, FreshKept
<1>8. Wholes'
  BY <1>1, <1>3 DEF Wholes
<1>9. CommandKnown'
  BY <1>1, <1>3, <1>4, <1>5 DEF CommandKnown
<1>10. Placed'
  BY <1>1, <1>3 DEF Placed, Untouched
<1> QED
  BY <1>6, <1>7, <1>8, <1>9, <1>10

LEMMA EnableInvariant ==
    ASSUME AxisAssumption, AxisInv, EnableSaving
    PROVE  AxisInv'
<1> USE DEF AxisInv
<1>1. /\ step = "on" /\ ~halfSaved /\ saving' = TRUE /\ current[axis].value = target
      /\ step' = IF kind = "G92" THEN "idle" ELSE "travel"
      /\ UNCHANGED <<current, saved, cursor, halfSaved, axis, target, kind, validValue, age, doubtful>>
  BY DEF EnableSaving, CommandKnown
<1>2. axis \in Axis /\ target \in Value
  BY ValueFacts DEF AxisTypeOK
<1>3. /\ whole' \in [Axis -> SUBSET Value] /\ target \in whole'[axis]
      /\ \A b \in Axis : whole[b] \subseteq whole'[b]
  <2>1. whole' = [whole EXCEPT ![axis] = @ \cup {target}] /\ whole \in [Axis -> SUBSET Value]
    BY DEF EnableSaving, AxisTypeOK
  <2> QED
    BY <1>2, <2>1
<1>4. /\ head' \in [Axis -> Value \cup {BETWEEN}]
      /\ kind = "G92" => head'[axis] = target
      /\ \A b \in Axis \ {axis} : head'[b] = head[b]
  <2>1. head \in [Axis -> Value \cup {BETWEEN}]
    BY DEF AxisTypeOK
  <2>2. head' = IF kind = "G92" THEN [head EXCEPT ![axis] = target] ELSE head
    BY DEF EnableSaving
  <2> QED
    BY <1>2, <2>1, <2>2
<1>5. AxisTypeOK'
  BY <1>1, <1>3, <1>4 DEF AxisTypeOK
<1>6. Fresh' /\ HalfKnown'
  BY <1>1, FreshKept
<1>7. Wholes'
  <2> SUFFICES ASSUME NEW b \in Axis
               PROVE  saved'[b].value \in whole'[b] /\ current'[b].value \in whole'[b]
    BY DEF Wholes
  <2>1. saved[b].value \in whole[b] /\ (b # axis => current[b].value \in whole[b])
    BY <1>1 DEF Wholes
  <2> QED
    BY <1>1, <1>3, <2>1
<1>8. CommandKnown'
  BY <1>1 DEF CommandKnown
<1>9. Placed'
  <2> SUFFICES ASSUME NEW b \in Axis, Untouched(b)', current'[b].validity = "VALID", b \notin doubtful'
               PROVE  head'[b] = current'[b].value
    BY DEF Placed
  <2>1. CASE b = axis
    BY <1>1, <1>4, <2>1 DEF Untouched
  <2>2. CASE b # axis
    BY <1>1, <1>4, <2>2 DEF Untouched, Placed
  <2> QED
    BY <2>1, <2>2
<1> QED
  BY <1>5, <1>6, <1>7, <1>8, <1>9

LEMMA TravelInvariant ==
    ASSUME AxisAssumption, AxisInv, Travel
    PROVE  AxisInv'
<1> USE DEF AxisInv
<1>1. /\ step = "travel" /\ ~halfSaved /\ axis \in Axis
      /\ UNCHANGED <<current, saved, saving, cursor, halfSaved, step, axis, target, kind,
                     validValue, age, doubtful, whole>>
  BY DEF Travel, mainVars, AxisTypeOK
<1>2. head' \in [Axis -> Value \cup {BETWEEN}] /\ \A b \in Axis \ {axis} : head'[b] = head[b]
  <2>1. head' = [head EXCEPT ![axis] = BETWEEN] /\ head \in [Axis -> Value \cup {BETWEEN}]
    BY DEF Travel, AxisTypeOK
  <2> QED
    BY <1>1, <2>1
<1>3. AxisTypeOK'
  BY <1>1, <1>2 DEF AxisTypeOK
<1>4. Fresh' /\ HalfKnown'
  BY <1>1, FreshKept
<1>5. Wholes' /\ CommandKnown'
  BY <1>1 DEF Wholes, CommandKnown
<1>6. Placed'
  BY <1>1, <1>2 DEF Placed, Untouched
<1> QED
  BY <1>3, <1>4, <1>5, <1>6

\* The end of a movement, where it was to go or where it was stopped.
LEMMA EndInvariant ==
    ASSUME AxisAssumption, AxisInv, NEW d \in {"lower", "higher"}, Arrive(d) \/ StopMovement(d)
    PROVE  AxisInv'
<1> USE DEF AxisInv
<1>1. /\ step = "travel" /\ step' = "idle" /\ ~halfSaved /\ axis \in Axis /\ target \in Value
      /\ kind # "G92" /\ current[axis].validity = "INVALID" /\ current[axis].value = target
      /\ UNCHANGED <<saved, saving, cursor, halfSaved, axis, target, kind, validValue, whole>>
  BY ValueFacts DEF Arrive, StopMovement, AxisTypeOK, CommandKnown
<1>2. /\ current' \in [Axis -> State] /\ \A b \in Axis \ {axis} : current'[b] = current[b]
      /\ current'[axis].value = target
      /\ StopMovement(d) => current'[axis].validity = "INVALID"
  <2>1. current \in [Axis -> State] /\ validValue \in {"VALID", "INVALID"}
    BY DEF AxisTypeOK
  <2>2. CASE StopMovement(d)
    <3>1. current' = DirectionSet(current, axis, d)
      BY <2>2 DEF StopMovement, DirectionSet
    <3> QED
      BY <1>1, <2>1, <3>1, SetDirection
  <2>3. CASE Arrive(d) /\ ~StopMovement(d)
    <3> DEFINE v == IF kind = "home" THEN "VALID" ELSE validValue
               c == DirectionSet(current, axis, d)
    <3>1. current' = ValiditySet(c, axis, v) /\ v \in {"VALID", "INVALID"}
      BY <2>1, <2>3 DEF Arrive, ValiditySet, DirectionSet
    <3>2. c \in [Axis -> State] /\ (\A b \in Axis \ {axis} : c[b] = current[b])
          /\ c[axis].value = current[axis].value
      BY <1>1, <2>1, SetDirection
    <3> HIDE DEF c, v
    <3>3. current' \in [Axis -> State] /\ (\A b \in Axis \ {axis} : current'[b] = c[b])
          /\ current'[axis].value = c[axis].value
      BY <1>1, <3>1, <3>2, SetValidity
    <3> QED
      BY <1>1, <2>3, <3>2, <3>3
  <2> QED
    BY <2>2, <2>3
<1>3. age' \in [Axis -> 0 .. ROUND] /\ age'[axis] = 0 /\ \A b \in Axis \ {axis} : age'[b] = age[b]
  <2>1. age' = [age EXCEPT ![axis] = 0] /\ age \in [Axis -> 0 .. ROUND] /\ 0 \in 0 .. ROUND
    BY RoundFacts DEF Arrive, StopMovement, Changed, AxisTypeOK
  <2> QED
    BY <1>1, <2>1
<1>4. /\ head' \in [Axis -> Value \cup {BETWEEN}]
      /\ StopMovement(d) \/ head'[axis] = target
      /\ \A b \in Axis \ {axis} : head'[b] = head[b]
  <2>1. head \in [Axis -> Value \cup {BETWEEN}]
    BY DEF AxisTypeOK
  <2>2. CASE Arrive(d)
    <3>1. head' = [head EXCEPT ![axis] = target]
      BY <2>2 DEF Arrive
    <3> QED
      BY <1>1, <2>1, <3>1
  <2>3. CASE StopMovement(d)
    BY <2>1, <2>3 DEF StopMovement
  <2> QED
    BY <2>2, <2>3
<1>5. \A b \in Axis \ {axis} : b \in doubtful' <=> b \in doubtful
  BY DEF Arrive, StopMovement
<1>6. AxisTypeOK'
  BY <1>1, <1>2, <1>3, <1>4 DEF AxisTypeOK
<1>7. Fresh' /\ HalfKnown'
  BY <1>1, <1>2, <1>3, FreshKept
<1>8. Wholes'
  <2> SUFFICES ASSUME NEW b \in Axis
               PROVE  saved'[b].value \in whole'[b] /\ current'[b].value \in whole'[b]
    BY DEF Wholes
  <2>1. saved[b].value \in whole[b] /\ current[b].value \in whole[b]
    BY <1>1 DEF Wholes
  <2> QED
    BY <1>1, <1>2, <2>1
<1>9. CommandKnown'
  BY <1>1 DEF CommandKnown
<1>10. Placed'
  <2> SUFFICES ASSUME NEW b \in Axis, current'[b].validity = "VALID", b \notin doubtful'
               PROVE  head'[b] = current'[b].value
    BY DEF Placed
  <2>1. CASE b = axis
    BY <1>2, <1>4, <2>1
  <2>2. CASE b # axis
    BY <1>2, <1>4, <1>5, <2>2 DEF Untouched, Placed
  <2> QED
    BY <2>1, <2>2
<1> QED
  BY <1>6, <1>7, <1>8, <1>9, <1>10

-----------------------------------------------------------------------------
(* The save interrupt's steps.                                             *)

LEMMA OlderFacts ==
    ASSUME AxisAssumption, AxisTypeOK, Older
    PROVE  /\ age' \in [Axis -> 0 .. ROUND]
           /\ \A a \in Axis : age'[a] = IF age[a] < ROUND THEN age[a] + 1 ELSE ROUND
<1>1. age \in [Axis -> 0 .. ROUND] /\ ROUND \in Nat
  BY RoundFacts DEF AxisTypeOK
<1>2. \A a \in Axis : age'[a] = IF age[a] < ROUND THEN age[a] + 1 ELSE ROUND
  BY DEF Older
<1>3. \A a \in Axis : age[a] \in 0 .. ROUND
  BY <1>1
<1>4. \A a \in Axis : (IF age[a] < ROUND THEN age[a] + 1 ELSE ROUND) \in 0 .. ROUND
  BY <1>1, <1>3
<1>5. age' \in [Axis -> 0 .. ROUND]
  BY <1>4 DEF Older
<1> QED
  BY <1>2, <1>5

\* What neither the main loop's command nor the place of an axis depends on.
LEMMA InterruptKeeps ==
    ASSUME AxisInv, UNCHANGED <<current, saving, step, axis, target, kind, validValue, head, doubtful>>,
           step \in {"second", "on"} => age' = age
    PROVE  CommandKnown' /\ Placed'
  BY DEF AxisInv, CommandKnown, Placed, Untouched

\* The first half of a value that changed.
LEMMA HalfTickInvariant ==
    ASSUME AxisAssumption, AxisInv, SaveTick, halfSaved'
    PROVE  AxisInv'
<1> USE DEF AxisInv
<1> DEFINE i0 == cursor'[1]
           a == AXES[i0]
<1>1. /\ saving /\ ~halfSaved /\ cursor' = Advance
      /\ UNCHANGED <<current, saving, step, axis, target, kind, validValue, head, doubtful, whole>>
  BY DEF SaveTick, mainVars
<1>2. /\ PARAMETERS[cursor'[2]] = "value" /\ saved[a].value # current[a].value
      /\ saved' = HalfSet(saved, a, 1, current[a].value[1]) /\ age' = age
  BY <1>1 DEF SaveTick, HalfSet
<1>3. i0 \in DOMAIN AXES /\ cursor'[2] \in 1 .. 3 /\ a \in Axis
  BY <1>1, Rotation, RoundFacts DEF AxisTypeOK
<1>4. cursor'[2] = 3
  <2>1. PARAMETERS[1] # "value" /\ PARAMETERS[2] # "value"
    BY RoundFacts
  <2>2. cursor'[2] # 1 /\ cursor'[2] # 2
    BY <1>2, <2>1
  <2> QED
    BY <1>3, <2>2
<1>5. /\ saved' \in [Axis -> State] /\ \A b \in Axis \ {a} : saved'[b] = saved[b]
      /\ saved'[a].direction = saved[a].direction /\ saved'[a].validity = saved[a].validity
      /\ saved'[a].value[1] = current[a].value[1]
  <2>1. saved \in [Axis -> State] /\ current[a].value[1] \in Half /\ 1 \in 1 .. 2
    BY <1>3 DEF AxisTypeOK, State, Value
  <2> HIDE DEF a
  <2> QED
    BY <1>2, <1>3, <2>1, SetHalf, SMTT(20)
<1> HIDE DEF a, i0
<1>6. \A i \in DOMAIN AXES : AXES[i] = a => age[a] <= Since(cursor, i, 3)
  <2> SUFFICES ASSUME NEW i \in DOMAIN AXES, AXES[i] = a
               PROVE  age[a] <= Since(cursor, i, 3)
    OBVIOUS
  <2>1. ~SameParameter(a, 3) /\ 3 \in 1 .. 3
    BY <1>2, SMTT(20) DEF SameParameter
  <2>2. ~(age[a] > Since(cursor, i, 3))
    BY <1>1, <2>1 DEF Fresh
  <2>3. age[a] \in 0 .. ROUND /\ ROUND \in Nat /\ Since(cursor, i, 3) \in Nat
    BY <2>1, SinceNat
  <2> QED
    BY <2>2, <2>3
<1>7. AxisTypeOK'
  BY <1>1, <1>2, <1>3, <1>5 DEF AxisTypeOK, i0
<1>8. Fresh'
  <2> SUFFICES ASSUME NEW i \in DOMAIN AXES, NEW j \in 1 .. 3, ~(i = i0 /\ j = 3),
                      age[AXES[i]] >= Since(cursor', i, j)
               PROVE  SameParameter(AXES[i], j)'
    BY <1>2 DEF Fresh, i0, Since
  <2>1. Since(cursor', i, j) = Since(cursor, i, j) + 1
    BY <1>1, <1>4, Rotation DEF AxisTypeOK, i0
  <2>2. AXES[i] \in Axis /\ age[AXES[i]] \in Nat /\ Since(cursor, i, j) \in Nat
    <3>1. AXES[i] \in Axis /\ age[AXES[i]] \in 0 .. ROUND /\ Since(cursor, i, j) \in Nat
          /\ ROUND \in Nat
      BY SinceNat
    <3> QED
      BY <3>1
  <2>3. age[AXES[i]] > Since(cursor, i, j)
    BY <2>1, <2>2
  <2>4. SameParameter(AXES[i], j)
    BY <1>1, <2>3 DEF Fresh
  <2>5. CASE AXES[i] # a
    BY <1>1, <1>5, <2>2, <2>4, <2>5 DEF SameParameter
  <2>6. CASE AXES[i] = a
    <3>1. j # 3
      BY <1>6, <2>2, <2>3, <2>6
    <3> QED
      BY <1>1, <1>5, <2>4, <2>6, <3>1 DEF SameParameter
  <2> QED
    BY <2>5, <2>6
<1>9. HalfKnown'
  <2>1. age[a] < ROUND
    <3>1. age[a] <= Since(cursor, i0, 3) /\ 3 \in 1 .. 3
      BY <1>3, <1>6 DEF a
    <3>2. Since(cursor, i0, 3) \in 0 .. ROUND - 1 /\ ROUND \in Nat /\ age[a] \in 0 .. ROUND
      BY <1>3, <3>1, SinceNat DEF a
    <3> QED
      BY <3>1, <3>2
  <2> QED
    BY <1>1, <1>2, <1>4, <1>5, <2>1 DEF HalfKnown, a, i0
<1>10. Wholes'
  <2> SUFFICES ASSUME NEW b \in Axis
               PROVE  /\ b # a => saved'[b].value \in whole'[b]
                      /\ ~(axis = b /\ step \in {"second", "on"}) => current'[b].value \in whole'[b]
    BY <1>1 DEF Wholes, a, i0
  <2>1. saved[b].value \in whole[b]
        /\ (~(axis = b /\ step \in {"second", "on"}) => current[b].value \in whole[b])
    BY <1>1 DEF Wholes
  <2> QED
    BY <1>1, <1>5, <2>1
<1>11. CommandKnown' /\ Placed'
  BY <1>1, <1>2, InterruptKeeps
<1> QED
  BY <1>7, <1>8, <1>9, <1>10, <1>11

\* changeState for a direction, a validity or a value that has not changed.
LEMMA SavedFacts ==
    ASSUME AxisAssumption, AxisTypeOK, NEW a \in Axis, NEW j \in 1 .. 3,
           j = 3 => saved[a].value = current[a].value,
           saved' = Saved(a, PARAMETERS[j]), current' = current
    PROVE  /\ saved' \in [Axis -> State]
           /\ \A b \in Axis : saved'[b].value = saved[b].value
           /\ SameParameter(a, j)'
           /\ \A b \in Axis, k \in 1 .. 3 : SameParameter(b, k) => SameParameter(b, k)'
<1>1. /\ saved \in [Axis -> State] /\ current \in [Axis -> State]
      /\ current[a].direction \in {"lower", "higher"} /\ current[a].validity \in {"VALID", "INVALID"}
  BY DEF AxisTypeOK, State
<1>2. PARAMETERS[1] = "direction" /\ PARAMETERS[2] = "validity" /\ PARAMETERS[3] = "value"
  BY RoundFacts
<1>3. CASE j = 1 /\ a \in DIRECTED
  <2>1. saved' = DirectionSet(saved, a, current[a].direction)
    BY <1>2, <1>3 DEF Saved, DirectionSet
  <2>2. /\ saved' \in [Axis -> State] /\ \A b \in Axis \ {a} : saved'[b] = saved[b]
        /\ saved'[a].direction = current[a].direction /\ saved'[a].validity = saved[a].validity
        /\ saved'[a].value = saved[a].value
    BY <1>1, <2>1, SetDirection
  <2> QED
    BY <1>3, <2>2, SMTT(20) DEF SameParameter
<1>4. CASE j = 2
  <2>1. saved' = ValiditySet(saved, a, current[a].validity)
    BY <1>2, <1>4 DEF Saved, ValiditySet
  <2>2. /\ saved' \in [Axis -> State] /\ \A b \in Axis \ {a} : saved'[b] = saved[b]
        /\ saved'[a].direction = saved[a].direction /\ saved'[a].validity = current[a].validity
        /\ saved'[a].value = saved[a].value
    BY <1>1, <2>1, SetValidity
  <2> QED
    BY <1>4, <2>2 DEF SameParameter
<1>5. CASE j = 3 \/ (j = 1 /\ a \notin DIRECTED)
  <2>1. saved' = saved
    BY <1>2, <1>5 DEF Saved
  <2> QED
    BY <1>1, <1>5, <2>1 DEF SameParameter
<1> QED
  BY <1>3, <1>4, <1>5, SMTT(20)

LEMMA TickInvariant ==
    ASSUME AxisAssumption, AxisInv, SaveTick, ~halfSaved'
    PROVE  AxisInv'
<1> USE DEF AxisInv
<1>1. /\ saving /\ ~halfSaved /\ cursor' = Advance
      /\ UNCHANGED <<current, saving, step, axis, target, kind, validValue, head, doubtful, whole>>
  BY DEF SaveTick, mainVars
<1>2. PICK i0 \in DOMAIN AXES, j0 \in 1 .. 3 : cursor'[1] = i0 /\ cursor'[2] = j0
  BY <1>1, Rotation DEF AxisTypeOK
<1> DEFINE a == AXES[i0]
<1>3. /\ saved' = Saved(a, PARAMETERS[j0]) /\ Older /\ halfSaved' = halfSaved
      /\ j0 = 3 => saved[a].value = current[a].value
  <2>1. PARAMETERS[3] = "value"
    BY RoundFacts
  <2> QED
    BY <1>2, <2>1 DEF SaveTick
<1>4. a \in Axis
  BY RoundFacts
<1> HIDE DEF a
<1>5. /\ saved' \in [Axis -> State] /\ \A b \in Axis : saved'[b].value = saved[b].value
      /\ SameParameter(a, j0)'
      /\ \A b \in Axis, k \in 1 .. 3 : SameParameter(b, k) => SameParameter(b, k)'
  BY <1>1, <1>3, <1>4, SavedFacts
<1>6. AxisTypeOK'
  BY <1>1, <1>2, <1>3, <1>5, OlderFacts DEF AxisTypeOK
<1>7. Fresh'
  <2> SUFFICES ASSUME NEW i \in DOMAIN AXES, NEW j \in 1 .. 3,
                      age'[AXES[i]] > Since(cursor', i, j)
               PROVE  SameParameter(AXES[i], j)'
    BY DEF Fresh, Since
  <2>1. CASE i = i0 /\ j = j0
    BY <1>5, <2>1 DEF a
  <2>2. CASE ~(i = i0 /\ j = j0)
    <3>1. Since(cursor', i, j) = Since(cursor, i, j) + 1
      BY <1>1, <1>2, <2>2, Rotation DEF AxisTypeOK
    <3>2. AXES[i] \in Axis /\ age[AXES[i]] \in 0 .. ROUND /\ ROUND \in Nat
          /\ Since(cursor, i, j) \in 0 .. ROUND - 1
      BY SinceNat
    <3>3. age'[AXES[i]] = IF age[AXES[i]] < ROUND THEN age[AXES[i]] + 1 ELSE ROUND
      BY <1>3, <3>2, OlderFacts
    <3>4. age[AXES[i]] > Since(cursor, i, j)
      BY <3>1, <3>2, <3>3
    <3>5. SameParameter(AXES[i], j)
      BY <1>1, <3>4 DEF Fresh
    <3> QED
      BY <1>5, <3>2, <3>5
  <2> QED
    BY <2>1, <2>2
<1>8. HalfKnown'
  BY DEF HalfKnown
<1>9. Wholes'
  BY <1>1, <1>5 DEF Wholes
<1>10. CommandKnown' /\ Placed'
  <2>1. step \notin {"second", "on"}
    BY <1>1 DEF CommandKnown
  <2> QED
    BY <1>1, <2>1, InterruptKeeps
<1> QED
  BY <1>6, <1>7, <1>8, <1>9, <1>10

LEMMA SecondHalfInvariant ==
    ASSUME AxisAssumption, AxisInv, SaveSecondHalf
    PROVE  AxisInv'
<1> USE DEF AxisInv
<1> DEFINE a == AXES[cursor[1]]
<1>1. /\ halfSaved /\ ~halfSaved' /\ halfSaved' = FALSE /\ Older
      /\ saved' = HalfSet(saved, a, 2, current[a].value[2])
      /\ UNCHANGED <<current, saving, cursor, step, axis, target, kind, validValue, head, doubtful, whole>>
  BY DEF SaveSecondHalf, mainVars, HalfSet
<1>2. a \in Axis /\ cursor[2] = 3 /\ saved[a].value[1] = current[a].value[1]
      /\ step \notin {"second", "on"}
  BY <1>1, RoundFacts DEF AxisTypeOK, HalfKnown, CommandKnown
<1>3. /\ saved' \in [Axis -> State] /\ \A b \in Axis \ {a} : saved'[b] = saved[b]
      /\ saved'[a].direction = saved[a].direction /\ saved'[a].validity = saved[a].validity
      /\ saved'[a].value = current[a].value
  <2>1. /\ saved \in [Axis -> State] /\ current[a].value \in Value
        /\ current[a].value[2] \in Half /\ 1 \in 1 .. 2 /\ 2 \in 1 .. 2 /\ 1 # 2
    BY <1>2 DEF AxisTypeOK, State, Value
  <2> HIDE DEF a
  <2> DEFINE v == current[a].value[2]
             new == HalfSet(saved, a, 2, v)
  <2>a. v \in Half /\ a \in Axis /\ saved \in [Axis -> State] /\ saved' = new
    BY <1>1, <1>2, <2>1
  <2> HIDE DEF v
  <2>b. /\ new \in [Axis -> State] /\ \A b \in Axis \ {a} : new[b] = saved[b]
        /\ new[a].direction = saved[a].direction /\ new[a].validity = saved[a].validity
        /\ new[a].value[2] = v /\ new[a].value[1] = saved[a].value[1]
    BY <2>a, <2>1, SetHalf, SMTT(20)
  <2> HIDE DEF new
  <2>2. /\ saved' \in [Axis -> State] /\ \A b \in Axis \ {a} : saved'[b] = saved[b]
        /\ saved'[a].direction = saved[a].direction /\ saved'[a].validity = saved[a].validity
        /\ saved'[a].value[2] = current[a].value[2] /\ saved'[a].value[1] = saved[a].value[1]
    BY <2>a, <2>b DEF v
  <2>3. saved'[a].value \in Value
    BY <1>2, <2>2 DEF State
  <2> QED
    BY <1>2, <2>1, <2>2, <2>3, Halves
<1> HIDE DEF a
<1>4. AxisTypeOK'
  BY <1>1, <1>3, OlderFacts DEF AxisTypeOK
<1>5. Fresh'
  <2> SUFFICES ASSUME NEW i \in DOMAIN AXES, NEW j \in 1 .. 3,
                      age'[AXES[i]] > Since(cursor, i, j)
               PROVE  SameParameter(AXES[i], j)'
    BY <1>1 DEF Fresh, Since
  <2>1. CASE AXES[i] = a /\ j = 3
    <3>1. saved'[a].value = current'[a].value
      BY <1>1, <1>3
    <3> QED
      BY <2>1, <3>1 DEF SameParameter
  <2>2. CASE ~(AXES[i] = a /\ j = 3)
    <3>1. AXES[i] \in Axis /\ age[AXES[i]] \in 0 .. ROUND /\ ROUND \in Nat
          /\ Since(cursor, i, j) \in 0 .. ROUND - 1
      BY SinceNat
    <3>2. age'[AXES[i]] = IF age[AXES[i]] < ROUND THEN age[AXES[i]] + 1 ELSE ROUND
      BY <1>1, <3>1, OlderFacts
    <3>3. age[AXES[i]] >= Since(cursor, i, j)
      BY <3>1, <3>2
    <3>4. SameParameter(AXES[i], j)
      BY <1>1, <2>2, <3>3 DEF Fresh, a
    <3> QED
      BY <1>1, <1>3, <2>2, <3>1, <3>4 DEF SameParameter
  <2> QED
    BY <2>1, <2>2
<1>6. HalfKnown'
  BY <1>1 DEF HalfKnown
<1>7. Wholes'
  <2> SUFFICES ASSUME NEW b \in Axis
               PROVE  saved'[b].value \in whole'[b] /\ current'[b].value \in whole'[b]
    BY DEF Wholes
  <2>1. current[b].value \in whole[b] /\ (b # a => saved[b].value \in whole[b])
    BY <1>2 DEF Wholes, a
  <2> QED
    BY <1>1, <1>3, <2>1
<1>8. CommandKnown' /\ Placed'
  BY <1>1, <1>2, InterruptKeeps
<1> QED
  BY <1>4, <1>5, <1>6, <1>7, <1>8

-----------------------------------------------------------------------------
(* Restarts.                                                               *)

LEMMA RestoredFacts ==
    ASSUME NEW e \in [Axis -> State], current \in [Axis -> State]
    PROVE  /\ Restored(e) \in [Axis -> State]
           /\ \A a \in Axis : /\ Restored(e)[a].validity = e[a].validity
                              /\ Restored(e)[a].value = e[a].value
                              /\ a \in DIRECTED => Restored(e)[a].direction = e[a].direction
<1> SUFFICES ASSUME NEW a \in Axis
             PROVE  /\ Restored(e)[a] \in State
                    /\ Restored(e)[a].validity = e[a].validity
                    /\ Restored(e)[a].value = e[a].value
                    /\ a \in DIRECTED => Restored(e)[a].direction = e[a].direction
  BY DEF Restored
<1>1. CASE a \in DIRECTED
  BY <1>1 DEF Restored
<1>2. CASE a \notin DIRECTED
  <2>1. Restored(e)[a] = [e[a] EXCEPT !.direction = current[a].direction]
    BY <1>2 DEF Restored
  <2>2. e[a] \in State /\ current[a].direction \in {"lower", "higher"}
    BY DEF State
  <2> QED
    BY <1>2, <2>1, <2>2 DEF State
<1> QED
  BY <1>1, <1>2

\* An axis that has not changed for one round is in EEPROM as it is in RAM,
\* at any moment of the interrupt.
LEMMA OldIsSaved ==
    ASSUME AxisAssumption, AxisInv, NEW a \in Axis, age[a] = ROUND, NEW j \in 1 .. 3
    PROVE  SameParameter(a, j)
<1>1. PICK i \in DOMAIN AXES : AXES[i] = a
  BY DEF Axis
<1>2. Since(cursor, i, j) \in 0 .. ROUND - 1 /\ ROUND \in Nat
  BY SinceNat DEF AxisInv
<1>3. age[AXES[i]] > Since(cursor, i, j) /\ age[AXES[i]] >= Since(cursor, i, j)
  BY <1>1, <1>2
<1>4. halfSaved => i # cursor[1]
  BY <1>1, <1>2 DEF AxisInv, HalfKnown
<1> QED
  BY <1>1, <1>3, <1>4 DEF AxisInv, Fresh

LEMMA RestartInvariant ==
    ASSUME AxisAssumption, AxisInv, PowerLoss \/ Reset
    PROVE  AxisInv'
<1> USE DEF AxisInv
<1>1. /\ cursor' = <<Len(AXES), Len(PARAMETERS)>> /\ saving' = TRUE /\ halfSaved' = FALSE
      /\ step' = "idle" /\ UNCHANGED <<axis, target, kind, validValue, head>>
      /\ current' = Restored(saved') /\ age' = [a \in Axis |-> ROUND]
  BY DEF PowerLoss, Reset, Restart
<1>2. current \in [Axis -> State] /\ saved \in [Axis -> State] /\ whole \in [Axis -> SUBSET Value]
  BY DEF AxisTypeOK
<1>3. saved' \in [Axis -> State]
      /\ (Reset => \A a \in Axis : /\ saved'[a].validity = current[a].validity
                                   /\ saved'[a].value = current[a].value)
  <2>1. CASE PowerLoss /\ ~Reset
    BY <1>2, <2>1 DEF PowerLoss
  <2>2. CASE Reset
    <3> SUFFICES ASSUME NEW a \in Axis
                 PROVE  /\ saved'[a] \in State /\ saved'[a].validity = current[a].validity
                        /\ saved'[a].value = current[a].value
      BY <2>2 DEF Reset
    <3>1. CASE a \in DIRECTED
      BY <1>2, <2>2, <3>1 DEF Reset
    <3>2. CASE a \notin DIRECTED
      <4>1. saved'[a] = [current[a] EXCEPT !.direction = saved[a].direction]
        BY <2>2, <3>2 DEF Reset
      <4>2. current[a] \in State /\ saved[a].direction \in {"lower", "higher"}
        BY <1>2 DEF State
      <4> QED
        BY <4>1, <4>2 DEF State
    <3> QED
      BY <3>1, <3>2
  <2> QED
    BY <2>1, <2>2
<1>4. /\ current' \in [Axis -> State]
      /\ \A a \in Axis : /\ current'[a].validity = saved'[a].validity
                         /\ current'[a].value = saved'[a].value
                         /\ a \in DIRECTED => current'[a].direction = saved'[a].direction
  BY <1>1, <1>2, <1>3, RestoredFacts
<1>5. whole' \in [Axis -> SUBSET Value] /\ \A a \in Axis : saved'[a].value \in whole'[a]
  <2>1. CASE PowerLoss
    <3>1. /\ whole' = [a \in Axis |-> whole[a] \cup {saved[a].value}] /\ saved' = saved
          /\ \A a \in Axis : saved[a].value \in Value
      BY <1>2, <2>1 DEF PowerLoss, State
    <3> QED
      BY <1>2, <3>1
  <2>2. CASE Reset
    <3>1. whole' = whole /\ step = "idle"
      BY <2>2 DEF Reset
    <3> QED
      BY <1>2, <1>3, <2>2, <3>1 DEF Wholes
  <2> QED
    BY <2>1, <2>2
<1>6. AxisTypeOK'
  <2>1. cursor'[1] \in DOMAIN AXES /\ cursor'[2] \in 1 .. 3 /\ ROUND \in 0 .. ROUND
    <3>1. cursor'[1] = Len(AXES) /\ cursor'[2] = Len(PARAMETERS)
      BY <1>1
    <3>2. Len(AXES) \in DOMAIN AXES /\ Len(PARAMETERS) \in 1 .. 3 /\ ROUND \in 0 .. ROUND
      BY RoundFacts
    <3> QED
      BY <3>1, <3>2
  <2>2. age' \in [Axis -> 0 .. ROUND]
    BY <1>1, <2>1
  <2> QED
    BY <1>1, <1>3, <1>4, <1>5, <2>1, <2>2 DEF AxisTypeOK
<1>7. Fresh'
  <2>1. \A i \in DOMAIN AXES : AXES[i] \in Axis
    BY RoundFacts
  <2> QED
    BY <1>4, <2>1 DEF Fresh, SameParameter
<1>8. HalfKnown' /\ CommandKnown'
  BY <1>1 DEF HalfKnown, CommandKnown
<1>9. Wholes'
  BY <1>4, <1>5 DEF Wholes
<1>10. Placed'
  <2> SUFFICES ASSUME NEW b \in Axis, current'[b].validity = "VALID", b \notin doubtful'
               PROVE  head'[b] = current'[b].value
    BY DEF Placed
  <2>1. CASE Reset
    <3>1. step = "idle" /\ doubtful' = doubtful
      BY <2>1 DEF Reset
    <3> QED
      BY <1>1, <1>3, <1>4, <2>1, <3>1 DEF Placed, Untouched
  <2>2. CASE PowerLoss
    <3>1. b \notin doubtful /\ ~(age[b] < ROUND) /\ saved' = saved
      BY <2>2 DEF PowerLoss
    <3>2. age[b] = ROUND /\ ROUND # 0
      <4>1. age[b] \in 0 .. ROUND /\ ROUND \in Nat \ {0}
        BY RoundFacts DEF AxisTypeOK
      <4> QED
        BY <3>1, <4>1
    <3>3. saved[b].validity = current[b].validity /\ saved[b].value = current[b].value
      <4>1. SameParameter(b, 2) /\ SameParameter(b, 3)
        BY <3>2, OldIsSaved
      <4> QED
        BY <4>1 DEF SameParameter
    <3>4. current[b].validity = "VALID" /\ current'[b].value = current[b].value
      BY <1>4, <3>1, <3>3
    <3>5. Untouched(b)
      BY <3>2, <3>4 DEF Untouched, CommandKnown, AxisTypeOK
    <3> QED
      BY <1>1, <3>1, <3>4, <3>5 DEF Placed
  <2> QED
    BY <2>1, <2>2
<1> QED
  BY <1>6, <1>7, <1>8, <1>9, <1>10

-----------------------------------------------------------------------------
LEMMA StepInvariant ==
    ASSUME AxisAssumption, AxisInv, [AxisNext]_axisVars
    PROVE  AxisInv'
<1>1. CASE AxisNext
  BY <1>1, BeginInvariant, DisableInvariant, WriteInvariant, EnableInvariant, TravelInvariant,
     EndInvariant, HalfTickInvariant, TickInvariant, SecondHalfInvariant, RestartInvariant DEF AxisNext
<1>2. CASE UNCHANGED axisVars
  <2>1. UNCHANGED <<current, saved, saving, cursor, halfSaved, step, axis, target, kind, validValue,
                    head, age, doubtful, whole>>
    BY <1>2 DEF axisVars, mainVars
  <2>2. AxisTypeOK'
    BY <2>1 DEF AxisInv, AxisTypeOK
  <2>3. Fresh'
    <3>1. ASSUME NEW i \in DOMAIN AXES, NEW j \in 1 .. 3
          PROVE  /\ SameParameter(AXES[i], j)' = SameParameter(AXES[i], j)
                 /\ Since(cursor, i, j)' = Since(cursor, i, j)
      <4>1. SameParameter(AXES[i], j)' = SameParameter(AXES[i], j)
        BY <2>1 DEF SameParameter
      <4>2. Since(cursor, i, j)' = Since(cursor, i, j)
        BY <2>1 DEF Since
      <4> QED
        BY <4>1, <4>2
    <3> QED
      BY <2>1, <3>1, Zenon DEF AxisInv, Fresh
  <2>4. HalfKnown' /\ Wholes'
    BY <2>1 DEF AxisInv, HalfKnown, Wholes
  <2>5. CommandKnown' /\ Placed'
    BY <2>1 DEF AxisInv, CommandKnown, Placed, Untouched
  <2> QED
    BY <2>2, <2>3, <2>4, <2>5 DEF AxisInv
<1> QED
  BY <1>1, <1>2

LEMMA Inductive ==
    ASSUME AxisAssumption
    PROVE  AxisSpec => []AxisInv
<1>1. AxisInit => AxisInv
  BY InitInvariant
<1>2. AxisInv /\ [AxisNext]_axisVars => AxisInv'
  BY StepInvariant
<1> QED
  BY <1>1, <1>2, PTL DEF AxisSpec

(* What has not changed for one round of the save timer's rotation over    *)
(* axes and parameters is in EEPROM.                                       *)
LEMMA StalenessBounded ==
    ASSUME AxisAssumption, AxisInv
    PROVE  StaleForOneRoundAtMost
<1> SUFFICES ASSUME NEW a \in Axis, age[a] = ROUND
             PROVE  Same(a)
  BY DEF StaleForOneRoundAtMost
<1>1. SameParameter(a, 1) /\ SameParameter(a, 2) /\ SameParameter(a, 3)
  BY OldIsSaved
<1> QED
  BY <1>1 DEF SameParameter, Same

(* After any history of movements, stops, losses of power and resets, an   *)
(* axis at rest that is called valid is where its value says, unless power *)
(* was lost within a round of saves of its last change (motors.cpp: move   *)
(* makes an axis invalid before it moves, changeState and restoreState).   *)
(* The save interrupt never saves a value that the main loop had written   *)
(* only half of, because move and G92 turn the interrupt off meanwhile,    *)
(* and what has not changed for one round of saves is in EEPROM.           *)
THEOREM PlaceCorrect ==
    ASSUME AxisAssumption
    PROVE  AxisSpec => []ValidMeansThere
<1>1. AxisInv => ValidMeansThere
  <2> SUFFICES ASSUME AxisInv PROVE ValidMeansThere
    OBVIOUS
  <2>1. ValidIsThere
    BY DEF AxisInv, Placed, Untouched, ValidIsThere
  <2>2. NoTornValueSaved
    BY DEF AxisInv, Wholes, NoTornValueSaved
  <2>3. StaleForOneRoundAtMost
    BY StalenessBounded
  <2> QED
    BY <2>1, <2>2, <2>3 DEF ValidMeansThere
<1> QED
  BY <1>1, Inductive, PTL

-----------------------------------------------------------------------------
(* The EEPROM driver.  Its inductive invariant.                            *)

Writing == {"flush", "map", "load", "unmap", "address", "command", "exec", "restore", "written"}
Mapped == {"load", "unmap", "read", "read unmap"}
Loaded == {"unmap", "address", "command", "exec"}

\* The page buffer holds nothing, or the byte of the write that is under way:
\* an interrupt in between leaves nothing.
BufferKnown ==
    \/ buffer = Empty
    \/ /\ pc \in Loaded
       /\ DOMAIN buffer = {Offset(address)} /\ buffer[Offset(address)] = value

\* What the main loop knows of the registers, interrupts or not.
RegistersKnown ==
    /\ old_cmd = NO_OPERATION
    /\ pc \notin {"exec", "restore"} => NVM.CMD = NO_OPERATION
    /\ pc = "exec" => NVM.CMD = ERASE_WRITE_EEPROM_PAGE
    /\ pc \in {"command", "exec"} => NVM.ADDR = address
    /\ NVM.mapped <=> pc \in Mapped

ValueWritten == pc \in Writing => value \in written[address]

EepromInv ==
    /\ EepromTypeOK /\ CellsHoldWhatWasWritten
    /\ BufferKnown /\ RegistersKnown /\ ValueWritten

-----------------------------------------------------------------------------
(* Pages and the page buffer.                                              *)

\* Page and offset determine the cell.
LEMMA CellOfPage ==
    ASSUME EepromAssumption, NEW a \in Address, NEW b \in Page(a), Offset(b) = Offset(a)
    PROVE  b = a
<1> DEFINE P == EEPROM_PAGE_SIZE
<1>1. a \in Nat /\ b \in Nat /\ P \in Nat \ {0} /\ b \div P = a \div P /\ b % P = a % P
  BY DEF EepromAssumption, Address, Page, Offset
<1> HIDE DEF P
<1>2. a = P * (a \div P) + (a % P) /\ b = P * (b \div P) + (b % P)
  BY <1>1, SMTT(30)
<1> QED
  BY <1>1, <1>2

\* Programming a buffer with the one location of cell a changes that cell only.
LEMMA ProgramsOneCell ==
    ASSUME EepromAssumption, NEW a \in Address, NEW byte \in Byte, NEW cells \in [Address -> Byte],
           NEW buf, DOMAIN buf = {Offset(a)}, buf[Offset(a)] = byte
    PROVE  /\ Programmed(cells, buf, a) \in [Address -> Byte]
           /\ Programmed(cells, buf, a)[a] = byte
           /\ \A b \in Address \ {a} : Programmed(cells, buf, a)[b] = cells[b]
<1>1. a \in Page(a)
  BY DEF Page
<1>2. ASSUME NEW b \in Address
      PROVE  Programmed(cells, buf, a)[b] = IF b = a THEN byte ELSE cells[b]
  <2>1. CASE b = a
    BY <1>1, <2>1 DEF Programmed
  <2>2. CASE b # a
    <3>1. ~(b \in Page(a) /\ Offset(b) \in DOMAIN buf)
      BY <2>2, CellOfPage
    <3> QED
      BY <2>2, <3>1 DEF Programmed
  <2> QED
    BY <2>1, <2>2
<1>3. Programmed(cells, buf, a) \in [Address -> Byte]
  BY <1>2 DEF Programmed
<1> QED
  BY <1>2, <1>3

LEMMA EmptyFacts == DOMAIN Empty = {}
  BY DEF Empty

LEMMA ProgramsNothing ==
    ASSUME NEW a, NEW cells \in [Address -> Byte]
    PROVE  Programmed(cells, Empty, a) = cells
  BY EmptyFacts DEF Programmed

\* Loading an empty page buffer.
LEMMA LoadsOne ==
    ASSUME NEW a, NEW byte
    PROVE  /\ DOMAIN Load(Empty, a, byte) = {Offset(a)}
           /\ Load(Empty, a, byte)[Offset(a)] = byte
  BY EmptyFacts DEF Load

\* A cell that is given a byte which counts as written to it.
LEMMA CellsKept ==
    ASSUME CellsHoldWhatWasWritten, NEW a \in Address,
           \A b \in Address \ {a} : eeprom'[b] = eeprom[b],
           \A b \in Address : written[b] \subseteq written'[b],
           eeprom'[a] \in written'[a]
    PROVE  CellsHoldWhatWasWritten'
  BY DEF CellsHoldWhatWasWritten, Address

-----------------------------------------------------------------------------
(* Every step keeps the invariant.                                         *)

LEMMA EepromInitInvariant ==
    ASSUME EepromAssumption, EepromInit
    PROVE  EepromInv
<1>1. 0 \in Address /\ Erased \in Byte /\ 0 \in 0 .. ACCESSES
  BY DEF EepromAssumption, Address, Erased, Byte
<1>2. eeprom \in [Address -> Byte] /\ written \in [Address -> SUBSET Byte]
  BY <1>1 DEF EepromInit
<1>3. NVM \in [CMD : {NO_OPERATION, ERASE_EEPROM_BUFFER, ERASE_WRITE_EEPROM_PAGE},
               ADDR : Address, mapped : BOOLEAN]
  BY <1>1 DEF EepromInit
<1>4. EepromTypeOK
  BY <1>1, <1>2, <1>3, EmptyFacts DEF EepromInit, EepromTypeOK
<1>5. CellsHoldWhatWasWritten
  BY DEF EepromInit, CellsHoldWhatWasWritten
<1>6. BufferKnown /\ ValueWritten
  BY DEF EepromInit, BufferKnown, ValueWritten, Writing
<1>7. RegistersKnown
  BY DEF EepromInit, RegistersKnown, Mapped
<1> QED
  BY <1>4, <1>5, <1>6, <1>7 DEF EepromInv

\* The registers as the parts of a record.
Registers == [CMD : {NO_OPERATION, ERASE_EEPROM_BUFFER, ERASE_WRITE_EEPROM_PAGE},
              ADDR : Address, mapped : BOOLEAN]

\* The steps of the main loop that write the registers.
LEMMA RegisterSteps ==
    ASSUME EepromAssumption, EepromInv,
           EnableMapping \/ DisableMapping \/ SetAddress \/ SetCommand \/ RestoreCommand
    PROVE  EepromInv'
<1> USE DEF EepromInv
<1>1. UNCHANGED <<eeprom, buffer, address, value, old_cmd, written, accesses>>
  BY DEF EnableMapping, DisableMapping, SetAddress, SetCommand, RestoreCommand, Access
<1>2. NVM \in Registers /\ address \in Address /\ old_cmd = NO_OPERATION
  BY DEF EepromTypeOK, Registers, RegistersKnown
<1>3. NVM' \in Registers /\ RegistersKnown' /\ BufferKnown' /\ ValueWritten'
      /\ pc' \in {"load", "read", "address", "have", "command", "exec", "written"}
  <2>1. CASE EnableMapping
    <3>1. NVM' = [NVM EXCEPT !.mapped = TRUE]
      BY <2>1 DEF EnableMapping
    <3>2. NVM' \in Registers
      BY <1>2, <3>1 DEF Registers
    <3>3. NVM'.CMD = NVM.CMD /\ NVM'.ADDR = NVM.ADDR
      BY <1>2, <3>1 DEF Registers
    <3>4. NVM'.mapped
      BY <1>2, <3>1 DEF Registers
    <3>5. (pc = "map" /\ pc' = "load") \/ (pc = "read map" /\ pc' = "read")
      BY <2>1 DEF EnableMapping, Goto
    <3> QED
      BY <1>1, <3>2, <3>3, <3>4, <3>5
      DEF RegistersKnown, BufferKnown, ValueWritten, Mapped, Loaded, Writing
  <2>2. CASE DisableMapping
    <3>1. NVM' = [NVM EXCEPT !.mapped = FALSE]
      BY <2>2 DEF DisableMapping
    <3>2. NVM' \in Registers
      BY <1>2, <3>1 DEF Registers
    <3>3. NVM'.CMD = NVM.CMD /\ NVM'.ADDR = NVM.ADDR
      BY <1>2, <3>1 DEF Registers
    <3>4. ~NVM'.mapped
      BY <1>2, <3>1 DEF Registers
    <3>5. (pc = "unmap" /\ pc' = "address") \/ (pc = "read unmap" /\ pc' = "have")
      BY <2>2 DEF DisableMapping, Goto
    <3> QED
      BY <1>1, <3>2, <3>3, <3>4, <3>5
      DEF RegistersKnown, BufferKnown, ValueWritten, Mapped, Loaded, Writing
  <2>3. CASE SetAddress
    <3>1. NVM' = [NVM EXCEPT !.ADDR = address]
      BY <2>3 DEF SetAddress
    <3>2. NVM' \in Registers
      BY <1>2, <3>1 DEF Registers
    <3>3. NVM'.CMD = NVM.CMD /\ NVM'.ADDR = address
      BY <1>2, <3>1 DEF Registers
    <3>4. NVM'.mapped = NVM.mapped
      BY <1>2, <3>1 DEF Registers
    <3>5. pc = "address" /\ pc' = "command"
      BY <2>3 DEF SetAddress, Goto
    <3> QED
      BY <1>1, <3>2, <3>3, <3>4, <3>5
      DEF RegistersKnown, BufferKnown, ValueWritten, Mapped, Loaded, Writing
  <2>4. CASE SetCommand \/ RestoreCommand
    <3> DEFINE cmd == IF SetCommand THEN ERASE_WRITE_EEPROM_PAGE ELSE NO_OPERATION
    <3>1. NVM' = [NVM EXCEPT !.CMD = cmd]
      BY <1>2, <2>4 DEF SetCommand, RestoreCommand
    <3>2. cmd \in {NO_OPERATION, ERASE_EEPROM_BUFFER, ERASE_WRITE_EEPROM_PAGE}
      OBVIOUS
    <3>3. (pc = "command" /\ pc' = "exec" /\ cmd = ERASE_WRITE_EEPROM_PAGE)
          \/ (pc = "restore" /\ pc' = "written" /\ cmd = NO_OPERATION)
      BY <2>4 DEF SetCommand, RestoreCommand, Goto
    <3> HIDE DEF cmd
    <3>4. NVM' \in Registers
      BY <1>2, <3>1, <3>2 DEF Registers
    <3>5. NVM'.CMD = cmd /\ NVM'.ADDR = NVM.ADDR
      BY <1>2, <3>1 DEF Registers
    <3>6. NVM'.mapped = NVM.mapped
      BY <1>2, <3>1 DEF Registers
    <3> QED
      BY <1>1, <3>3, <3>4, <3>5, <3>6
      DEF RegistersKnown, BufferKnown, ValueWritten, Mapped, Loaded, Writing
  <2> QED
    BY <2>1, <2>2, <2>3, <2>4
<1>4. EepromTypeOK' /\ CellsHoldWhatWasWritten'
  BY <1>1, <1>3 DEF EepromTypeOK, CellsHoldWhatWasWritten, Registers
<1> QED
  BY <1>3, <1>4

LEMMA StartInvariant ==
    ASSUME EepromAssumption, EepromInv, NEW a \in Address,
           StartRead(a) \/ \E byte \in Byte : StartWrite(a, byte)
    PROVE  EepromInv'
<1> USE DEF EepromInv
<1>1. CASE StartRead(a)
  <2>1. pc = "ready" /\ pc' = "read map" /\ address' = a /\ accesses' = accesses + 1 /\ accesses < ACCESSES
        /\ UNCHANGED <<eeprom, buffer, NVM, value, old_cmd, written>>
    BY <1>1 DEF StartRead, Goto
  <2>2. accesses' \in 0 .. ACCESSES
    <3>1. accesses \in 0 .. ACCESSES /\ ACCESSES \in Nat
      BY DEF EepromTypeOK, EepromAssumption
    <3>2. accesses < ACCESSES /\ accesses' = accesses + 1
      BY <2>1
    <3> QED
      BY <3>1, <3>2
  <2>3. EepromTypeOK'
    BY <2>1, <2>2 DEF EepromTypeOK
  <2>4. CellsHoldWhatWasWritten' /\ BufferKnown' /\ RegistersKnown' /\ ValueWritten'
    BY <2>1 DEF CellsHoldWhatWasWritten, BufferKnown, RegistersKnown, ValueWritten, Writing, Mapped, Loaded
  <2> QED
    BY <2>3, <2>4
<1>2. ASSUME NEW byte \in Byte, StartWrite(a, byte)
      PROVE  EepromInv'
  <2>1. pc = "ready" /\ pc' = "flush" /\ address' = a /\ value' = byte /\ old_cmd' = NVM.CMD
        /\ accesses' = accesses + 1 /\ accesses < ACCESSES
        /\ UNCHANGED <<eeprom, buffer, NVM>>
    BY <1>2 DEF StartWrite, Goto
  <2>2. written' = [written EXCEPT ![a] = @ \cup {byte}] /\ written \in [Address -> SUBSET Byte]
    BY <1>2 DEF StartWrite, EepromTypeOK
  <2>3. written' \in [Address -> SUBSET Byte] /\ byte \in written'[a]
        /\ \A b \in Address : written[b] \subseteq written'[b]
    BY <2>2
  <2>4. accesses' \in 0 .. ACCESSES
    BY <2>1 DEF EepromTypeOK, EepromAssumption
  <2>5. old_cmd' = NO_OPERATION
    BY <2>1 DEF RegistersKnown
  <2>6. EepromTypeOK'
    BY <2>1, <2>3, <2>4, <2>5 DEF EepromTypeOK
  <2>7. CellsHoldWhatWasWritten'
    BY <2>1, <2>3 DEF CellsHoldWhatWasWritten, Address
  <2>8. BufferKnown' /\ ValueWritten'
    BY <2>1, <2>3 DEF BufferKnown, ValueWritten, Loaded
  <2>9. RegistersKnown'
    BY <2>1, <2>5 DEF RegistersKnown, Mapped
  <2> QED
    BY <2>6, <2>7, <2>8, <2>9
<1> QED
  BY <1>1, <1>2

LEMMA FlushInvariant ==
    ASSUME EepromAssumption, EepromInv, nvm_eeprom_flush_buffer
    PROVE  EepromInv'
<1> USE DEF EepromInv
<1>1. pc = "flush" /\ pc' = "map" /\ buffer' = Empty
      /\ UNCHANGED <<eeprom, address, value, old_cmd, written, accesses>>
  BY DEF nvm_eeprom_flush_buffer, Goto, Access
<1>2. ~EELOAD
  BY <1>1, EmptyFacts DEF BufferKnown, Loaded, EELOAD
<1>3. NVM' = NVM
  BY <1>2 DEF nvm_eeprom_flush_buffer
<1>4. EepromTypeOK'
  BY <1>1, <1>3, EmptyFacts DEF EepromTypeOK
<1>5. CellsHoldWhatWasWritten' /\ BufferKnown' /\ RegistersKnown' /\ ValueWritten'
  BY <1>1, <1>3 DEF CellsHoldWhatWasWritten, BufferKnown, RegistersKnown, ValueWritten, Writing, Mapped
<1> QED
  BY <1>4, <1>5

LEMMA OffsetFacts ==
    ASSUME EepromAssumption, NEW a \in Address
    PROVE  Offset(a) \in 0 .. EEPROM_PAGE_SIZE - 1
<1>1. a \in Nat /\ EEPROM_PAGE_SIZE \in Nat \ {0}
  BY DEF EepromAssumption, Address
<1> QED
  BY <1>1 DEF Offset

LEMMA LoadInvariant ==
    ASSUME EepromAssumption, EepromInv, LoadByte
    PROVE  EepromInv'
<1> USE DEF EepromInv
<1>1. pc = "load" /\ pc' = "unmap"
      /\ UNCHANGED <<eeprom, NVM, address, value, old_cmd, written, accesses>>
  BY DEF LoadByte, Goto, Access
<1>2. buffer' = Load(Empty, address, value)
  BY <1>1 DEF LoadByte, BufferKnown, RegistersKnown, Mapped, Loaded
<1>3. DOMAIN buffer' = {Offset(address)} /\ buffer'[Offset(address)] = value
  BY <1>2, LoadsOne
<1>4. EepromTypeOK'
  BY <1>1, <1>3, OffsetFacts DEF EepromTypeOK
<1>5. BufferKnown'
  BY <1>1, <1>3 DEF BufferKnown, Loaded
<1>6. CellsHoldWhatWasWritten' /\ RegistersKnown' /\ ValueWritten'
  BY <1>1 DEF CellsHoldWhatWasWritten, RegistersKnown, ValueWritten, Writing, Mapped
<1> QED
  BY <1>4, <1>5, <1>6

\* The main loop's write: it programs its own cell, or nothing when an
\* interrupt emptied the page buffer.
LEMMA ExecuteEffect ==
    ASSUME EepromAssumption, EepromInv, Execute
    PROVE  /\ eeprom' \in [Address -> Byte]
           /\ eeprom'[address] \in {value, eeprom[address]}
           /\ \A b \in Address \ {address} : eeprom'[b] = eeprom[b]
           /\ buffer' = Empty
<1> USE DEF EepromInv
<1>1. pc = "exec" /\ NVM.CMD = ERASE_WRITE_EEPROM_PAGE /\ NVM.ADDR = address
  BY DEF Execute, Goto, RegistersKnown
<1>2. eeprom' = Programmed(eeprom, buffer, address) /\ buffer' = Empty
  BY <1>1 DEF Execute, nvm_exec, ERASE_WRITE_EEPROM_PAGE, NO_OPERATION
<1>3. eeprom \in [Address -> Byte] /\ address \in Address /\ value \in Byte
  BY DEF EepromTypeOK
<1>4. CASE buffer = Empty
  BY <1>2, <1>3, <1>4, ProgramsNothing
<1>5. CASE DOMAIN buffer = {Offset(address)} /\ buffer[Offset(address)] = value
  BY <1>2, <1>3, <1>5, ProgramsOneCell
<1> QED
  BY <1>4, <1>5 DEF BufferKnown

LEMMA ExecuteInvariant ==
    ASSUME EepromAssumption, EepromInv, Execute
    PROVE  EepromInv'
<1> USE DEF EepromInv
<1>1. pc = "exec" /\ pc' = "restore"
      /\ UNCHANGED <<NVM, address, value, old_cmd, written, accesses>>
  BY DEF Execute, Goto, Access
<1>2. value \in written[address] /\ address \in Address
  BY <1>1 DEF ValueWritten, Writing, EepromTypeOK
<1>3. EepromTypeOK'
  BY <1>1, ExecuteEffect, EmptyFacts DEF EepromTypeOK
<1>4. CellsHoldWhatWasWritten'
  BY <1>1, <1>2, ExecuteEffect DEF CellsHoldWhatWasWritten
<1>5. BufferKnown' /\ RegistersKnown' /\ ValueWritten'
  BY <1>1, ExecuteEffect DEF BufferKnown, RegistersKnown, ValueWritten, Writing, Mapped
<1> QED
  BY <1>3, <1>4, <1>5

LEMMA ReadInvariant ==
    ASSUME EepromAssumption, EepromInv, ReadByte \/ Return
    PROVE  EepromInv'
<1> USE DEF EepromInv
<1>1. UNCHANGED <<eeprom, buffer, NVM, address, old_cmd, written, accesses>>
  BY DEF ReadByte, Return, Access
<1>2. value' \in Byte
  <2>1. value \in Byte /\ eeprom[address] \in Byte /\ {} \in Byte
    BY DEF EepromTypeOK, Byte
  <2> QED
    BY <2>1 DEF ReadByte, Return, Access
<1>3. (pc = "read" /\ pc' = "read unmap") \/ (pc \in {"written", "have"} /\ pc' = "ready" /\ value' = value)
  BY DEF ReadByte, Return, Access, Goto
<1>4. EepromTypeOK'
  BY <1>1, <1>2, <1>3 DEF EepromTypeOK
<1>5. CellsHoldWhatWasWritten' /\ BufferKnown' /\ RegistersKnown' /\ ValueWritten'
  BY <1>1, <1>3 DEF CellsHoldWhatWasWritten, BufferKnown, RegistersKnown, ValueWritten, Writing,
                    Mapped, Loaded
<1> QED
  BY <1>4, <1>5

LEMMA SaveInvariant ==
    ASSUME EepromAssumption, EepromInv, NEW a \in SAVED, NEW byte \in Byte, Save(a, byte)
    PROVE  EepromInv'
<1> USE DEF EepromInv
<1>1. a \in Address
  BY DEF EepromAssumption, Address
<1>2. buffer' = Empty /\ UNCHANGED <<NVM, pc, address, value, old_cmd, accesses>>
  BY DEF Save
<1>3. /\ eeprom' \in [Address -> Byte] /\ eeprom'[a] = byte
      /\ \A b \in Address \ {a} : eeprom'[b] = eeprom[b]
  <2> DEFINE new == Load(Empty, a, byte)
  <2>1. DOMAIN new = {Offset(a)} /\ new[Offset(a)] = byte
    BY LoadsOne
  <2>2. eeprom' = Programmed(eeprom, new, a) /\ eeprom \in [Address -> Byte]
    BY DEF Save, EepromTypeOK
  <2> HIDE DEF new
  <2> QED
    BY <1>1, <2>1, <2>2, ProgramsOneCell
<1>4. written' = [written EXCEPT ![a] = @ \cup {byte}] /\ written \in [Address -> SUBSET Byte]
  BY DEF Save, EepromTypeOK
<1>5. written' \in [Address -> SUBSET Byte] /\ byte \in written'[a]
      /\ \A b \in Address : written[b] \subseteq written'[b]
  BY <1>1, <1>4
<1>6. EepromTypeOK'
  BY <1>2, <1>3, <1>5, EmptyFacts DEF EepromTypeOK
<1>7. CellsHoldWhatWasWritten'
  BY <1>1, <1>3, <1>5, CellsKept
<1>8. BufferKnown' /\ RegistersKnown'
  BY <1>2 DEF BufferKnown, RegistersKnown
<1>9. ValueWritten'
  BY <1>2, <1>5 DEF ValueWritten, EepromTypeOK
<1> QED
  BY <1>6, <1>7, <1>8, <1>9

LEMMA EepromStepInvariant ==
    ASSUME EepromAssumption, EepromInv, [EepromNext]_eepromVars
    PROVE  EepromInv'
<1>1. CASE EepromNext
  BY <1>1, StartInvariant, FlushInvariant, LoadInvariant, ExecuteInvariant, ReadInvariant,
     RegisterSteps, SaveInvariant DEF EepromNext
<1>2. CASE UNCHANGED eepromVars
  BY <1>2 DEF eepromVars, EepromInv, EepromTypeOK, CellsHoldWhatWasWritten, BufferKnown, RegistersKnown, ValueWritten
<1> QED
  BY <1>1, <1>2

LEMMA EepromInductive ==
    ASSUME EepromAssumption
    PROVE  EepromSpec => []EepromInv
<1>1. EepromInit => EepromInv
  BY EepromInitInvariant
<1>2. EepromInv /\ [EepromNext]_eepromVars => EepromInv'
  BY EepromStepInvariant
<1> QED
  BY <1>1, <1>2, PTL DEF EepromSpec

-----------------------------------------------------------------------------
(* A cell only ever holds a byte that was written to that very cell, at    *)
(* whatever access of nvm_eeprom_write_byte the save interrupt arrives.    *)
THEOREM CellsCorrect ==
    ASSUME EepromAssumption
    PROVE  EepromSpec => []CellsHoldWhatWasWritten
<1>1. EepromInv => CellsHoldWhatWasWritten
  BY DEF EepromInv
<1> QED
  BY <1>1, EepromInductive, PTL

(* Between two accesses of the main loop the page buffer is empty, no      *)
(* command is set and the EEPROM is not mapped.                            *)
THEOREM QuietCorrect ==
    ASSUME EepromAssumption
    PROVE  EepromSpec => []QuietBetweenAccesses
<1>1. EepromInv => QuietBetweenAccesses
  BY EmptyFacts DEF EepromInv, QuietBetweenAccesses, BufferKnown, RegistersKnown, Loaded, Mapped, EELOAD
<1> QED
  BY <1>1, EepromInductive, PTL

(* nvm_eeprom_read_byte returns what the cell holds, although the save     *)
(* interrupt may use the mapping bit between any two of its accesses.      *)
THEOREM ReadCorrect ==
    ASSUME EepromAssumption
    PROVE  EepromSpec => ReadReturnsTheCell
<1> DEFINE Good == pc = "read" /\ pc' = "read unmap" => value' = eeprom[address]
<1>1. EepromInv /\ [EepromNext]_eepromVars => [Good]_eepromVars
  <2> SUFFICES ASSUME EepromInv, EepromNext, pc = "read", pc' = "read unmap"
               PROVE  value' = eeprom[address]
    OBVIOUS
  <2>1. ReadByte
    BY DEF EepromNext, StartWrite, StartRead, nvm_eeprom_flush_buffer, EnableMapping, LoadByte,
           DisableMapping, SetAddress, SetCommand, Execute, RestoreCommand, Return, Save, Goto
  <2> QED
    BY <2>1 DEF ReadByte, EepromInv, RegistersKnown, Mapped
<1> QED
  BY <1>1, EepromInductive, PTL DEF EepromSpec, ReadReturnsTheCell

(* nvm_eeprom_write_byte programs no cell but the one it was given.        *)
THEOREM WriteCorrect ==
    ASSUME EepromAssumption
    PROVE  EepromSpec => WriteTouchesOneCell
<1> DEFINE Good == pc = "exec" /\ pc' = "restore" =>
                     \A a \in Address \ {address} : eeprom'[a] = eeprom[a]
<1>1. EepromInv /\ [EepromNext]_eepromVars => [Good]_eepromVars
  <2> SUFFICES ASSUME EepromInv, EepromNext, pc = "exec", pc' = "restore"
               PROVE  \A a \in Address \ {address} : eeprom'[a] = eeprom[a]
    OBVIOUS
  <2>1. Execute
    BY DEF EepromNext, StartWrite, StartRead, nvm_eeprom_flush_buffer, EnableMapping, LoadByte,
           DisableMapping, SetAddress, SetCommand, ReadByte, RestoreCommand, Return, Save, Goto
  <2> QED
    BY <2>1, ExecuteEffect
<1> QED
  BY <1>1, EepromInductive, PTL DEF EepromSpec, WriteTouchesOneCell
=============================================================================
