----------------------------- MODULE Boundaries -----------------------------
(***************************************************************************)
(* Where the extruder may go: the bed's height from the planes through its *)
(* measured corners, the skew, the tiers of the printable region, and how  *)
(* move keeps the target of a received command inside them.                *)
(*                                                                         *)
(* X and Y are whole millimetres, heights are in parts of one (UNIT), with *)
(* which the planes through corners of whole millimetres are exact; the    *)
(* skew is rounded to millimetres, which the properties allow for.         *)
(***************************************************************************)
EXTENDS Integers, FiniteSets, FiniteSetsExt

CONSTANTS
    XS, YS, ZS,     \* places that commands name
    BEDS            \* settings: [corners, offset, skewX, skewY,
                    \*            externalBedHeight, expandPrintableRegion]

UNIT == 180

VARIABLES
    value,          \* currentValues
    bed,            \* the settings in use
    moved           \* the last step was a movement

vars == <<value, bed, moved>>

Abs(n) == IF n < 0 THEN -n ELSE n

-----------------------------------------------------------------------------
\* Vectors, of three components: the fourth is always zero here.

Vector(x, y, z) == [x |-> x, y |-> y, z |-> z]

Plus(v, w) == [k \in DOMAIN v |-> v[k] + w[k]]

Minus(v, w) == [k \in DOMAIN v |-> v[k] - w[k]]

Times(v, n) == [k \in DOMAIN v |-> v[k] * n]

-----------------------------------------------------------------------------
\* The bed.

CENTER == [x |-> 54, y |-> 50]

DISTANCE == 45

centerVector == Vector(CENTER.x, CENTER.y, 0)

\* A corner: right or left by sx, back or front by sy.
Corner(b, sx, sy) ==
    Vector(CENTER.x + sx * DISTANCE, CENTER.y + sy * DISTANCE,
           UNIT * b.corners[<<sx, sy>>])

calculatePlaneNormalVector(v1, v2, v3) ==
    LET v == Minus(v2, v1)
        w == Minus(v3, v1)
    IN  Vector(v.y * w.z - w.y * v.z, v.z * w.x - w.z * v.x,
               v.x * w.y - w.x * v.y)

\* Faulty: the plane is put through the origin.
generatePlaneEquationAtOrigin(v1, v2, v3) ==
    [normal |-> calculatePlaneNormalVector(v1, v2, v3), d |-> 0]

generatePlaneEquation(v1, v2, v3) ==
    LET n == calculatePlaneNormalVector(v1, v2, v3)
    IN  [normal |-> n, d |-> -(n.x * v1.x + n.y * v1.y + n.z * v1.z)]

getZFromXYAndPlane(x, y, plane) ==
    LET n == plane.normal
    IN  IF n.z = 0 THEN 0
        ELSE IF n.z < 0 THEN (n.x * x + n.y * y + plane.d) \div (-n.z)
        ELSE (-(n.x * x + n.y * y + plane.d)) \div n.z

sign(p1, p2, p3) ==
    (p1.x - p3.x) * (p2.y - p3.y) - (p2.x - p3.x) * (p1.y - p3.y)

\* The corners are moved outwards by a hundredth of a millimetre in the
\* code and here by 1 / ENLARGE of the vector that is normalized there,
\* which on whole millimetres also only adds the points on the edges.
ENLARGE == 200

Outward(v1, v2, v3) ==
    Plus(Times(v1, ENLARGE), Plus(Minus(v1, v2), Minus(v1, v3)))

isPointInTriangle(point, v1, v2, v3) ==
    LET p == Times(point, ENLARGE)
        a == Outward(v1, v2, v3)
        b == Outward(v2, v1, v3)
        c == Outward(v3, v1, v2)
    IN  /\ (sign(p, a, b) < 0) = (sign(p, b, c) < 0)
        /\ (sign(p, b, c) < 0) = (sign(p, c, a) < 0)

\* The two corners of a side of the bed.
Ends(side) ==
    CASE side = "back" -> <<<<-1, 1>>, <<1, 1>>>>
      [] side = "left" -> <<<<-1, 1>>, <<-1, -1>>>>
      [] side = "right" -> <<<<1, 1>>, <<1, -1>>>>
      [] OTHER -> <<<<-1, -1>>, <<1, -1>>>>

\* backPlane, leftPlane, rightPlane and frontPlane.
Plane(b, side) ==
    LET e == Ends(side)
    IN  generatePlaneEquation(Corner(b, e[1][1], e[1][2]),
                              Corner(b, e[2][1], e[2][2]), centerVector)

\* The side whose triangle holds a point between the lines through the corners.
Inside(b, x, y) ==
    LET in(side) ==
          LET e == Ends(side)
          IN  isPointInTriangle(Vector(x, y, 0), centerVector,
                                Corner(b, e[1][1], e[1][2]), Corner(b, e[2][1], e[2][2]))
        found == {side \in {"left", "right", "back"} : in(side)}
    IN  CASE "left" \in found -> "left"
          [] "left" \notin found /\ "right" \in found -> "right"
          [] found = {"back"} -> "back"
          [] OTHER -> "front"

\* Beyond two lines the mean of two planes, beyond one its plane.
getHeightAdjustmentRequired(b, x, y) ==
    LET beyond ==
          {side \in {"left", "right", "back", "front"} :
             CASE side = "left" -> x <= CENTER.x - DISTANCE
               [] side = "right" -> x >= CENTER.x + DISTANCE
               [] side = "back" -> y >= CENTER.y + DISTANCE
               [] OTHER -> y <= CENTER.y - DISTANCE}
        sides == IF beyond = {} THEN {Inside(b, x, y)} ELSE beyond
    IN  MapThenSumSet(LAMBDA side : getZFromXYAndPlane(x, y, Plane(b, side)), sides)
           \div Cardinality(sides)

-----------------------------------------------------------------------------
\* Skew, tiers and limits.

BED_HIGH_MAX_Z == 112

getSkewAdjustmentRequired(b, skew, height) ==
    LET span == (BED_HIGH_MAX_Z - b.externalBedHeight) * UNIT
    IN  IF span = 0 THEN 0 ELSE (height * (-skew)) \div span

getTierAtHeight(b, height) ==
    IF height < 5 * UNIT /\ ~b.expandPrintableRegion THEN "LOW"
    ELSE IF 2 * (height + b.externalBedHeight * UNIT) < 147 * UNIT
    THEN "MEDIUM" ELSE "HIGH"

Level(tier) == CASE tier = "LOW" -> 1 [] tier = "MEDIUM" -> 2 [] OTHER -> 3

Limits(tier) ==
    CASE tier = "LOW" -> [minX |-> -2, maxX |-> 106, minY |-> -2, maxY |-> 105]
      [] tier = "MEDIUM" ->
            [minX |-> -2, maxX |-> 106, minY |-> -9, maxY |-> 105]
      [] OTHER -> [minX |-> 7, maxX |-> 97, minY |-> 9, maxY |-> 85]

getValueInRange(v, low, high) == Min({high, Max({low, v})})

Tiers == {"LOW", "MEDIUM", "HIGH"}

\* The height the target has within the limits of each tier.
Potential(b, p) ==
    [tier \in Tiers |->
       LET l == Limits(tier)
       IN  p.z + getHeightAdjustmentRequired(b,
                    getValueInRange(p.x, l.minX, l.maxX),
                    getValueInRange(p.y, l.minY, l.maxY))]

\* Faulty: the limits are those of the tier above.
TierForAbove(b, potential) ==
    CHOOSE tier \in {"MEDIUM", "HIGH"} :
       /\ Level(tier) >= Level(getTierAtHeight(b, potential[tier]))
       /\ tier = "HIGH" => Level(getTierAtHeight(b, potential["MEDIUM"])) > 2

\* The first tier at whose limits the target is in no higher one.
TierFor(b, potential) ==
    LET enough == {tier \in Tiers : Level(tier) >= Level(getTierAtHeight(b, potential[tier]))}
    IN  CHOOSE tier \in enough : \A other \in enough : Level(tier) <= Level(other)

\* The part of move that keeps the target in bounds.
Bounded(b, p) ==
    LET potential == Potential(b, p)
        tier == TierFor(b, potential)
        l == Limits(tier)
        sx == getSkewAdjustmentRequired(b, b.skewX, potential[tier])
        sy == getSkewAdjustmentRequired(b, b.skewY, potential[tier])
    IN  [p EXCEPT !.x = getValueInRange(@, l.minX - sx, l.maxX - sx),
                  !.y = getValueInRange(@, l.minY - sy, l.maxY - sy)]

-----------------------------------------------------------------------------
\* After homing, at the bed's centre.
Init ==
    /\ value = [x |-> CENTER.x, y |-> CENTER.y, z |-> 5 * UNIT]
    /\ bed \in BEDS /\ moved = FALSE

Move ==
    /\ \E x \in XS, y \in YS, z \in ZS :
          value' = Bounded(bed, [x |-> x, y |-> y, z |-> z])
    /\ moved' = TRUE
    /\ UNCHANGED bed

\* updateBedChanges: the values that stand for the same place on a new bed.
Adjusted(v, old, new) ==
    LET was == getHeightAdjustmentRequired(old, v.x, v.y)
        is == getHeightAdjustmentRequired(new, v.x, v.y)
        z == v.z + was + old.offset - is - new.offset
        Change(s, t) == getSkewAdjustmentRequired(old, s, v.z + was)
                        - getSkewAdjustmentRequired(new, t, z + is)
    IN  [x |-> v.x + Change(old.skewX, new.skewX),
         y |-> v.y + Change(old.skewY, new.skewY), z |-> z]

\* M618 in a region that updateBedChanges reads.
ChangeBed ==
    /\ moved
    /\ \E b \in BEDS : bed' = b /\ value' = Adjusted(value, bed, b)
    /\ moved' = FALSE

Next == Move \/ ChangeBed

Spec == Init /\ [][Next]_vars

-----------------------------------------------------------------------------
\* Where the motors are for a place in G-code coordinates.
Real(b, p) ==
    LET z == p.z + getHeightAdjustmentRequired(b, p.x, p.y)
    IN  [x |-> p.x + getSkewAdjustmentRequired(b, b.skewX, z),
         y |-> p.y + getSkewAdjustmentRequired(b, b.skewY, z), z |-> z]

\* Within the printable region at its height; a millimetre is rounding.
InBounds(b, p) ==
    LET r == Real(b, p)
        l == Limits(getTierAtHeight(b, r.z))
    IN  r.x \in l.minX - 1 .. l.maxX + 1 /\ r.y \in l.minY - 1 .. l.maxY + 1

\* Where a received command ends is in bounds.
EndInBounds == moved => InBounds(bed, value)

\* The compensation is the measured height at the corners, and zero at the
\* centre, where the bed is homed.
MeasuredExact ==
    /\ \A c \in {-1, 1} \X {-1, 1} :
          getHeightAdjustmentRequired(bed, CENTER.x + c[1] * DISTANCE,
                                      CENTER.y + c[2] * DISTANCE)
             = UNIT * bed.corners[c]
    /\ getHeightAdjustmentRequired(bed, CENTER.x, CENTER.y) = 0

\* Between the corners the compensation has no step: over a millimetre it
\* changes by no more than the steepest of its planes.
Smooth ==
    LET steepest == Max({Abs(bed.corners[c]) : c \in {-1, 1} \X {-1, 1}})
                       * (UNIT \div DISTANCE)
        H(x, y) == getHeightAdjustmentRequired(bed, x, y)
    IN  \A x \in {v \in XS : Abs(v - CENTER.x) < DISTANCE},
           y \in {v \in YS : Abs(v - CENTER.y) < DISTANCE} :
           /\ Abs(H(x + 1, y) - H(x, y)) <= steepest
           /\ Abs(H(x, y + 1) - H(x, y)) <= steepest
=============================================================================
