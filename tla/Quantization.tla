---------------------------- MODULE Quantization ----------------------------
(***************************************************************************)
(* Positions and rotations as MovementPacket.cpp packs them for the wire   *)
(* (PositionCompressed, RotationCompressed), with the helpers and settings *)
(* of NetworkUtils.h.                                                      *)
(*                                                                         *)
(* A coordinate is an integer, in parts of Fine to the code's unit: the    *)
(* floats of the code that are multiples of 1 / Fine, which a product with *)
(* precision does not round.  An angle is an integer, in parts of Tenths   *)
(* to a degree; the roundings of value / 360 are left out, they are far    *)
(* below a quantum.  A U64 is the set of its bits that are one.            *)
(***************************************************************************)
EXTENDS Integers

Fine == 1024
Tenths == 10

\* Division and remainder of C++, towards zero.
Quotient(n, d) == IF n < 0 THEN -((-n) \div d) ELSE n \div d
Remainder(n, d) == n - d * Quotient(n, d)

Bit(n, k) == (n \div 2 ^ k) % 2
BitsOf(n) == {k \in 0 .. 30 : Bit(n, k) = 1}

\* The sum of the powers of two in bits, at most twenty.
NumberOf(bits) ==
    LET sum[k \in 0 .. 20] ==
            IF k = 0 THEN 0 ELSE sum[k - 1] + (IF k - 1 \in bits THEN 2 ^ (k - 1) ELSE 0)
    IN  sum[20]

ShiftLeft(bits, n) == {k + n : k \in bits}
ShiftRight(bits, n) == {k - n : k \in {j \in bits : j >= n}}

-----------------------------------------------------------------------------
(* Rotations: three angles in fields of ten bits of an int.                *)
quantization == 1024
shiftY == 10   \* GetBitPosition(quantizationZ)
shiftX == 10   \* GetBitPosition(quantizationY)
mask == quantization - 1

\* Network::Utils::Wrap: from zero to the range.
Wrap(value, range) ==
    LET r == Remainder(value, range) IN IF r < 0 THEN r + range ELSE r

\* ConvertDegToQuantitized and ConvertRange: a part of the circle in quanta.
ConvertDegToQuantitized(angle) ==
    Wrap(Quotient(angle * quantization, 360 * Tenths), quantization)

PackRotation(x, y, z) == x * 2 ^ (shiftX + shiftY) + y * 2 ^ shiftY + z

\* value & (mask << shift)
Field(value, shift) == ((value \div 2 ^ shift) % (mask + 1)) * 2 ^ shift

UnpackRotation(value) ==
    LET x == Field(value, shiftX + shiftY)
        y == Field(value - x, shiftY)
    IN  [x |-> x \div 2 ^ (shiftX + shiftY), y |-> y \div 2 ^ shiftY, z |-> value - x - y]

\* RotationCompressed::Set: the int of a vector of angles.
SetRotation(v) == PackRotation(ConvertDegToQuantitized(v.x),
                               ConvertDegToQuantitized(v.y),
                               ConvertDegToQuantitized(v.z))

\* RotationCompressed::Get, in parts of quantization to the angle's unit.
GetRotation(value) ==
    [c \in {"x", "y", "z"} |-> UnpackRotation(value)[c] * 360 * Tenths]

-----------------------------------------------------------------------------
(* Positions: three magnitudes in fields of twenty bits, and their signs.  *)
precision == 256
xShift == 43
yShift == 23
zShift == 3
Mask(shift) == shift .. shift + 19   \* TwentyBits << shift

Magnitude(v) == IF v < 0 THEN -v ELSE v

\* Faulty variant: the masks are forgotten.
PackUnmasked(v, shift) ==
    ShiftLeft(BitsOf(Quotient(Magnitude(v) * precision, Fine)), shift)

\* One coordinate of PositionCompressed::Pack: (long)(x * precision), shifted
\* and masked.
PackCoordinate(v, shift) ==
    ShiftLeft(BitsOf(Quotient(Magnitude(v) * precision, Fine)), shift) \cap Mask(shift)

PackPosition(v) ==
         PackCoordinate(v.x, xShift)
    \cup PackCoordinate(v.y, yShift)
    \cup PackCoordinate(v.z, zShift)
    \cup {k \in 0 .. 2 : CASE k = 2 -> v.x < 0 [] k = 1 -> v.y < 0 [] k = 0 -> v.z < 0}

\* One coordinate of PositionCompressed::Unpack.
UnpackCoordinate(bits, shift, sign) ==
    LET u == (NumberOf(ShiftRight(bits \cap Mask(shift), shift)) * Fine) \div precision
    IN  IF sign \in bits THEN -u ELSE u

UnpackPosition(bits) == [x |-> UnpackCoordinate(bits, xShift, 2),
                         y |-> UnpackCoordinate(bits, yShift, 1),
                         z |-> UnpackCoordinate(bits, zShift, 0)]
=============================================================================
