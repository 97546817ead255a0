------------------------------- MODULE Floats -------------------------------
(* The doubles of saturn, in an IEEE-754 format small enough to enumerate:   *)
(* a significand of Precision bits, gradual underflow, two infinities, both  *)
(* zeros, one NaN, and results rounded to nearest with ties to even.  What   *)
(* the rules, the interval analysis and the virtual machine claim of doubles *)
(* they claim of every such format, and the corners that break such claims   *)
(* (signed zeros, overflow, underflow, NaN) are all here.                    *)
(*                                                                           *)
(* A float is its place in the total order, the key sym.rs sorts by: +0 is   *)
(* 0, -0 is -1, and -x is -1 - x.  NaN stands past the end of the order.     *)
EXTENDS Integers, Sequences, FiniteSets, FiniteSetsExt

CONSTANTS Precision,    \* bits of a significand
          Binades       \* powers of two above the subnormals
ASSUME FormatAssumption == Precision = 3 /\ Binades \in 2..3

Half == 2^(Precision - 1)
Inf  == (Binades + 1) * Half          \* the first magnitude that overflows
NaN  == Inf + 1
Zero == 0
MinusZero == -1
Floats == (-1 - Inf)..NaN

Negative(x) == x < 0
Neg(x)      == IF x = NaN THEN NaN ELSE -1 - x
Size(x)     == IF Negative(x) THEN -1 - x ELSE x
Signed(neg, size) == IF neg THEN -1 - size ELSE size
IsFinite(x) == x # NaN /\ Size(x) < Inf
IsZero(x)   == x \in {Zero, MinusZero}
NumLt(x, y) == x # NaN /\ y # NaN /\ x < y /\ ~(IsZero(x) /\ IsZero(y))
NumEq(x, y) == x # NaN /\ (x = y \/ (IsZero(x) /\ IsZero(y)))
NumLe(x, y) == NumLt(x, y) \/ NumEq(x, y)

\* The magnitude of a size, in units of the smallest subnormal; the size Inf
\* stands where the first value too large for the format would.
Units == [i \in 0..Inf |->
            IF i < Half THEN i ELSE (Half + (i % Half)) * 2^((i \div Half) - 1)]
Unit == Half            \* units in 1.0, which makes Half / 2 units one half
One  == CHOOSE i \in 0..Inf : Units[i] = Unit
Two  == CHOOSE i \in 0..Inf : Units[i] = 2 * Unit
Pi   == CHOOSE i \in 0..Inf : Units[i] = 3 * Unit     \* nearest to pi
Value(x) == IF Negative(x) THEN -Units[Size(x)] ELSE Units[x]

\* The size nearest to n/d units, the even one at a tie.
Below(n, d) == CHOOSE i \in 0..Inf : Units[i] * d <= n /\ (i = Inf \/ n < Units[i + 1] * d)
Closer(below, twice, middle) ==
  IF twice < middle \/ (twice = middle /\ (below % 2) = 0) THEN below ELSE below + 1
RoundedFrom(below, n, d) ==
  IF below = Inf THEN Inf
  ELSE Closer(below, 2 * n, (Units[below] + Units[below + 1]) * d)
Rounded(n, d) == RoundedFrom(Below(n, d), n, d)
Nearest(n, d, neg) == Signed(neg, Rounded(n, d))
Units2Float(n) == Nearest(IF n < 0 THEN -n ELSE n, 1, n < 0)

\* The neighbours of a float (next_up, next_down of the standard library).
NextUp(x)   == IF x \in {NaN, Inf} THEN x ELSE IF x = MinusZero THEN 1 ELSE x + 1
NextDown(x) == IF x = NaN THEN NaN ELSE Neg(NextUp(Neg(x)))

AddOf(x, y) ==
  IF x = NaN \/ y = NaN THEN NaN
  ELSE IF Size(x) = Inf THEN IF y = Neg(x) THEN NaN ELSE x
  ELSE IF Size(y) = Inf THEN y
  ELSE IF Value(x) + Value(y) # 0 THEN Units2Float(Value(x) + Value(y))
  ELSE IF x = MinusZero /\ y = MinusZero THEN MinusZero ELSE Zero

MulOf(x, y) ==
  LET neg == Negative(x) # Negative(y) IN
  IF x = NaN \/ y = NaN THEN NaN
  ELSE IF Size(x) = Inf \/ Size(y) = Inf
       THEN IF IsZero(x) \/ IsZero(y) THEN NaN ELSE Signed(neg, Inf)
  ELSE Nearest(Units[Size(x)] * Units[Size(y)], Unit, neg)

DivOf(x, y) ==
  LET neg == Negative(x) # Negative(y) IN
  IF x = NaN \/ y = NaN THEN NaN
  ELSE IF Size(x) = Inf THEN IF Size(y) = Inf THEN NaN ELSE Signed(neg, Inf)
  ELSE IF Size(y) = Inf THEN Signed(neg, 0)
  ELSE IF IsZero(y) THEN IF IsZero(x) THEN NaN ELSE Signed(neg, Inf)
  ELSE Nearest(Units[Size(x)] * Unit, Units[Size(y)], neg)

SqrtOf(x) ==
  IF x = NaN \/ IsZero(x) \/ x = Inf THEN x
  ELSE IF Negative(x) THEN NaN
  ELSE CHOOSE i \in 1..Inf :       \* between the midpoints around it
         LET square == 4 * Units[x] * Unit IN
         /\ (Units[i - 1] + Units[i])^2 <= square
         /\ (i = Inf \/ square < (Units[i] + Units[i + 1])^2)

\* Rounding to a whole number keeps the sign, that of a zero included.
WholeOf(x, up) ==
  IF ~IsFinite(x) THEN x
  ELSE LET u == Units[Size(x)]
           away == IF (u % Unit) # 0 /\ (Negative(x) # up) THEN Unit ELSE 0
       IN  Nearest((u - (u % Unit)) + away, 1, Negative(x))
IsWhole(x) == IsFinite(x) /\ (Units[Size(x)] % Unit) = 0
IsOdd(x)   == IsWhole(x) /\ (Units[Size(x)] \div Unit) % 2 = 1

\* The library functions, which C leaves to the platform but for the values
\* and the symmetries the code relies on.  Between those they are stand-ins:
\* monotone for exp and ln, bounded and of the right parity for the others.
TwoToThe(n) == IF n < 0 THEN Nearest(Unit, 2^(-n), FALSE) ELSE Nearest(Unit * 2^n, 1, FALSE)
ExpOf(x) ==
  CASE x \in {NaN, Inf} -> x
    [] x = -1 - Inf     -> Zero
    [] OTHER            -> TwoToThe(Value(WholeOf(x, FALSE)) \div Unit)
LnOf(x) ==
  CASE x \in {NaN, Inf} -> x
    [] IsZero(x)        -> -1 - Inf
    [] Negative(x)      -> NaN
    [] OTHER            -> Units2Float(Units[x] - Unit)
SinOf(x) == IF ~IsFinite(x) THEN NaN
            ELSE Signed(Negative(x), IF IsZero(x) THEN 0 ELSE 1 + (Size(x) % One))
CosOf(x) == IF ~IsFinite(x) THEN NaN
            ELSE CASE IsZero(x) -> One [] Size(x) = Pi -> Neg(One)
                   [] OTHER -> Size(x) % One
TanOf(x) == DivOf(SinOf(x), CosOf(x))
Atan2Of(y, x) ==
  IF x = NaN \/ y = NaN THEN NaN
  ELSE Signed(Negative(y),
         CASE IsZero(y)  -> IF Negative(x) THEN Pi ELSE 0
           [] IsZero(x)  -> DivOf(Pi, Two)
           [] OTHER      -> IF Negative(x) THEN Two ELSE 1)

\* x^e for a whole e between -7 and 7 and a finite x that is not zero.
PowerOf(x, e) ==
  LET k == Units[Size(x)]
      n == IF e < 0 THEN -e ELSE e
  IN  IF k >= 2 * Unit /\ n > 3
      THEN Signed(Negative(x) /\ (n % 2) = 1, IF e < 0 THEN 0 ELSE Inf)
      ELSE IF e < 0 THEN Nearest(Unit * Unit^n, k^n, Negative(x) /\ (n % 2) = 1)
                    ELSE Nearest(Unit * k^n, Unit^n, Negative(x) /\ (n % 2) = 1)
\* pow as C99 pins it, and between whole exponents the power below.
PowOf(x, y) ==
  CASE IsZero(y) \/ x = One   -> One
    [] x = NaN \/ y = NaN     -> NaN
    [] Size(y) = Inf          ->
         CASE Size(x) = One -> One
           [] OTHER -> IF (Size(x) > One) = (y = Inf) THEN Inf ELSE Zero
    [] IsZero(x) \/ Size(x) = Inf ->
         Signed(Negative(x) /\ IsOdd(y), IF IsZero(x) = Negative(y) THEN Inf ELSE 0)
    [] Negative(x) /\ ~IsWhole(y) -> NaN
    [] OTHER -> PowerOf(x, Value(WholeOf(y, FALSE)) \div Unit)
----------------------------------------------------------------------------
(* Op::eval, and min and max with the tie between the zeros settled.         *)
MinOf(x, y) ==
  CASE x = NaN      -> y
    [] y = NaN      -> x
    [] NumEq(x, y)  -> IF Negative(x) THEN x ELSE y
    [] OTHER        -> IF NumLt(x, y) THEN x ELSE y
MaxOf(x, y) ==
  CASE x = NaN      -> y
    [] y = NaN      -> x
    [] NumEq(x, y)  -> IF Negative(x) THEN y ELSE x
    [] OTHER        -> IF NumLt(y, x) THEN x ELSE y

Truthy(x) == ~IsZero(x) /\ x # NaN
Bool(b)   == IF b THEN One ELSE Zero
SignOf(x) == CASE x = NaN -> NaN [] IsZero(x) -> Zero
               [] OTHER -> Signed(Negative(x), One)
AbsOf(x)  == IF x = NaN THEN NaN ELSE Size(x)

UnaryOps  == {"neg", "sqrt", "ln", "exp", "sin", "cos", "tan", "abs", "sign",
              "floor", "ceil", "not"}
BinaryOps == {"+", "-", "*", "/", "^", "min", "max", "atan2",
              "<", "<=", ">", ">=", "==", "!=", "&&", "||"}
Apply1Of(op, x) ==
  CASE op = "neg"   -> Neg(x)
    [] op = "sqrt"  -> SqrtOf(x)
    [] op = "ln"    -> LnOf(x)
    [] op = "exp"   -> ExpOf(x)
    [] op = "sin"   -> SinOf(x)
    [] op = "cos"   -> CosOf(x)
    [] op = "tan"   -> TanOf(x)
    [] op = "abs"   -> AbsOf(x)
    [] op = "sign"  -> SignOf(x)
    [] op = "floor" -> WholeOf(x, FALSE)
    [] op = "ceil"  -> WholeOf(x, TRUE)
    [] op = "not"   -> Bool(~Truthy(x))
Apply2Of(op, x, y) ==
  CASE op = "+"     -> AddOf(x, y)
    [] op = "-"     -> AddOf(x, Neg(y))
    [] op = "*"     -> MulOf(x, y)
    [] op = "/"     -> DivOf(x, y)
    [] op = "^"     -> PowOf(x, y)
    [] op = "min"   -> MinOf(x, y)
    [] op = "max"   -> MaxOf(x, y)
    [] op = "atan2" -> Atan2Of(x, y)
    [] op = "<"     -> Bool(NumLt(x, y))
    [] op = "<="    -> Bool(NumLe(x, y))
    [] op = ">"     -> Bool(NumLt(y, x))
    [] op = ">="    -> Bool(NumLe(y, x))
    [] op = "=="    -> Bool(NumEq(x, y))
    [] op = "!="    -> Bool(~NumEq(x, y))
    [] op = "&&"    -> Bool(Truthy(x) /\ Truthy(y))
    [] op = "||"    -> Bool(Truthy(x) \/ Truthy(y))
Apply1 == [op \in UnaryOps |-> [x \in Floats |-> Apply1Of(op, x)]]
Apply2 == [op \in BinaryOps |-> [x \in Floats |-> [y \in Floats |-> Apply2Of(op, x, y)]]]
Choose(c, a, b) == IF Truthy(c) THEN a ELSE b
=============================================================================
