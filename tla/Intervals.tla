------------------------------- MODULE Intervals -------------------------------
(* The interval analysis: what is known of a value without running anything, *)
(* as bounds that are rounded outward, with two flags for what no range can  *)
(* say: that it may be NaN, and that it is known not to be zero.             *)
EXTENDS Terms

Between(lo, hi) == [lo |-> lo, hi |-> hi, nan |-> FALSE, nonzero |-> FALSE]
REAL      == Between(Neg(Inf), Inf)
TOP       == [REAL EXCEPT !.nan = TRUE]
BOOL      == Between(Zero, One)
New(a, b) == Between(MinOf(a, b), MaxOf(b, a))
Point(x)  == IF x = NaN
             THEN [lo |-> Inf, hi |-> Neg(Inf), nan |-> TRUE, nonzero |-> FALSE]
             ELSE [Between(x, x) EXCEPT !.nonzero = ~IsZero(x)]
NonZero(r)    == [r EXCEPT !.nonzero = TRUE]
WithNan(r, b) == [r EXCEPT !.nan = b]
WidenLo(x)    == IF IsFinite(x) THEN NextDown(x) ELSE x
WidenHi(x)    == IF IsFinite(x) THEN NextUp(x) ELSE x

IsBottom(r)   == NumLt(r.hi, r.lo)
\* What the side conditions of the rules ask.
FiniteRange(r)   == ~r.nan /\ IsFinite(r.lo) /\ IsFinite(r.hi)
NonZeroRange(r)  == ~r.nan /\ (NumLt(Zero, r.lo) \/ NumLt(r.hi, Zero) \/ r.nonzero)
(* Mutant of PositiveRange: a range that touches zero will do. *)
PositiveOrZero(r) == ~r.nan /\ NumLe(Zero, r.lo)
PositiveRange(r) == ~r.nan /\ (NumLt(Zero, r.lo) \/ (NumLe(Zero, r.lo) /\ r.nonzero))
NegativeRange(r) == ~r.nan /\ (NumLt(r.hi, Zero) \/ (NumLe(r.hi, Zero) /\ r.nonzero))
NonNegRange(r)   == ~r.nan /\ NumLe(Zero, r.lo)
ZeroRange(r)     == ~r.nan /\ IsZero(r.lo) /\ IsZero(r.hi)
\* The single finite value a range pins down.
IsPoint(r)       == ~r.nan /\ NumEq(r.lo, r.hi) /\ IsFinite(r.lo)

\* Two facts about one value, and one fact about either of two.
Meet(r, s) ==
  LET lo == MaxOf(r.lo, s.lo)
      hi == MinOf(r.hi, s.hi)
  IN  IF NumLt(hi, lo) THEN TOP
      ELSE [lo |-> lo, hi |-> hi, nan |-> r.nan /\ s.nan, nonzero |-> r.nonzero \/ s.nonzero]
Join(r, s) == [lo |-> MinOf(r.lo, s.lo), hi |-> MaxOf(r.hi, s.hi),
               nan |-> r.nan \/ s.nan, nonzero |-> r.nonzero /\ s.nonzero]
----------------------------------------------------------------------------
Unbounded(r)   == r.lo = Neg(Inf) \/ r.hi = Inf
HasZero(r)     == NumLe(r.lo, Zero) /\ NumLe(Zero, r.hi)
LoOr(x)        == IF x = NaN THEN Neg(Inf) ELSE x
HiOr(x)        == IF x = NaN THEN Inf ELSE x

NegRange(r) ==
  IF IsBottom(r) THEN WithNan(TOP, r.nan) ELSE [r EXCEPT !.lo = Neg(r.hi), !.hi = Neg(r.lo)]
AddRange(r, s) ==
  IF IsBottom(r) \/ IsBottom(s) THEN TOP
  ELSE [lo  |-> LoOr(WidenLo(AddOf(r.lo, s.lo))), hi |-> HiOr(WidenHi(AddOf(r.hi, s.hi))),
        nan |-> \/ r.nan \/ s.nan
                \/ r.lo = Neg(Inf) /\ s.hi = Inf
                \/ r.hi = Inf /\ s.lo = Neg(Inf),
        nonzero |-> FALSE]

\* The outermost of the corners that are numbers.
Corners(r, s, Of(_, _)) ==
  {Of(r.lo, s.lo), Of(r.lo, s.hi), Of(r.hi, s.lo), Of(r.hi, s.hi)} \ {NaN}
Hull(points, nan) ==
  IF points = {} THEN TOP
  ELSE WithNan(Between(WidenLo(CHOOSE p \in points : \A q \in points : p <= q),
                       WidenHi(CHOOSE p \in points : \A q \in points : q <= p)), nan)
MulRange(r, s) ==
  IF IsBottom(r) \/ IsBottom(s) THEN TOP
  ELSE Hull(Corners(r, s, MulOf),
            r.nan \/ s.nan \/ (HasZero(r) /\ Unbounded(s)) \/ (HasZero(s) /\ Unbounded(r)))
DivRange(r, s) ==
  LET nan == \/ r.nan \/ s.nan \/ (Unbounded(r) /\ Unbounded(s))
             \/ HasZero(s) /\ HasZero(r)
  IN  IF IsBottom(r) \/ IsBottom(s) THEN TOP
      ELSE IF HasZero(s) THEN WithNan(TOP, nan)
      ELSE Hull(Corners(r, s, DivOf), nan)

AbsRange(r) ==
  IF IsBottom(r) THEN WithNan(TOP, r.nan)
  ELSE [r EXCEPT !.lo = IF HasZero(r) THEN Zero ELSE MinOf(AbsOf(r.lo), AbsOf(r.hi)),
                 !.hi = MaxOf(AbsOf(r.lo), AbsOf(r.hi))]
(* Mutant of SqrtRange: a negative argument is forgotten. *)
SqrtRangeOfNumbers(r) ==
  IF IsBottom(r) THEN TOP
  ELSE [lo  |-> MaxOf(WidenLo(SqrtOf(MaxOf(r.lo, Zero))), Zero),
        hi  |-> WidenHi(SqrtOf(MaxOf(r.hi, Zero))), nan |-> r.nan, nonzero |-> r.nonzero]
SqrtRange(r) ==
  IF IsBottom(r) THEN TOP
  ELSE [lo  |-> MaxOf(WidenLo(SqrtOf(MaxOf(r.lo, Zero))), Zero),
        hi  |-> WidenHi(SqrtOf(MaxOf(r.hi, Zero))),
        nan |-> r.nan \/ NumLt(r.lo, Zero), nonzero |-> r.nonzero]
ExpRange(r) ==
  IF IsBottom(r) THEN TOP
  ELSE WithNan(Between(MaxOf(WidenLo(ExpOf(r.lo)), Zero), WidenHi(ExpOf(r.hi))), r.nan)
LnRange(r) ==
  LET low(x)  == IF NumLe(x, Zero) THEN Neg(Inf) ELSE WidenLo(LnOf(x))
      high(x) == IF NumLe(x, Zero) THEN Neg(Inf) ELSE WidenHi(LnOf(x))
  IN  IF IsBottom(r) THEN TOP
      ELSE WithNan(Between(low(r.lo), high(r.hi)), r.nan \/ NumLt(r.lo, Zero))
TrigRange(r) == WithNan(Between(Neg(One), One), ~FiniteRange(r))
WholeRange(r, up) == WithNan(Between(WholeOf(r.lo, up), WholeOf(r.hi, up)), r.nan)
SignRange(r) == [r EXCEPT !.lo = SignOf(@), !.hi = SignOf(@)]

\* The bounds are the operands' bounds, whichever of them may be NaN.
MinRange(r, s) == [lo |-> MinOf(r.lo, s.lo), hi |-> MinOf(r.hi, s.hi),
                   nan |-> r.nan /\ s.nan, nonzero |-> r.nonzero /\ s.nonzero]
MaxRange(r, s) == [lo |-> MaxOf(r.lo, s.lo), hi |-> MaxOf(r.hi, s.hi),
                   nan |-> r.nan /\ s.nan, nonzero |-> r.nonzero /\ s.nonzero]

RECURSIVE Times(_, _)
Times(r, n) == IF n = 1 THEN r ELSE MulRange(Times(r, n - 1), r)
PowRange(r, s) ==
  LET e    == s.lo
      n    == Value(e) \div Unit
      even == (n % 2) = 0
      inv  == Times(r, -n)
      quot == DivRange(Point(One), IF even THEN AbsRange(inv) ELSE inv)
  IN  IF ~IsPoint(s) THEN TOP
      ELSE IF IsZero(e) THEN Point(One)
      ELSE IF e = One THEN r
      ELSE IF IsWhole(e) /\ n > 0
           THEN WithNan(Times(IF even THEN AbsRange(r) ELSE r, n), r.nan)
      ELSE IF IsWhole(e) THEN WithNan(quot, r.nan \/ quot.nan)
      ELSE IF NonNegRange(r) THEN WithNan(Between(Zero, Inf), r.nan)
      ELSE TOP
----------------------------------------------------------------------------
(* The analysis of one node from those of its children: the value it must    *)
(* have, if it folds to a finite one, and its range.                         *)
Transcendental == {"ln", "exp", "sin", "cos", "tan", "^", "atan2"}
FoldsTo(n, data, folds) ==
  IF IsConst(n) THEN {n.val}
  ELSE IF \/ IsVar(n) \/ n.op = "d"
          \/ n.op \in Transcendental /\ ~folds
          \/ \E k \in Kids(n) : data[k].known = {}
       THEN {}
       ELSE {Operate(n.op, [k \in DOMAIN n.kids |-> CHOOSE v \in data[n.kids[k]].known : TRUE])}
            \ {Inf, Neg(Inf), NaN}

RangeOf(n, data, facts) ==
  LET r(k) == data[n.kids[k]].range IN
  CASE IsConst(n)     -> Point(n.val)
    [] IsVar(n)       -> IF n.op \in DOMAIN facts THEN facts[n.op] ELSE TOP
    [] n.op = "+"     -> AddRange(r(1), r(2))
    [] n.op = "-"     -> AddRange(r(1), NegRange(r(2)))
    [] n.op = "*"     -> MulRange(r(1), r(2))
    [] n.op = "/"     -> DivRange(r(1), r(2))
    [] n.op = "^"     -> PowRange(r(1), r(2))
    [] n.op = "min"   -> MinRange(r(1), r(2))
    [] n.op = "max"   -> MaxRange(r(1), r(2))
    [] n.op = "atan2" -> WithNan(Between(Neg(Pi), Pi), r(1).nan \/ r(2).nan)
    [] n.op = "neg"   -> NegRange(r(1))
    [] n.op = "sqrt"  -> SqrtRange(r(1))
    [] n.op = "ln"    -> LnRange(r(1))
    [] n.op = "exp"   -> ExpRange(r(1))
    [] n.op \in {"sin", "cos"} -> TrigRange(r(1))
    [] n.op = "abs"   -> AbsRange(r(1))
    [] n.op = "sign"  -> SignRange(r(1))
    [] n.op = "floor" -> WholeRange(r(1), FALSE)
    [] n.op = "ceil"  -> WholeRange(r(1), TRUE)
    [] n.op = "if"    -> Join(r(2), r(3))
    [] n.op \in {"tan", "d"} -> TOP
    [] n.op \in {"<", "<=", ">", ">=", "==", "!=", "&&", "||", "not"} -> BOOL

Datum(known, range) ==
  [known |-> known,
   range |-> IF known = {} THEN range ELSE Meet(range, Point(CHOOSE v \in known : TRUE))]
Made(n, data, facts, folds) ==
  Append(data, Datum(FoldsTo(n, data, folds), RangeOf(n, data, facts)))
RECURSIVE AnalysedUpTo(_, _, _, _)
AnalysedUpTo(e, facts, folds, i) ==
  IF i = 0 THEN <<>> ELSE Made(e[i], AnalysedUpTo(e, facts, folds, i - 1), facts, folds)
Analysed(e, facts, folds) == AnalysedUpTo(e, facts, folds, Len(e))
Admits(r, v) ==
  IF v = NaN THEN r.nan
  ELSE NumLe(r.lo, v) /\ NumLe(v, r.hi) /\ ~(r.nonzero /\ IsZero(v))
=============================================================================
