------------------------------ MODULE RealValues ------------------------------
(* What an expression means over the real numbers, which is what the fast     *)
(* rules and the derivatives are held to: an exact value and an exact slope   *)
(* along one variable, each of which may be undefined, and whether the value  *)
(* is constant nearby.  A real is a fraction in lowest terms; one with a part *)
(* beyond MaxPart counts as undefined.  exp and ln are powers of two and back,*)
(* sine and cosine those of the 3-4-5 triangle's angle times a whole number:  *)
(* they satisfy every identity of the real ones, and are exact.               *)
EXTENDS Terms

MaxPart   == 10000
Undefined == <<0, 0>>
Defined(q) == q # Undefined
RECURSIVE Gcd(_, _)
Gcd(a, b) == IF b = 0 THEN a ELSE Gcd(b, a % b)
Fraction(n, d) ==
  IF d = 0 THEN Undefined
  ELSE LET sign == IF d < 0 THEN -1 ELSE 1
           g    == Gcd(IF n < 0 THEN -n ELSE n, sign * d)
           q    == <<(sign * n) \div g, (sign * d) \div g>>
       IN  IF q[1] \in -MaxPart..MaxPart /\ q[2] <= MaxPart THEN q ELSE Undefined
Whole(n) == <<n, 1>>
Real(x)  == IF IsFinite(x) THEN Fraction(Value(x), Unit) ELSE Undefined

Plus(p, q)  == IF Defined(p) /\ Defined(q)
               THEN Fraction(p[1] * q[2] + q[1] * p[2], p[2] * q[2]) ELSE Undefined
Prod(p, q)  == IF Defined(p) /\ Defined(q)
               THEN Fraction(p[1] * q[1], p[2] * q[2]) ELSE Undefined
Minus(p)    == IF Defined(p) THEN <<-p[1], p[2]>> ELSE Undefined
Less(p, q)  == p[1] * q[2] < q[1] * p[2]
Over(p, q)  == IF Defined(p) /\ Defined(q)
               THEN Fraction(p[1] * q[2], p[2] * q[1]) ELSE Undefined
SignOfReal(p) == IF p[1] = 0 THEN 0 ELSE IF p[1] < 0 THEN -1 ELSE 1

RECURSIVE ToThe(_, _)
ToThe(p, n) == IF n = 0 THEN Whole(1)
               ELSE IF n < 0 THEN Over(Whole(1), ToThe(p, -n))
               ELSE Prod(p, ToThe(p, n - 1))
Root2(n)    == {r \in 0..100 : r * r = n}
RootOf(p)   ==
  IF ~Defined(p) \/ p[1] < 0 \/ Root2(p[1]) = {} \/ Root2(p[2]) = {} THEN Undefined
  ELSE <<CHOOSE r \in Root2(p[1]) : TRUE, CHOOSE r \in Root2(p[2]) : TRUE>>
Power(p, q) ==
  IF ~Defined(p) \/ ~Defined(q) THEN Undefined
  ELSE IF q[2] = 1 THEN ToThe(p, q[1])
  ELSE IF q[2] = 2 /\ Defined(RootOf(p)) THEN ToThe(RootOf(p), q[1]) ELSE Undefined
Expo(p)     == IF Defined(p) /\ p[2] = 1 THEN ToThe(Whole(2), p[1]) ELSE Undefined
Twos        == [k \in -12..12 |-> Expo(Whole(k))]
Logs(p)     == {k \in DOMAIN Twos : Twos[k] = p}
Logarithm(p) == IF ~Defined(p) \/ Logs(p) = {} THEN Undefined
                ELSE Whole(CHOOSE k \in Logs(p) : TRUE)

\* The sine and cosine of n times the angle, together.
RECURSIVE Turned(_)
Turned(n) ==
  IF n = 0 THEN [sin |-> Whole(0), cos |-> Whole(1)]
  ELSE IF n < 0 THEN [Turned(-n) EXCEPT !.sin = Minus(@)]
  ELSE LET t == Turned(n - 1)
       IN  [sin |-> Plus(Prod(t.sin, <<3, 5>>), Prod(t.cos, <<4, 5>>)),
            cos |-> Plus(Prod(t.cos, <<3, 5>>), Minus(Prod(t.sin, <<4, 5>>)))]
Sine(p)   == IF Defined(p) /\ p[2] = 1 THEN Turned(p[1]).sin ELSE Undefined
Cosine(p) == IF Defined(p) /\ p[2] = 1 THEN Turned(p[1]).cos ELSE Undefined
----------------------------------------------------------------------------
(* Values with slopes.                                                       *)
Dual(v, s, flat) == [v |-> v, s |-> s, flat |-> flat]
Steady(v)        == Dual(v, Whole(0), TRUE)
Holds(b)         == Whole(IF b THEN 1 ELSE 0)
IsTrue(p)        == p.v[1] # 0
\* Whether something is zero or not stays as it is nearby.
Keeps(p)         == p.flat \/ (IsTrue(p) /\ Defined(p.s))
\* A function of p that changes in jumps only.
Stepwise(v, off) == IF off THEN Steady(v) ELSE Dual(v, Undefined, FALSE)

Dual1(op, p) ==
  LET Chain(v, by) == Dual(v, IF p.flat THEN Whole(0) ELSE Prod(by, p.s), p.flat)
      between      == p.flat \/ (p.v[2] # 1 /\ Defined(p.s))
  IN
  IF ~Defined(p.v) THEN Dual(Undefined, Undefined, FALSE)
  ELSE CASE op = "neg"  -> Chain(Minus(p.v), Whole(-1))
         [] op = "sqrt" -> Chain(RootOf(p.v), Over(Whole(1), Prod(Whole(2), RootOf(p.v))))
         [] op = "ln"   -> Chain(Logarithm(p.v),
                                 IF p.v[1] > 0 THEN Over(Whole(1), p.v) ELSE Undefined)
         [] op = "exp"  -> Chain(Expo(p.v), Expo(p.v))
         [] op = "sin"  -> Chain(Sine(p.v), Cosine(p.v))
         [] op = "cos"  -> Chain(Cosine(p.v), Minus(Sine(p.v)))
         [] op = "tan"  -> Chain(Over(Sine(p.v), Cosine(p.v)),
                                 Over(Whole(1), Prod(Cosine(p.v), Cosine(p.v))))
         [] op = "abs"  -> Chain(IF p.v[1] < 0 THEN Minus(p.v) ELSE p.v,
                                 IF IsTrue(p) THEN Whole(SignOfReal(p.v)) ELSE Undefined)
         [] op = "sign" -> Stepwise(Whole(SignOfReal(p.v)), Keeps(p))
         [] op = "not"  -> Stepwise(Holds(~IsTrue(p)), Keeps(p))
         [] op = "floor" -> Stepwise(Whole(p.v[1] \div p.v[2]), between)
         [] op = "ceil"  -> Stepwise(Whole(-((-p.v[1]) \div p.v[2])), between)

Dual2(op, p, q) ==
  LET flat  == p.flat /\ q.flat
      smooth == Defined(p.s) /\ Defined(q.s)
      apart == flat \/ (p.v # q.v /\ smooth)
      Lesser(a, b) ==
        LET less == IF Less(a.v, b.v) THEN a ELSE b
        IN  IF smooth /\ (a.v # b.v \/ a.s = b.s) THEN Dual(less.v, less.s, flat)
            ELSE Dual(less.v, Undefined, flat)
  IN
  IF op = "atan2"
  THEN Dual(Undefined, Over(Plus(Prod(q.v, p.s), Minus(Prod(p.v, q.s))),
                            Plus(Prod(p.v, p.v), Prod(q.v, q.v))), FALSE)
  ELSE IF ~Defined(p.v) \/ ~Defined(q.v) THEN Dual(Undefined, Undefined, FALSE)
  ELSE CASE op = "+"   -> Dual(Plus(p.v, q.v), Plus(p.s, q.s), flat)
         [] op = "-"   -> Dual(Plus(p.v, Minus(q.v)), Plus(p.s, Minus(q.s)), flat)
         [] op = "*"   -> Dual(Prod(p.v, q.v), Plus(Prod(p.s, q.v), Prod(p.v, q.s)), flat)
         [] op = "/"   -> Dual(Over(p.v, q.v),
                               Over(Plus(Prod(p.s, q.v), Minus(Prod(p.v, q.s))), Prod(q.v, q.v)),
                               flat)
         [] op = "^"   -> Dual(Power(p.v, q.v),
                            IF flat THEN Whole(0)
                            ELSE LET down == Prod(Prod(q.v, Power(p.v, Plus(q.v, Whole(-1)))), p.s)
                                     up   == Prod(Prod(Power(p.v, q.v), Logarithm(p.v)), q.s)
                                 IN  IF q.flat THEN IF q.v[1] = 0 THEN Whole(0) ELSE down
                                     ELSE IF p.v[1] > 0 THEN Plus(down, up) ELSE Undefined,
                            flat)
         [] op = "min" -> Lesser(p, q)
         [] op = "max" -> LET less == Lesser(Dual1("neg", p), Dual1("neg", q))
                          IN  Dual(Minus(less.v), Minus(less.s), less.flat)
         [] op = "<"   -> Stepwise(Holds(Less(p.v, q.v)), apart)
         [] op = "<="  -> Stepwise(Holds(~Less(q.v, p.v)), apart)
         [] op = ">"   -> Stepwise(Holds(Less(q.v, p.v)), apart)
         [] op = ">="  -> Stepwise(Holds(~Less(p.v, q.v)), apart)
         [] op = "=="  -> Stepwise(Holds(p.v = q.v), apart)
         [] op = "!="  -> Stepwise(Holds(p.v # q.v), apart)
         [] op = "&&"  -> Stepwise(Holds(IsTrue(p) /\ IsTrue(q)), Keeps(p) /\ Keeps(q))
         [] op = "||"  -> Stepwise(Holds(IsTrue(p) \/ IsTrue(q)), Keeps(p) /\ Keeps(q))
DualIf(c, p, q) ==
  IF ~Defined(c.v) THEN Dual(Undefined, Undefined, FALSE)
  ELSE LET taken == IF IsTrue(c) THEN p ELSE q
       IN  IF Keeps(c) THEN taken ELSE Dual(taken.v, Undefined, FALSE)

\* Along the variable `by`; an inner derivative by it is the slope found there.
RECURSIVE DualsUpTo(_, _, _, _)
DualsUpTo(e, env, by, i) ==
  IF i = 0 THEN <<>>
  ELSE LET duals == DualsUpTo(e, env, by, i - 1)
           n     == e[i]
           k(a)  == duals[n.kids[a]]
       IN  Append(duals,
             CASE IsConst(n)         -> Steady(Real(n.val))
               [] IsVar(n)           -> IF n.op = by THEN Dual(Real(env[n.op]), Whole(1), FALSE)
                                        ELSE Steady(Real(env[n.op]))
               [] n.op = "d"         -> Dual(k(2).s, Undefined, FALSE)
               [] n.op = "if"        -> DualIf(k(1), k(2), k(3))
               [] n.op \in UnaryOps  -> Dual1(n.op, k(1))
               [] n.op \in BinaryOps -> Dual2(n.op, k(1), k(2)))
RealValue(e, env, by) == DualsUpTo(e, env, by, Len(e))[Root(e)].v
=============================================================================
