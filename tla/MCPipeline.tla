------------------------------ MODULE MCPipeline ------------------------------
(* The sources for TLC: every rule's left side with its variables filled in, *)
(* under the assumptions that meet its side conditions and others that do    *)
(* not; texts for the parser, the printers and the machine; bundles.         *)
EXTENDS Pipeline

Case(texts, said) == [texts |-> texts, said |-> said]
Holes(r) == {n.op : n \in {m \in Range(r.lhs) : IsHole(m)}}
Bare(hole) == SubSeq(hole, 2, Len(hole))
Fill(r, with) ==
  FlattenSeq([k \in DOMAIN r.written |->
                IF IsPattern(r.written[k]) THEN with[r.written[k]] ELSE <<r.written[k]>>])

Plain(r) == [h \in Holes(r) |-> <<Bare(h)>>]
Rooted(r) == [h \in Holes(r) |-> <<"sqrt", "(", Bare(h), ")">>]
Tested(r) == [h \in Holes(r) |-> <<"(", Bare(h), "<", "1", ")">>]
\* In a derivative the operands depend on x.
Along(r) == {[h \in Holes(r) |->
                CASE h = "?x" -> <<"x">>
                  [] h \in {"?a", "?f"} -> <<"(">> \o Words("x * y") \o <<")">>
                  [] h = "?b" -> <<"(">> \o Words(b) \o <<")">>
                  [] h = "?c" -> Words("( x < y )")
                  [] h = "?e" -> Words("( y + 2 )")
                  [] h = "?g" -> Words(g)] : b \in {"x - y", "y"}, g \in {"2", "y", "x"}}

\* What may be said of one variable, and of each of two.
Saying(v) ==
  {<<Words(c)>> : c \in {v \o " > 0", v \o " < 0", "0 <= " \o v, "finite ( " \o v \o " )",
                         "nonzero ( " \o v \o " )", v \o " == 2", "0 == " \o v}}
  \cup {<<Words("finite ( " \o v \o " )"), Words("nonzero ( " \o v \o " )")>>}
SayingTwo(v, w) ==
  {a \o b : a \in {<<>>, <<Words(v \o " < 0")>>, <<Words(v \o " >= 0")>>, <<Words("nonzero ( " \o v \o " )")>>},
            b \in {<<>>, <<Words(w \o " < 0")>>, <<Words(w \o " > 0")>>, <<Words(w \o " <= 0")>>}}
  \cup {<<Words(v \o " == 2"), Words(w \o " == 2")>>, <<Words(v \o " == 2"), Words(w \o " > 0")>>}
SayingAll(names) ==
  LET n == Cardinality(names)
      v == CHOOSE x \in names : TRUE
      w == CHOOSE x \in names \ {v} : TRUE
  IN  IF n = 1 THEN Saying(v)
      ELSE IF n = 2 THEN SayingTwo(v, w)
      ELSE UNION {Saying(x) : x \in names}
           \cup {<<Words(x \o " == 2"), Words(y \o " == 2")>> : x, y \in names}

FromRule(r) ==
  IF r \in Differentiation
  THEN {Case(<<Fill(r, with)>>, <<>>) : with \in Along(r)}
  ELSE {Case(<<Fill(r, with)>>, said) :
          with \in {Plain(r), Rooted(r)} \cup (IF \E l \in LogicSafe : l.name = r.name THEN {Tested(r)} ELSE {}),
          said \in {<<>>} \cup IF r.guard = {} THEN {} ELSE SayingAll({Bare(h) : h \in Holes(r)})}

Texts == {
  "let s = x * y in s + s * s", "- x ^ 2", "( - x ) ^ 2", "- ( - x )", "x - ( y - x )",
  "x / ( y / x )", "x ^ y ^ 2", "( x ^ y ) ^ 2", "x ^ 5", "x ^ 2 ^ 2",
  "if ( x < y && ! y , x , y )", "if ( x , y , - y )", "! x || y", "( x < y ) == ( y < x )",
  "min ( x , max ( y , 0 ) ) - sign ( x )", "floor ( x ) + ceil ( y )", "log ( x ) + pow ( x , 2 )",
  "sqrt ( x * x + y * y ) / ( sqrt ( x * x + y * y ) + 1 )",
  "( x + y ) * ( x - y ) + ( x + y ) / ( x - y )", "( x * x + 1 ) * ( x * x - 1 ) + x * x",
  "2 + 3 * pi", "let x = 2 in x + y", "let a = x in let a = a + 1 in a * a", "- 2 ^ 2", "2 ^ - 1",
  "x - - 1", "inf - x", "- 0 + x", "( - 0 ) ^ x", "nan + x", "( t0 + x ) * ( t0 + x ) + t0",
  "exp ( ln ( x ) ) * atan2 ( x , y )", "abs ( sin ( x ) ) / cos ( x )",
  "x * x - x * x / ( 1 + x * x )", "if ( x + y , x + y , 1 )", "if ( x , x , x ) * x",
  "( x < 1 ) + ( x < 1 ) * y", "let d = 1 in d + d ( x , x )", "+ x * ( + 2 )",
  "max ( sqrt ( x ) , - 1 ) < 0", "min ( sqrt ( x ) , y ) - x",
  "( ( x + 1 ) * ( x + 2 ) ) * ( ( x + 3 ) * ( y + 1 ) )"}
Refusals == {"x +", "d ( 1 , x )", "min ( x )", "let x = 1 x", "foo ( x )", "( x", "x )", "in"}
Bundles == {<<"x * cos ( z ) - y * sin ( z )", "x * sin ( z ) + y * cos ( z )">>,
            <<"x + y", "( x + y ) * 2", "x">>, <<"x / y", "x / y">>,
            <<"! ( x < y )", "if ( ! ( x < y ) , x , 0 )">>}
Sayings == {<<"x > 0", "x <= 2">>, <<"- 1 <= x", "x != 0">>, <<"x > 1", "x < 0">>, <<"x >= - inf">>,
            <<"2 > x", "finite ( x )">>, <<"x != 1">>, <<"finite ( 1 )">>, <<"x <">>, <<"x == 0.5">>}

MCCases ==
  UNION {FromRule(r) : r \in Safe \cup FastMath \cup Differentiation}
  \cup {Case(<<Words(t)>>, <<>>) : t \in Texts \cup Refusals}
  \cup {Case([k \in DOMAIN b |-> Words(b[k])], <<>>) : b \in Bundles}
  \cup {Case(<<<<"x">>>>, [k \in DOMAIN s |-> Words(s[k])]) : s \in Sayings}
=============================================================================
