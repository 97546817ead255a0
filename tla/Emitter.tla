------------------------------- MODULE Emitter -------------------------------
(* The code generator: a bundle of expressions becomes one function in C,    *)
(* Rust or Python, with a temporary for every inner node read more than      *)
(* once.  The function's text is a sequence of tokens.  Layout is left out,  *)
(* and so is how a language spells a call, a conditional or a binding: these *)
(* are `name(...)`, `if(c, a, b)` and `let`.  Running the text reads it back *)
(* by the precedence the three languages share and gives each token the      *)
(* meaning its language gives it, which is not always this program's.        *)
EXTENDS Syntax

Langs == {"C", "Rust", "Python"}
Comparisons == {"<", "<=", ">", ">=", "==", "!="}
Connectives == {"&&", "||", "not"}
Call(name, args) == <<name, "(">> \o args \o <<")">>
Call2(name, a, b) == Call(name, a \o <<",">> \o b)
InBrackets(toks) == <<"(">> \o toks \o <<")">>

\* Reads of a node: by its parents, and by the outputs.
UsesOf(b, i) ==
  RefCount(b.expr, Reachable(b.expr, Range(b.outs)), i)
  + Cardinality({k \in DOMAIN b.outs : b.outs[k] = i})
\* The nodes given a name, in order.  A sole output is what is returned.
Bound(b) ==
  Increasing({i \in Reachable(b.expr, Range(b.outs)) :
     /\ b.expr[i].kids # <<>>
     /\ UsesOf(b, i) > 1
     /\ ~(Len(b.outs) = 1 /\ i = b.outs[1])})

\* How a language calls an operation that none of them writes as an operator.
CallName(lang, op) ==
  IF op \in {"min", "max", "sign"} THEN "helper_" \o op
  ELSE LET name == CASE op = "^" -> "pow" [] op = "/" -> "div" [] OTHER -> op
       IN  IF lang = "Python" /\ op \notin {"abs", "atan2"} THEN "py_" \o name ELSE name

\* A literal at full precision, NaN by the target's name for it.
Literal(v) == IF v = NaN THEN <<"nan">> ELSE Displayed(v)

RECURSIVE Render(_, _, _, _, _), NativeBool(_, _, _, _), TruthOf(_, _, _, _)
Render(lang, e, names, i, parent) ==
  LET n == e[i]
      text(k, prec) == Render(lang, e, names, n.kids[k], prec)
      infix(prec)   == Bracketed(prec < parent,
                                 text(1, prec) \o <<n.op>> \o text(2, prec + 1))
  IN  IF i \in DOMAIN names THEN <<names[i]>>
      ELSE CASE IsConst(n) -> Literal(n.val)
             [] IsVar(n)   -> <<n.op>>
             [] n.op \in {"+", "-"} -> infix(5)
             [] n.op = "*" \/ (n.op = "/" /\ lang # "Python") -> infix(6)
             [] n.op = "neg" -> Bracketed(8 < parent, <<"-">> \o text(1, 8))
             [] n.op \in Comparisons \cup Connectives ->
                  Call("float", NativeBool(lang, e, names, i))
             [] n.op = "if" ->
                  \* In Rust it is a statement's text, and binds loosest.
                  Bracketed(lang = "Rust" /\ 1 < parent,
                    Call2("if", TruthOf(lang, e, names, n.kids[1]),
                          text(2, 0) \o <<",">> \o text(3, 0)))
             [] n.op = "d" -> <<"0">>
             [] Len(n.kids) = 1 /\ n.op \notin {"neg", "not"} ->
                  Call(CallName(lang, n.op), text(1, 0))
             [] n.op \in {"^", "min", "max", "atan2"} \/ (n.op = "/" /\ lang = "Python") ->
                  Call2(CallName(lang, n.op), text(1, 0), text(2, 0))

\* A comparison or a connective as the language's own boolean, and any value
\* tested for being neither zero nor NaN.
NativeBool(lang, e, names, i) ==
  LET n == e[i] IN
  CASE n.op \in Comparisons ->
         Render(lang, e, names, n.kids[1], 4) \o <<n.op>> \o Render(lang, e, names, n.kids[2], 5)
    [] n.op \in {"&&", "||"} ->
         InBrackets(TruthOf(lang, e, names, n.kids[1])) \o <<n.op>>
         \o InBrackets(TruthOf(lang, e, names, n.kids[2]))
    [] n.op = "not" -> <<"!">> \o InBrackets(TruthOf(lang, e, names, n.kids[1]))
TruthOf(lang, e, names, i) ==
  IF i \notin DOMAIN names /\ e[i].op \in Comparisons \cup Connectives
  THEN NativeBool(lang, e, names, i)
  ELSE LET v == Render(lang, e, names, i, 10)
       IN  InBrackets(v \o <<"!=", "0", "&&", "!">> \o Call("isnan", v))

\* The function for output k: the bindings, then what it returns.
Emit(b, lang, k) ==
  LET bound     == Bound(b)
      before(p) == [i \in {bound[q] : q \in 1..p - 1} |->
                      TempName((CHOOSE q \in DOMAIN bound : bound[q] = i) - 1)]
      lets      == FoldLeft(LAMBDA toks, p :
                       toks \o <<"let", TempName(p - 1), "=">>
                       \o Render(lang, b.expr, before(p), bound[p], 0) \o <<"in">>,
                     <<>>, [p \in DOMAIN bound |-> p])
  IN  lets \o Render(lang, b.expr, before(Len(bound) + 1), b.outs[k], 0)
----------------------------------------------------------------------------
(* What the emitted text computes: the helpers it defines, and the           *)
(* operations of its language.                                               *)
CTruth(x) == ~IsZero(x)                      \* NaN counts as true
BothTrue(p, q) == Bool(CTruth(p) /\ CTruth(q))
OneTrue(p, q) == Bool(CTruth(p) \/ CTruth(q))

HelperMin(a, b) ==
  IF a = NaN THEN b ELSE IF b = NaN THEN a
  ELSE IF NumEq(a, b) THEN (IF Negative(a) THEN a ELSE b)
  ELSE IF NumLt(a, b) THEN a ELSE b
HelperMax(a, b) ==
  IF a = NaN THEN b ELSE IF b = NaN THEN a
  ELSE IF NumEq(a, b) THEN (IF Negative(a) THEN b ELSE a)
  ELSE IF NumLt(b, a) THEN a ELSE b
(* Mutant of HelperSign: two comparisons alone, which NaN makes zero. *)
SignOfComparisons(a) == Apply2["-"][Bool(NumLt(Zero, a))][Bool(NumLt(a, Zero))]

\* (a > 0.0) - (a < 0.0)
HelperSign(a) ==
  IF a = NaN THEN a
  ELSE Apply2["-"][Bool(NumLt(Zero, a))][Bool(NumLt(a, Zero))]

\* Python's own operations raise where these wrappers answer; its floor and
\* ceil give integers, which have one zero.
Integral(x) == IF IsZero(x) THEN Zero ELSE x
PyDiv(a, b) ==
  IF NumLt(b, Zero) \/ NumLt(Zero, b) \/ b = NaN THEN Apply2["/"][a][b]
  ELSE IF a = NaN \/ IsZero(a) THEN NaN
  ELSE Signed(Negative(a) # Negative(b), Inf)
PySqrt(a) == IF a = NaN \/ NumLt(a, Zero) THEN NaN ELSE Apply1["sqrt"][a]
PyLog(a)  == IF a = NaN \/ NumLt(a, Zero) THEN NaN
             ELSE IF IsZero(a) THEN Neg(Inf) ELSE Apply1["ln"][a]
PyTrig(op, a) == IF ~IsFinite(a) THEN NaN ELSE Apply1[op][a]
PyWhole(op, a) == IF ~IsFinite(a) THEN a ELSE Integral(Apply1[op][a])
\* math.pow raises OverflowError where a finite power of finite values is too
\* large and ValueError at a pole and outside the domain.
NegativeResult(a, b) == Negative(a) /\ IsOdd(b)
PyPow(a, b) ==
  LET ieee == Apply2["^"][a][b]
      overflows == IsFinite(a) /\ IsFinite(b) /\ Size(ieee) = Inf /\ ~IsZero(a)
      raises    == IsFinite(a) /\ IsFinite(b) /\ (ieee = NaN \/ Size(ieee) = Inf)
  IN  IF overflows \/ (raises /\ IsZero(a))
      THEN IF NegativeResult(a, b) THEN Neg(Inf) ELSE Inf
      ELSE IF raises THEN NaN ELSE ieee

Means(op, args) ==
  CASE op = "float"       -> args[1]
    [] op = "isnan"       -> Bool(args[1] = NaN)
    [] op = "not"         -> Bool(~CTruth(args[1]))
    [] op = "&&"          -> BothTrue(args[1], args[2])
    [] op = "||"          -> OneTrue(args[1], args[2])
    [] op = "if"          -> IF CTruth(args[1]) THEN args[2] ELSE args[3]
    [] op = "helper_min"  -> HelperMin(args[1], args[2])
    [] op = "helper_max"  -> HelperMax(args[1], args[2])
    [] op = "helper_sign" -> HelperSign(args[1])
    [] op = "py_div"       -> PyDiv(args[1], args[2])
    [] op = "py_sqrt"     -> PySqrt(args[1])
    [] op = "py_ln"       -> PyLog(args[1])
    [] op = "py_exp"      -> Apply1["exp"][args[1]]
    [] op = "py_sin"      -> PyTrig("sin", args[1])
    [] op = "py_cos"      -> PyTrig("cos", args[1])
    [] op = "py_tan"      -> PyTrig("tan", args[1])
    [] op = "py_floor"    -> PyWhole("floor", args[1])
    [] op = "py_ceil"     -> PyWhole("ceil", args[1])
    [] op = "py_pow"       -> PyPow(args[1], args[2])
    [] OTHER              -> Operate(op, args)

WithMeaning(n, env, vals) ==
  Append(vals, CASE IsConst(n) -> n.val
                 [] IsVar(n)   -> env[n.op]
                 [] OTHER      -> Means(n.op, [k \in DOMAIN n.kids |-> vals[n.kids[k]]]))
RECURSIVE MeaningsUpTo(_, _, _)
MeaningsUpTo(e, env, i) ==
  IF i = 0 THEN <<>>
  ELSE WithMeaning(e[i], env, MeaningsUpTo(e, env, i - 1))
\* The functions the text may call, with how many arguments.
TargetCalls ==
  LET one == {"float", "isnan", "helper_sign"} \cup (UnaryOps \ {"neg", "not", "sign"})
             \cup {"py_" \o op : op \in {"sqrt", "ln", "exp", "sin", "cos", "tan", "floor", "ceil"}}
      two == {"pow", "atan2", "helper_min", "helper_max", "py_div", "py_pow"}
  IN  [name \in one \cup two \cup {"if"} |->
         [op    |-> IF name = "pow" THEN "^" ELSE name,
          arity |-> IF name \in one THEN 1 ELSE IF name \in two THEN 2 ELSE 3]]
Computes(text, env)  == MeaningsUpTo(text.expr, env, Len(text.expr))[Root(text.expr)]

\* In C, a minus before a minus is a decrement.
Decrements(b, lang) ==
  /\ lang = "C"
  /\ \E i \in Reachable(b.expr, Range(b.outs)) :
       LET n == b.expr[i]
           k == b.expr[n.kids[1]]
       IN  n.op = "neg" /\ (IF IsConst(k) THEN Negative(k.val)
                            ELSE k.op = "neg" /\ n.kids[1] \notin Range(Bound(b)))
\* In Python, a floor or a ceiling is an integer first, and has one zero.
DropsZeroSign(b, lang, env) ==
  /\ lang = "Python"
  /\ \E i \in Reachable(b.expr, Range(b.outs)) :
       b.expr[i].op \in {"floor", "ceil"} /\ ValuesUpTo(b.expr, env, i)[i] = MinusZero
=============================================================================
