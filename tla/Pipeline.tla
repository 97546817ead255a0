------------------------------- MODULE Pipeline -------------------------------
(* From source text to a result: saturn reads one expression or a bundle of   *)
(* several, takes what the caller assumes of the variables, rewrites by a rule*)
(* at the root, and then runs the expression, emits code for it or prints it. *)
(* One rewrite here is what the e-graph records as one union: which of them   *)
(* are found, and what is extracted in the end, is in Saturation.             *)
EXTENDS Rules, RealValues, Compiler, Emitter

CONSTANT Cases          \* [texts, said]: the sources, and the constraints

VARIABLES stage,        \* how far the source has come
          given,        \* the case
          bundle,       \* what was read: the expressions and their outputs
          facts,        \* what is assumed of each variable
          expr,         \* the expression, as read or as rewritten
          tier,         \* which rules the last rewrite is of
          prog, results,    \* the compiled program, and what a batch gave
          output          \* what was printed, or emitted for each output
vars == <<stage, given, bundle, facts, expr, tier, prog, results, output>>

\* The arguments a program is tried on: fewer for each of many variables.
Sample(n) ==
  IF n <= 1 THEN Floats
  ELSE IF n = 2
       THEN {NaN, Inf, Neg(Inf), Zero, MinusZero, 1, Neg(1), One, Neg(One), Two,
             Neg(Two), Inf - 1, Neg(Inf - 1)}
       ELSE IF n = 3 THEN {NaN, Inf, Zero, MinusZero, One, Two, Neg(Two)}
            ELSE {NaN, Zero, MinusZero, One, Neg(Two)}
EnvsOf(names) == [names -> Sample(Cardinality(names))]
\* The same arguments as the rows of a table.
Rows(names) ==
  LET n      == Cardinality(names)
      vals   == Increasing(Sample(n))
      column == CHOOSE f \in [names -> 0..n - 1] : \A x, y \in names : f[x] = f[y] => x = y
  IN  [k \in 1..Len(vals)^n |->
         [x \in names |-> vals[1 + (((k - 1) \div (Len(vals)^column[x])) % Len(vals))]]]
SaidOf(case)  == FlattenSeq([i \in DOMAIN case.said |->
                    IF i = 1 THEN case.said[i] ELSE <<",">> \o case.said[i]])
Nothing == [ok |-> FALSE]
NoFacts == [x \in {} |-> TOP]
----------------------------------------------------------------------------
Init ==
  /\ given \in Cases
  /\ stage = "given" /\ tier = "none"
  /\ bundle = [expr |-> <<>>, outs |-> <<>>]
  /\ facts = NoFacts /\ expr = <<>> /\ prog = Nothing /\ results = <<>> /\ output = <<>>

\* Each line on its own, and then all of them over shared nodes.
Read ==
  LET read == [k \in DOMAIN given.texts |-> Parse(given.texts[k])] IN
  /\ stage = "given"
  /\ IF \A k \in DOMAIN read : read[k].ok
     THEN /\ stage' = "read"
          /\ bundle' = BundleOf([k \in DOMAIN read |-> read[k].expr])
          /\ expr' = read[1].expr
     ELSE /\ stage' = "refused"
          /\ UNCHANGED <<bundle, expr>>
  /\ UNCHANGED <<given, facts, tier, prog, results, output>>

Assume ==
  LET read == Facts(SaidOf(given)) IN
  /\ stage = "read" /\ Len(bundle.outs) = 1
  /\ IF read.ok THEN stage' = "assumed" /\ facts' = read.facts
                ELSE stage' = "refused" /\ UNCHANGED facts
  /\ UNCHANGED <<given, bundle, expr, tier, prog, results, output>>

Rewrite ==
  LET data == Analysed(expr, facts, TRUE) IN
  /\ stage = "assumed"
  /\ \/ \E r \in Safe : \E s \in Matches(r, expr, data) :
          expr' = Built(r, expr, s) /\ tier' = "safe"
     \/ \E r \in FastMath \cup Differentiation : \E s \in Matches(r, expr, data) :
          expr' = Built(r, expr, s) /\ tier' = "fast"
     \/ \E e \in ExpandPow(expr, data) : expr' = e /\ tier' = "fast"
  /\ stage' = "rewritten"
  /\ UNCHANGED <<given, bundle, facts, prog, results, output>>

CompileIt ==
  /\ stage \in {"read", "rewritten"}
  /\ prog' = Compile(expr)
  /\ stage' = IF prog'.ok THEN "compiled" ELSE "refused"
  /\ UNCHANGED <<given, bundle, facts, expr, tier, results, output>>

Batch ==
  /\ stage = "compiled"
  /\ results' = EvalBatch(prog, Rows(prog.params))
  /\ stage' = "ran"
  /\ UNCHANGED <<given, bundle, facts, expr, tier, prog, output>>

EmitFor(lang) ==
  /\ stage = "read" /\ ~HasDerivative(bundle.expr)
  /\ output' = [k \in DOMAIN bundle.outs |-> Emit(bundle, lang, k)]
  /\ stage' = lang
  /\ UNCHANGED <<given, bundle, facts, expr, tier, prog, results>>

WriteOut(shared) ==
  /\ stage \in {"read", "rewritten"}
  /\ output' = <<IF shared THEN PrettyShared(expr) ELSE Pretty(expr)>>
  /\ stage' = "printed"
  /\ UNCHANGED <<given, bundle, facts, expr, tier, prog, results>>

Next ==
  \/ Read \/ Assume \/ Rewrite \/ CompileIt \/ Batch
  \/ \E lang \in Langs : EmitFor(lang)
  \/ \E shared \in BOOLEAN : WriteOut(shared)
Spec == Init /\ [][Next]_vars
----------------------------------------------------------------------------
SourceVars == Vars(bundle.expr, Range(bundle.outs))
\* The arguments that are as the caller says.
Allowed == {env \in EnvsOf(SourceVars) :
              \A i \in DOMAIN given.said : Meets(env, given.said[i])}
\* A variable one side does not mention is not asked for.
Same(e, f) == \A env \in Allowed : Eval(e, env) = Eval(f, env)
\* No minimum or maximum of something that may be NaN: see the finding.
MinMaxOfNumbers ==
  LET data == Analysed(bundle.expr, facts, TRUE) IN
  \A i \in Ids(bundle.expr) : bundle.expr[i].op \in {"min", "max"} =>
     \A k \in Kids(bundle.expr[i]) : ~data[k].range.nan

\* A safe rule, applied where its side conditions hold, keeps the double bit
\* for bit whatever the arguments the caller allows: signed zeros, infinities
\* and NaN included (rules/mod.rs, "safe").
RewritesPreserve ==
  stage = "rewritten" /\ tier = "safe" /\ MinMaxOfNumbers => Same(expr, bundle.expr)

\* A fast rule or a derivative is right over the real numbers: where both sides
\* have a value they have the same one.
RealRulesHold ==
  stage = "rewritten" /\ tier = "fast" =>
    \A env \in Allowed :
      LET was == RealValue(bundle.expr, env, "x")
          is  == RealValue(expr, env, "x")
      IN  Defined(was) /\ Defined(is) => was = is

\* The same without the exception (README.md: "safe rules preserve the exact
\* IEEE-754 result for every input").
SafeMeansExact ==
  stage = "rewritten" /\ tier = "safe" => Same(expr, bundle.expr)

\* The interval of every node holds every value the node can take (interval.rs:
\* "the concrete result of an operation is always inside the abstract result").
RangesHold ==
  stage = "assumed" /\ MinMaxOfNumbers /\ ~HasDerivative(expr) =>
    LET data == Analysed(expr, facts, TRUE) IN
    \A env \in Allowed :
      LET vals == Values(expr, env) IN
      \A i \in Ids(expr) :
        /\ Admits(data[i].range, vals[i])
        /\ \A v \in data[i].known : v = vals[i]

\* The facts are the constraints: a value they admit is one the constraints
\* allow, and the other way round, but for an infinite bound, which an open
\* comparison does not exclude, and for constraints nothing meets.
FactsMean ==
  stage = "assumed" =>
    \A x \in DOMAIN facts : \A v \in Floats :
      LET env     == [y \in {x} |-> v]
          about   == {i \in DOMAIN given.said : x \in Range(given.said[i])}
          meets(w) == \A i \in about : Meets([y \in {x} |-> w], given.said[i])
      IN  /\ meets(v) => Admits(facts[x], v)
          /\ Admits(facts[x], v) /\ IsFinite(v) /\ (\E w \in Floats : meets(w)) => meets(v)

\* The machine gives what the interpreter gives, every row of a batch that runs
\* on the slots the row before has used.
ProgramAgrees ==
  stage = "ran" =>
    LET rows == Rows(prog.params)
    IN  \A k \in DOMAIN rows : results[k] = Eval(expr, rows[k])

\* Shared nodes are named t0, t1, ..., also where the source has such a name.
Captures(e) == \E x \in Vars(e, Ids(e)), k \in 0..Len(e) : x = TempName(k)
\* NaN is printed as a name that reads as a variable, and -0 as a base without
\* the brackets that other negative bases get.
PrintsAnotherThing(e) ==
  \E i \in Ids(e) : \/ IsConst(e[i]) /\ e[i].val = NaN
                    \/ e[i].op = "^" /\ e[e[i].kids[1]] = Const(MinusZero)

\* Emitted code computes what the interpreter computes, in each language
\* (codegen.rs: "Semantics are preserved exactly"), but for three cases: a minus
\* before a minus in C, the sign of a zero that Python's floor and ceil lose, and
\* a variable named like a temporary.
EmittedAgrees ==
  stage \in Langs /\ ~Decrements(bundle, stage) /\ ~Captures(bundle.expr) =>
    \A k \in DOMAIN bundle.outs :
      LET code == ParseWith(output[k], TargetCalls) IN
      /\ code.ok
      /\ \A env \in EnvsOf(SourceVars) :
           ~DropsZeroSign(bundle, stage, env) =>
             Computes(code, env) = ValuesUpTo(bundle.expr, env, bundle.outs[k])[bundle.outs[k]]

\* What is printed, with or without `let`, reads back as the same function.
PrintReadsBack ==
  stage = "printed" /\ ~PrintsAnotherThing(expr) /\ ~Captures(expr) =>
    LET again == Parse(output[1]) IN
    /\ again.ok
    /\ HasDerivative(expr) \/ \A env \in EnvsOf(Vars(expr, {Root(expr)})) :
                                Eval(again.expr, env) = Eval(expr, env)
=============================================================================
