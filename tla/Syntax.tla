------------------------------- MODULE Syntax -------------------------------
(* The surface syntax: the Pratt parser that reads tokens into a hashconsed  *)
(* expression, and the printers that write one back, plain or with a `let`   *)
(* for every subterm used more than once.  Text is a sequence of tokens; how *)
(* characters make a token is left out.                                      *)
EXTENDS Terms

\* The literals of the format, by size.
Literals == <<"0", "0.25", "0.5", "0.75", "1", "1.25", "1.5", "1.75", "2", "2.5",
              "3", "3.5", "4", "5", "6", "7">>
ASSUME LiteralsAssumption == Len(Literals) = Inf

Infix     == [op \in {"+", "-", "*", "/", "^", "<", "<=", ">", ">=", "==", "!=",
                      "&&", "||"} |->
                CASE op = "||" -> 1 [] op = "&&" -> 2 [] op \in {"==", "!="} -> 3
                  [] op \in {"<", "<=", ">", ">="} -> 4 [] op \in {"+", "-"} -> 5
                  [] op \in {"*", "/"} -> 6 [] op = "^" -> 8]
UnaryPrec == 7
OpCalled(name) == CASE name = "log" -> "ln" [] name = "diff" -> "d" [] name = "pow" -> "^"
                    [] OTHER -> name
SourceCalls == [name \in (UnaryOps \ {"not"})
                          \cup {"log", "min", "max", "atan2", "if", "d", "diff", "pow"} |->
                  [op |-> OpCalled(name), arity |-> Arity(OpCalled(name))]]
NamedConstants == [name \in {"pi", "inf", "nan"} |->
                     CASE name = "pi" -> Pi [] name = "inf" -> Inf [] OTHER -> NaN]
Punctuation == DOMAIN Infix \cup {"!", "(", ")", ",", "=", "eof"}
IsPattern(tok) == SubSeq(tok, 1, 1) = "?"
IsName(tok) == tok \notin Punctuation \cup Range(Literals) /\ ~IsPattern(tok)
----------------------------------------------------------------------------
(* The parser: the tokens left to read, the expression so far, the names in  *)
(* scope (innermost last), the node just read, whether all is well, and what *)
(* each name that is called stands for.                                      *)
Peek(p)      == IF p.toks = <<>> THEN "eof" ELSE Head(p.toks)
Bump(p)      == [p EXCEPT !.toks = IF @ = <<>> THEN @ ELSE Tail(@)]
Failed(p)    == [p EXCEPT !.ok = FALSE]
Expect(p, tok) == IF p.ok /\ Peek(p) = tok THEN Bump(p) ELSE Failed(p)
Build(p, node) == LET add == Added(p.expr, node)
                  IN  [p EXCEPT !.expr = add.expr, !.id = add.id]
Operation(p, op, kids) == IF p.ok THEN Build(p, [op |-> op, val |-> Zero, kids |-> kids]) ELSE p

RECURSIVE ParseExpr(_, _), ParseMore(_, _), ParsePrefix(_), ParseArgs(_, _)
ParseExpr(p, minPrec) == ParseMore(ParsePrefix(p), minPrec)

ParseMore(p, minPrec) ==
  LET op == Peek(p) IN
  IF ~p.ok \/ op \notin DOMAIN Infix THEN p
  ELSE IF Infix[op] < minPrec THEN p
  ELSE LET rhs == ParseExpr(Bump(p), IF op = "^" THEN Infix[op] ELSE Infix[op] + 1)
       IN  ParseMore(Operation(rhs, op, <<p.id, rhs.id>>), minPrec)

\* -<literal> is folded into a negative literal.
ParseNegation(p) ==
  LET e == ParseExpr(Bump(p), UnaryPrec) IN
  IF ~e.ok THEN e
  ELSE IF IsConst(e.expr[e.id]) THEN Build(e, Const(Neg(e.expr[e.id].val)))
  ELSE Operation(e, "neg", <<e.id>>)

ParseArgs(p, args) ==
  LET arg == ParseExpr(p, 0)
      all == Append(args, arg.id)
  IN  IF arg.ok /\ Peek(arg) = "," THEN ParseArgs(Bump(arg), all)
      ELSE [after |-> Expect(arg, ")"), args |-> all]

ParseCall(p, call) ==
  LET none == Peek(p) = ")"
      read == IF none THEN [after |-> Bump(p), args |-> <<>>] ELSE ParseArgs(p, <<>>)
      q    == read.after
  IN  IF \/ ~q.ok
         \/ Len(read.args) # call.arity
         \/ call.op = "d" /\ ~IsVar(q.expr[read.args[1]])
      THEN Failed(q)
      ELSE Operation(q, call.op, read.args)

ParseLet(p) ==
  LET name  == Peek(p)
      bound == ParseExpr(Expect(Bump(p), "="), 0)
      inner == [Expect(bound, "in") EXCEPT !.scope = Append(@, <<name, bound.id>>)]
      body  == ParseExpr(inner, 0)
  IN  IF ~IsName(name) THEN Failed(p) ELSE [body EXCEPT !.scope = p.scope]

ParseName(p) ==
  LET name  == Peek(p)
      q     == Bump(p)
      binds == {i \in DOMAIN p.scope : p.scope[i][1] = name}
  IN  CASE name = "let"      -> ParseLet(q)
        [] name = "in"       -> Failed(q)
        [] name # "let" /\ name # "in" /\ Peek(q) = "(" ->
             IF name \in DOMAIN p.calls THEN ParseCall(Bump(q), p.calls[name]) ELSE Failed(q)
        [] OTHER ->
             IF binds # {} THEN [q EXCEPT !.id = p.scope[Max(binds)][2]]
             ELSE IF name \in DOMAIN NamedConstants
                  THEN Build(q, Const(NamedConstants[name]))
             ELSE Build(q, Var(name))

ParsePrefix(p) ==
  LET tok == Peek(p) IN
  CASE ~p.ok      -> p
    [] p.ok /\ tok = "-" -> ParseNegation(p)
    [] p.ok /\ tok = "+" -> ParseExpr(Bump(p), UnaryPrec)
    [] p.ok /\ tok = "!" -> LET e == ParseExpr(Bump(p), UnaryPrec)
                            IN  Operation(e, "not", <<e.id>>)
    [] p.ok /\ tok = "(" -> Expect(ParseExpr(Bump(p), 0), ")")
    [] p.ok /\ tok \in Range(Literals) ->
         Build(Bump(p), Const((CHOOSE i \in DOMAIN Literals : Literals[i] = tok) - 1))
    [] p.ok /\ IsPattern(tok) -> Build(Bump(p), Var(tok))
    [] p.ok /\ IsName(tok) -> ParseName(p)
    [] OTHER -> Failed(p)

Reading(toks, calls) ==
  [toks |-> toks, calls |-> calls, expr |-> <<>>, scope |-> <<>>, id |-> 0, ok |-> TRUE]
Refused == [ok |-> FALSE, expr |-> <<>>]
ParseWith(toks, calls) ==
  LET p == Expect(ParseExpr(Reading(toks, calls), 0), "eof")
  IN  IF p.ok THEN [ok |-> TRUE, expr |-> Compact(p.expr, p.id)] ELSE Refused
Parse(toks) == ParseWith(toks, SourceCalls)
----------------------------------------------------------------------------
(* The printers.                                                             *)
(* Mutant of Bracketed: an operand is written as it stands. *)
Unbracketed(paren, toks) == toks
Bracketed(paren, toks) == IF paren THEN <<"(">> \o toks \o <<")">> ELSE toks

Displayed(v) ==
  IF v = NaN THEN <<"NaN">>
  ELSE (IF Negative(v) THEN <<"-">> ELSE <<>>)
       \o <<IF Size(v) = Inf THEN "inf" ELSE Literals[Size(v) + 1]>>

RECURSIVE WriteInfix(_, _, _, _), WriteArgs(_, _, _)
WriteInfix(e, i, parent, names) ==
  LET n     == e[i]
      prec  == IF n.op \in {"neg", "not"} THEN UnaryPrec ELSE Infix[n.op]
      left  == IF n.op = "^" THEN prec + 1 ELSE prec
      right == IF n.op = "^" THEN prec ELSE prec + 1
  IN  CASE i \in DOMAIN names -> <<names[i]>>
        [] i \notin DOMAIN names /\ IsConst(n) ->
             Bracketed(NumLt(n.val, Zero) /\ parent > 0, Displayed(n.val))
        [] i \notin DOMAIN names /\ IsVar(n) -> <<n.op>>
        [] i \notin DOMAIN names /\ n.op \in {"neg", "not"} ->
             Bracketed(prec < parent,
               <<IF n.op = "neg" THEN "-" ELSE "!">> \o WriteInfix(e, n.kids[1], prec, names))
        [] i \notin DOMAIN names /\ Len(n.kids) = 2 /\ n.op \in DOMAIN Infix ->
             Bracketed(prec < parent,
               WriteInfix(e, n.kids[1], left, names) \o <<n.op>>
               \o WriteInfix(e, n.kids[2], right, names))
        [] OTHER -> <<n.op, "(">> \o WriteArgs(e, n.kids, names) \o <<")">>
WriteArgs(e, kids, names) ==
  IF Len(kids) = 1 THEN WriteInfix(e, kids[1], 0, names)
  ELSE WriteInfix(e, kids[1], 0, names) \o <<",">> \o WriteArgs(e, Tail(kids), names)

NoNames == [i \in {} |-> ""]
Pretty(e) == WriteInfix(e, Root(e), 0, NoNames)

TempName(k) == "t" \o ToString(k)
\* The inner nodes used more than once, and the name each is bound to.
SharedIds(e) == {i \in Reachable(e, {Root(e)}) :
                   /\ RefCount(e, Reachable(e, {Root(e)}), i) > 1
                   /\ e[i].kids # <<>>
                   /\ i # Root(e)}
SharedNames(e) == [i \in SharedIds(e) |-> TempName(Cardinality({j \in SharedIds(e) : j < i}))]
RECURSIVE WriteLets(_, _, _)
WriteLets(e, ids, names) ==
  IF ids = <<>> THEN WriteInfix(e, Root(e), 0, names)
  ELSE <<"let", names[Head(ids)], "=">>
       \o WriteInfix(e, Head(ids), 0, [j \in DOMAIN names \ {Head(ids)} |-> names[j]])
       \o <<"in">> \o WriteLets(e, Tail(ids), names)
PrettyShared(e) == WriteLets(e, Increasing(SharedIds(e)), SharedNames(e))
=============================================================================
