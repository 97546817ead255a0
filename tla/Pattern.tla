-------------------------------- MODULE Pattern --------------------------------
(***************************************************************************)
(* Patterns and e-matching (src/pattern.rs).  A pattern is a sequence of    *)
(* nodes, each after those it refers to, the root last; leaves may be holes, *)
(* the pattern variables.  Matching fills the holes with classes so that the *)
(* pattern denotes a term of a class; it stops for want of steps, and keeps   *)
(* so many substitutions and no more.  Recursion over a pattern is a          *)
(* recursive function of the position in it.                                 *)
(***************************************************************************)
EXTENDS EGraph

CONSTANT Holes      \* the pattern variables, in the order of their symbols

Hole == ToSet(Holes)

HoleRank(h) == CHOOSE k \in DOMAIN Holes : Holes[k] = h

ASSUME HolesAreNoOperators ==
  /\ Holes \in Seq(Hole)
  /\ Hole \cap (Var \cup Number \cup Unary \cup Commutative) = {}
  /\ Unary \cap (Var \cup Number) = {}

\* PatNode, at position k.
PatternNode(k) ==
  [op : Hole \cup Var \cup Number, kids : {<<>>}]
    \cup [op : Unary, kids : {<<i>> : i \in 1 .. k - 1}]
    \cup [op : Commutative, kids : (1 .. k - 1) \X (1 .. k - 1)]

\* What from_expr makes: every node but the root is referred to.
IsPattern(p) ==
  /\ Len(p) \in Nat \ {0} /\ DOMAIN p = 1 .. Len(p)
  /\ \A k \in DOMAIN p : p[k] \in PatternNode(k)
  /\ \A k \in 1 .. Len(p) - 1 : \E j \in DOMAIN p : k \in ToSet(p[j].kids)

IsHole(p, k) == p[k].op \in Hole

HolesOf(p) == {p[k].op : k \in DOMAIN p} \cap Hole

\* size: the operator nodes.
OperatorsUpTo(p, k) == {j \in 1 .. k : ~ IsHole(p, j)}
SizeOf(p) == Cardinality(OperatorsUpTo(p, Len(p)))

Subst == UNION {[filled -> Id] : filled \in SUBSET Hole}

Ranked(s) == InOrderOf(DOMAIN s, LAMBDA g, h : HoleRank(g) < HoleRank(h))

SubstBefore(s, t) ==
  LexBefore([k \in DOMAIN Ranked(s) |-> s[Ranked(s)[k]]],
            [k \in DOMAIN Ranked(t) |-> t[Ranked(t)[k]]])

\* The nodes of a class with one operator: they are sorted, so these are a run.
NodesWith(g, c, op) ==
  InOrderOf({n \in g.nodes[c] : n.op = op}, LAMBDA m, n : LexBefore(m.kids, n.kids))

----------------------------------------------------------------------------
(* Matching.  An outcome is what was found so far and what is left of the    *)
(* budget of the search; short is a ghost: something was dropped for want of  *)
(* room, which the code does not report.  lim has the caps.                   *)

Outcome == [substs : Seq(Subst), steps : Nat, dry : BOOLEAN, short : BOOLEAN]

\* A class to match at, the holes filled so far, and what was found so far.
Call == Id \X Subst \X Outcome

Push(out, s) == [out EXCEPT !.substs = Append(@, s)]

(* Mutant of Binds: a variable that is repeated takes whatever comes. *)
BindsAnew(g, s, h, c) == TRUE

\* A hole that is filled must be filled with the same class again.
Binds(g, s, h, c) == h \notin DOMAIN s \/ Find(g, s[h]) = Find(g, c)

\* Subst::insert, of what is not bound yet.
Bound(g, s, h, c) ==
  [i \in DOMAIN s \cup {h} |-> IF i \in DOMAIN s THEN s[i] ELSE Find(g, c)]

(* Mutant of Turns: a commutative node is read in its stored order. *)
TurnsNever(node) == FALSE

\* A commutative node matches in the other order of its arguments too.
Turns(node) == node.op \in Commutative /\ node.kids[1] # node.kids[2]

\* The frontier: every substitution of it taken on into one argument, with the
\* matcher of the nodes below.
Frontier(below, k, c, at) ==
  LET after[i \in 0 .. Len(at.substs)] ==
        IF i = 0 THEN [at EXCEPT !.substs = <<>>]
        ELSE below[k][<<c, at.substs[i], after[i - 1]>>]
  IN  after[Len(at.substs)]

Capped(out, room) ==
  IF Len(out.substs) > room
  THEN [out EXCEPT !.substs = SubSeq(@, 1, room), !.short = TRUE] ELSE out

\* match_children: the argument patterns one after the other.
MatchChildren(below, pats, args, s, out, lim) ==
  LET after[j \in 0 .. Len(pats)] ==
        IF j = 0 THEN [out EXCEPT !.substs = <<s>>]
        ELSE Frontier(below, pats[j], args[j], after[j - 1])
      met == after[Len(pats)]
  IN  Capped([met EXCEPT !.substs = out.substs \o @], lim.perClass)

\* One node of a class, in both orders if it has two.
MatchENode(below, node, n, s, out, lim) ==
  LET stored == MatchChildren(below, node.kids, n.kids, s, out, lim) IN
  IF out.dry THEN out
  ELSE IF node.kids = <<>> THEN Push(out, s)
  ELSE IF Turns(n)
  THEN MatchChildren(below, node.kids, <<n.kids[2], n.kids[1]>>, s, stored, lim)
  ELSE stored

MatchRun(below, node, run, s, out, lim) ==
  LET after[i \in 0 .. Len(run)] ==
        IF i = 0 THEN out ELSE MatchENode(below, node, run[i], s, after[i - 1], lim)
  IN  after[Len(run)]

\* match_node, given how the nodes below are matched.
MatchNode(g, node, below, c, s, out, lim) ==
  LET spent == [out EXCEPT !.steps = @ - 1] IN
  IF Len(out.substs) >= lim.perClass THEN [out EXCEPT !.short = TRUE]
  ELSE IF out.steps = 0 THEN [out EXCEPT !.dry = TRUE]
  ELSE IF node.op \in Hole
  THEN IF Binds(g, s, node.op, c) THEN Push(spent, Bound(g, s, node.op, c)) ELSE spent
  ELSE MatchRun(below, node, NodesWith(g, Find(g, c), node.op), s, spent, lim)

Matcher(g, p, lim) ==
  LET match[k \in DOMAIN p] ==
        [call \in Call |-> MatchNode(g, p[k], match, call[1], call[2], call[3], lim)]
  IN  match

\* search_eclass_within.
MatchClass(g, p, c, steps, lim) ==
  Matcher(g, p, lim)[Len(p)][<<c, <<>>,
    [substs |-> <<>>, steps |-> steps, dry |-> FALSE, short |-> FALSE]>>]

\* search_capped: the classes with the root operator in turn, until the cap on
\* the whole search or the steps are used up.  A class's substitutions are
\* sorted, and none is there twice.
Candidates(g, p) ==
  Increasing({c \in Classes(g) : \E n \in g.nodes[c] : n.op = p[Len(p)].op})

Listed(c, substs) ==
  [k \in 1 .. Cardinality(substs) |-> [class |-> c, subst |-> InOrderOf(substs, SubstBefore)[k]]]

SearchClass(g, p, c, at, lim) ==
  LET out == MatchClass(g, p, c, at.steps, lim)
      new == ToSet(out.substs)
  IN  IF at.cut \/ at.total >= lim.perSearch \/ at.dry THEN [at EXCEPT !.cut = TRUE]
      ELSE [found |-> at.found \o Listed(c, new),
            total |-> at.total + Cardinality(new),
            steps |-> out.steps, dry |-> out.dry, cut |-> FALSE,
            short |-> at.short \/ out.short]

Reported(at) == [found |-> at.found, cut |-> at.cut \/ at.dry, short |-> at.short]

SearchCapped(g, p, lim) ==
  LET classes == Candidates(g, p)
      after[k \in 0 .. Len(classes)] ==
        IF k = 0
        THEN [found |-> <<>>, total |-> 0, steps |-> lim.steps, dry |-> FALSE, cut |-> FALSE,
              short |-> FALSE]
        ELSE SearchClass(g, p, classes[k], after[k - 1], lim)
  IN  Reported(after[Len(classes)])

----------------------------------------------------------------------------
(* What matching is for.                                                    *)

\* The classes that have a term of each node of the pattern under s.
Denoted(g, p, s) ==
  LET terms[k \in DOMAIN p] ==
        IF IsHole(p, k) THEN {s[p[k].op]}
        ELSE {c \in Classes(g) : \E n \in g.nodes[c] :
                /\ n.op = p[k].op
                /\ \E order \in {<<1, 2>>, <<2, 1>>} :
                     /\ order = <<1, 2>> \/ n.op \in Commutative
                     /\ \A j \in DOMAIN p[k].kids :
                          Find(g, n.kids[order[j]]) \in terms[p[k].kids[j]]}
  IN  terms

\* The pattern under s denotes a term of class c.
Denotes(g, p, s, c) == c \in Denoted(g, p, s)[Len(p)]

AllMatches(g, p) ==
  {[class |-> c, subst |-> s] : c \in Classes(g), s \in [HolesOf(p) -> Classes(g)]}

Meanings(g, p) == {m \in AllMatches(g, p) : Denotes(g, p, m.subst, m.class)}

\* What each node of the pattern is worth if the holes are worth v.
Worths(p, v) ==
  LET worth[k \in DOMAIN p] ==
        IF IsHole(p, k) THEN v[p[k].op]
        ELSE IF p[k].op \in Number THEN p[k].op
        ELSE IF p[k].op \in Var THEN Env[p[k].op]
        ELSE Eval(p[k].op, [j \in DOMAIN p[k].kids |-> worth[p[k].kids[j]]])
  IN  worth

PatternWorth(p, v) == Worths(p, v)[Len(p)]

----------------------------------------------------------------------------
(* Instantiation.  A building is a graph, what its ghosts say of each id,    *)
(* and the id each node of the pattern landed in.                            *)

Built(b, node) ==
  LET n   == Canonical(b.graph, node)
      new == Owners(b.graph, n) = {}
      id  == LandsIn(b.graph, n)
  IN  [graph |-> Added(b.graph, n), ids |-> Append(b.ids, id),
       term  |-> IF new THEN [b.term EXCEPT ![id] = n] ELSE b.term,
       value |-> IF new THEN [b.value EXCEPT ![id] = Worth(b.value, n)] ELSE b.value]

Instantiated(b, p, s) ==
  LET after[k \in 0 .. Len(p)] ==
        IF k = 0 THEN b
        ELSE IF IsHole(p, k)
        THEN [after[k - 1] EXCEPT !.ids = Append(@, s[p[k].op])]
        ELSE Built(after[k - 1],
               [op |-> p[k].op, kids |-> [j \in DOMAIN p[k].kids |-> after[k - 1].ids[p[k].kids[j]]]])
  IN  after[Len(p)]
===============================================================================
