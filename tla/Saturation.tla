------------------------------ MODULE Saturation ------------------------------
(***************************************************************************)
(* The saturation loop of src/runner.rs: every pass searches all rules in a   *)
(* graph that does not change, applies what was found, and rebuilds.  It      *)
(* stops when a pass changes nothing and no rule is banned, or at a limit.    *)
(* Rules are those of src/rewrite.rs; the scheduler is BackoffScheduler.  The *)
(* graph, its rebuild and the matcher are those of EGraph and Pattern.        *)
(***************************************************************************)
EXTENDS Pattern

\* The reasons a run may stop for, None where it goes on.
ASSUME NoneIsNoReason == None \notin {"passes", "nodes", "time", "saturated"}

CONSTANTS
  Problems,    \* what a run may be asked: [start, rules, limits]
  MaxShift     \* the cap on the doublings of a rule's limits

\* Rewrite::new refuses a left side that is a bare variable, and a right side with
\* a variable the left side has not.
IsRule(r) ==
  /\ IsPattern(r.lhs) /\ ~ IsHole(r.lhs, Len(r.lhs))
  /\ IsPattern(r.rhs) /\ HolesOf(r.rhs) \subseteq HolesOf(r.lhs)
  /\ r.needs \subseteq HolesOf(r.lhs)

\* The limits of Runner and BackoffScheduler, and the constants of the code.
IsLimits(l) ==
  /\ \A k \in {"passes", "nodes", "matches", "ban", "perClass", "perSearch", "steps"} :
       l[k] \in Nat
  /\ l.checkEvery \in Nat \ {0} /\ l.timed \in BOOLEAN

ASSUME ProblemsAreRules ==
  /\ MaxShift \in Nat
  /\ \A p \in Problems :
       /\ IsPattern(p.start) /\ HolesOf(p.start) = {} /\ SizeOf(p.start) <= CallerIds
       /\ IsLimits(p.limits)
       /\ p.rules \in Seq(Range(p.rules)) /\ \A r \in Range(p.rules) : IsRule(r)

\* A rule is an identity: its sides are worth the same wherever its condition
\* holds.  Either every operator has a value, or the rules hold where one has none.
RulesHoldOver(worths) ==
  /\ \A op \in Unary : \A x \in worths : Eval(op, <<x>>) \in worths
  /\ \A op \in Commutative : \A x, y \in worths : Eval(op, <<x, y>>) \in worths
  /\ \A p \in Problems : \A r \in Range(p.rules) : \A v \in [Hole -> worths] :
       (\A h \in r.needs : v[h] # None) => PatternWorth(r.lhs, v) = PatternWorth(r.rhs, v)

ASSUME RulesAreIdentities == RulesHoldOver(Number) \/ RulesHoldOver(Known)

VARIABLES
  problem,    \* the rules and limits of this run
  root,       \* the class the caller asked about
  step,       \* where the loop is
  pass,       \* the index of the pass
  rule,       \* the next rule to search
  found,      \* the matches of each rule, in order, still to apply
  since,      \* matches of a rule applied since the budget was last looked at
  unions,     \* of this pass
  before,     \* classes and nodes when it began
  banned,     \* of each rule: until which pass, and how often
  late,       \* the time limit is past
  exhausted,  \* the reason this pass is the last, or None
  reason,     \* stop_reason
  unseen      \* ghost: some match of this pass was not handed on

runVars == <<problem, root, step, pass, rule, found, since, unions, before, banned, late,
             exhausted, reason, unseen>>
allVars == <<vars, runVars>>

Rules == problem.rules
Limits == problem.limits
RuleIds == DOMAIN Rules

NodesOf(g) == UNION {{<<c, n>> : n \in g.nodes[c]} : c \in Classes(g)}
Nodes(g) == Cardinality(NodesOf(g))
Extent(g) == <<Cardinality(Classes(g)), Nodes(g)>>

----------------------------------------------------------------------------
(* What the loop asks.                                                      *)

\* out_of_budget.
Spent == IF late THEN "time" ELSE IF Nodes(graph) > Limits.nodes THEN "nodes" ELSE None

\* check_limits.
LimitAt ==
  IF pass >= Limits.passes THEN "passes"
  ELSE IF Nodes(graph) > Limits.nodes THEN "nodes"
  ELSE IF late THEN "time" ELSE None

\* x << n.
ShiftedLeft(x, n) ==
  LET by[k \in 0 .. n] == IF k = 0 THEN x ELSE 2 * by[k - 1] IN by[n]

\* BackoffScheduler: the threshold and the ban double with every ban.
Shift(r) == IF banned[r].times > MaxShift THEN MaxShift ELSE banned[r].times
Threshold(r) == ShiftedLeft(Limits.matches, Shift(r))
BanLength(r) == ShiftedLeft(Limits.ban, Shift(r))

StillBanned == {r \in RuleIds : banned[r].until > pass}

(* Mutant of CanStop: a rule that is still banned does not keep the loop going. *)
CanStopAnyway == TRUE

CanStop == StillBanned = {}

----------------------------------------------------------------------------
(* The graph the caller hands over, and the pieces of a pass.               *)

StartingFrom(e) ==
  Instantiated([graph |-> EmptyGraph, ids |-> <<>>,
                term |-> [i \in Id |-> <<>>], value |-> [i \in Id |-> None]], e, <<>>)

RInit ==
  /\ problem \in Problems
  /\ LET made == StartingFrom(problem.start) IN
     /\ graph = made.graph /\ term = made.term /\ value = made.value /\ root = Last(made.ids)
  /\ phase = "congruence" /\ rounds = 0 /\ todo = {} /\ repairing = 0 /\ left = {} /\ seen = {}
  /\ queue = <<>> /\ forced = {} /\ changed = {} /\ fuel = 0 /\ curtailed = FALSE
  /\ step = "first" /\ pass = 0 /\ rule = 1 /\ found = <<>> /\ since = 0 /\ unions = 0
  /\ before = <<0, 0>>
  /\ banned = [r \in RuleIds |-> [until |-> 0, times |-> 0]]
  /\ late = FALSE /\ exhausted = None /\ reason = None /\ unseen = FALSE

(* Mutant of Stop: the reason is written down, and the loop not left. *)
StopOnPaper(why) ==
  /\ reason' = why
  /\ step' = "check"
  /\ UNCHANGED <<vars, problem, root, pass, rule, found, since, unions, before, banned, late,
                 exhausted, unseen>>

Stop(why) ==
  /\ reason' = why
  /\ step' = "last"
  /\ Rebuild
  /\ UNCHANGED <<problem, root, pass, rule, found, since, unions, before, banned, late,
                 exhausted, unseen>>

BeginPass ==
  /\ step = "check"
  /\ \/ LimitAt # None /\ Stop(LimitAt)
     \/ /\ LimitAt = None
        /\ step' = "search" /\ rule' = 1 /\ unions' = 0
        /\ before' = Extent(graph)
        /\ exhausted' = None
        /\ unseen' = FALSE
        /\ UNCHANGED <<vars, problem, root, pass, found, since, banned, late, reason>>

\* The search of one rule that is not banned, and what the scheduler makes of it:
\* over the threshold nothing is handed on and the rule is banned, for no pass at
\* all if the bans have no length.
SearchRule ==
  LET got   == SearchCapped(graph, Rules[rule].lhs, Limits)
      over  == Len(got.found) > Threshold(rule)
      entry == IF over \/ got.found = <<>> THEN <<>> ELSE <<[rule |-> rule, matches |-> got.found]>>
  IN  /\ step = "search" /\ rule \in RuleIds /\ Spent = None
      /\ pass >= banned[rule].until
      /\ found' = found \o entry
      /\ banned' = IF over
                   THEN [banned EXCEPT ![rule] =
                           [until |-> pass + BanLength(rule), times |-> @.times + 1]]
                   ELSE banned
      /\ unseen' = (unseen \/ got.cut \/ got.short \/ (over /\ BanLength(rule) = 0))
      /\ rule' = rule + 1
      /\ UNCHANGED <<vars, problem, root, step, pass, since, unions, before, late, exhausted,
                     reason>>

SkipBanned ==
  /\ step = "search" /\ rule \in RuleIds /\ Spent = None
  /\ pass < banned[rule].until
  /\ rule' = rule + 1
  /\ UNCHANGED <<vars, problem, root, step, pass, found, since, unions, before, banned, late,
                 exhausted, reason, unseen>>

EndSearch ==
  /\ step = "search"
  /\ rule \notin RuleIds \/ Spent # None
  /\ exhausted' = IF rule \in RuleIds THEN Spent ELSE None
  /\ step' = "apply"
  /\ since' = 0
  /\ UNCHANGED <<vars, problem, root, pass, rule, found, unions, before, banned, late, reason,
                 unseen>>

RuleOf(k) == [by |-> "rule", rule |-> k]

\* A condition of a rule asks the facts of the classes a hole is filled with.
Holds(g, needs, s) == \A h \in needs : g.fact[Find(g, s[h])] # None

(* Mutant of Budgeted: the budget is looked at between rules only. *)
BudgetedLater(n) == n

\* since_check, which starts over when the budget has been looked at.
Budgeted(n) == IF n >= Limits.checkEvery THEN 0 ELSE n

\* One match of the rule at the head: its right side is added and joined with
\* the class that was matched.  Every so often the budget is looked at.  The bound
\* on ids is never met: a run that met it would not end.
ApplyMatch ==
  LET head  == Head(found)
      m     == Head(head.matches)
      r     == Rules[head.rule]
      begin == [graph |-> graph, ids |-> <<>>, term |-> term, value |-> value]
      holds == Holds(graph, r.needs, m.subst)
      made  == IF holds THEN Instantiated(begin, r.rhs, m.subst) ELSE begin
      g     == IF holds
               THEN United(made.graph, m.class, Last(made.ids), RuleOf(head.rule)) ELSE graph
      now   == Budgeted(since + 1)
      stop  == now = 0 /\ (late \/ Nodes(g) > Limits.nodes)
  IN  /\ step = "apply" /\ found # <<>> /\ head.matches # <<>>
      /\ graph.made + SizeOf(r.rhs) <= CallerIds
      /\ graph' = g
      /\ phase' = IF g = graph THEN phase ELSE "dirty"
      /\ term' = made.term /\ value' = made.value
      /\ unions' = unions + (IF g = made.graph THEN 0 ELSE 1)
      /\ since' = now
      /\ found' = [found EXCEPT ![1].matches = IF stop THEN <<>> ELSE Tail(@)]
      /\ UNCHANGED <<rebuildVars, curtailed, problem, root, step, pass, rule, before, banned,
                     late, exhausted, reason, unseen>>

\* A rule's matches are done: out of budget, those of the rules after it are
\* dropped.
EndRule ==
  LET full == IF Nodes(graph) > 2 * Limits.nodes THEN "nodes" ELSE Spent IN
  /\ step = "apply" /\ found # <<>> /\ Head(found).matches = <<>>
  /\ exhausted' = IF full # None THEN full ELSE exhausted
  /\ found' = IF full # None THEN <<>> ELSE Tail(found)
  /\ since' = 0
  /\ UNCHANGED <<vars, problem, root, step, pass, rule, unions, before, banned, late, reason,
                 unseen>>

EndApply ==
  /\ step = "apply" /\ found = <<>>
  /\ step' = "rebuild"
  /\ Rebuild
  /\ UNCHANGED <<problem, root, pass, rule, found, since, unions, before, banned, late,
                 exhausted, reason, unseen>>

----------------------------------------------------------------------------
(* rebuild, in one of the orders its worklists may have: the first parent, and *)
(* parents told of a fact in the order of their ids.                          *)

Rebuilding == step \in {"first", "rebuild", "last"}

RebuildOn ==
  /\ Rebuilding
  /\ \/ TakePending
     \/ \E i \in todo : BeginRepair(i)
     \/ left # {} /\ RepairParent(CHOOSE p \in left : TRUE)
     \/ EndRepair
     \/ BeginFacts
     \/ queue # <<>> /\ PopClass(Increasing(Untold))
     \/ EndFacts
     \/ \E i \in changed : Modify(i)
     \/ NextRound
     \/ Finish
  /\ UNCHANGED runVars

----------------------------------------------------------------------------
(* The end of a pass.                                                       *)

Progressed == unions > 0 \/ Extent(graph) # before

NextPass ==
  /\ step' = "check"
  /\ pass' = pass + 1
  /\ UNCHANGED <<vars, problem, root, rule, found, since, unions, before, late, exhausted,
                 reason, unseen>>

Lifted == [r \in RuleIds |-> [banned[r] EXCEPT !.until = IF @ > pass THEN pass ELSE @]]

EndPass ==
  /\ step = "rebuild" /\ phase = "clean"
  /\ \/ exhausted # None /\ Stop(exhausted)
     \/ exhausted = None /\ Progressed /\ NextPass /\ UNCHANGED banned
     \/ exhausted = None /\ ~ Progressed /\ CanStop /\ Stop("saturated")
     \/ exhausted = None /\ ~ Progressed /\ ~ CanStop /\ NextPass /\ banned' = Lifted

Begin ==
  /\ step = "first" /\ phase = "clean"
  /\ step' = "check"
  /\ UNCHANGED <<vars, problem, root, pass, rule, found, since, unions, before, banned, late,
                 exhausted, reason, unseen>>

Done ==
  /\ step = "last" /\ phase = "clean"
  /\ step' = "done"
  /\ UNCHANGED <<vars, problem, root, pass, rule, found, since, unions, before, banned, late,
                 exhausted, reason, unseen>>

TimePasses ==
  /\ Limits.timed /\ ~ late /\ step \in {"search", "apply"}
  /\ late' = TRUE
  /\ UNCHANGED <<vars, problem, root, step, pass, rule, found, since, unions, before, banned,
                 exhausted, reason, unseen>>

Loop ==
  \/ Begin \/ BeginPass
  \/ SearchRule \/ SkipBanned \/ EndSearch
  \/ ApplyMatch \/ EndRule \/ EndApply
  \/ RebuildOn
  \/ EndPass \/ Done

Ended == step = "done" /\ UNCHANGED allVars

RNext == Loop \/ TimePasses \/ Ended

\* Weak fairness of Loop, one call that runs to its end: a step of it is enabled
\* until it is done, or the check for deadlock fails.
Fairness == []<><<Loop>>_allVars \/ <>[](step = "done")

RSpec == RInit /\ [][RNext]_allVars /\ Fairness

----------------------------------------------------------------------------
(* What must hold of it.                                                    *)

IsExact(got, all) ==
  /\ ToSet(got.found) \subseteq all
  /\ ~ got.cut /\ ~ got.short => ToSet(got.found) = all

\* Wherever nothing was cut short, a search finds what the pattern means and
\* nothing else: every way to fill the holes with classes that makes it a term of
\* a class, the other order of a commutative operator included, one class for a
\* hole that is repeated; a budget that runs out loses matches and invents none
\* (search_capped, match_node, match_children).
MatchesAreMeant ==
  step = "search" /\ rule \in RuleIds =>
    IsExact(SearchCapped(graph, Rules[rule].lhs, Limits), Meanings(graph, Rules[rule].lhs))

\* No pass joins terms that are worth different things: rules are applied to
\* what they matched, in the class where they matched it, although the graph
\* changes from one match to the next (ApplyMatch of the matches SearchRule froze).
ClassesHoldOneValue == \A i \in Made(graph) : value[i] = value[Find(graph, i)]

\* A run that calls itself saturated is closed under its rules: each match of
\* each rule has its right side in the class of the left, whatever was banned on
\* the way, unless matches were cut off (runner.rs:23-24, 210-212).
SaturatedIsClosed ==
  step = "done" /\ reason = "saturated" /\ ~ unseen =>
    \A r \in RuleIds : \A m \in Meanings(graph, Rules[r].lhs) :
      Holds(graph, Rules[r].needs, m.subst)
        => Denotes(graph, Rules[r].rhs, m.subst, m.class)

\* A rule that explodes is stopped near the node limit: past it by no more than
\* the matches between two looks at the budget can add (runner.rs:435-456).
StaysNearTheLimit ==
  step = "apply" /\ found # <<>> =>
    Nodes(graph) <= Limits.nodes + Limits.checkEvery * SizeOf(Rules[Head(found).rule].rhs)

\* The loop ends, whatever is banned and however often the graph grows.
RunEnds == <>(step = "done")
===============================================================================
