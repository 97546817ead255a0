------------------------------- MODULE Compiler -------------------------------
(* The compiler of saturn and its register machine: operands that are all    *)
(* known at compile time fold away, every other node is one instruction, and *)
(* the slot of a value nobody reads any more is handed to the next one.  The *)
(* machine may be given a slot array that an earlier run has left dirty.     *)
EXTENDS Terms

\* Pass one: the compile-time value of each node that has one.
KnownValues(e) ==
  LET Fold(known, i) ==
        LET n == e[i] IN
        IF IsConst(n) THEN (i :> n.val) @@ known
        ELSE IF ~IsVar(n) /\ n.op # "d" /\ Kids(n) \subseteq DOMAIN known
        THEN (i :> Operate(n.op, [k \in DOMAIN n.kids |-> known[n.kids[k]]])) @@ known
        ELSE known
  IN  FoldLeft(Fold, <<>>, Increasing(Reachable(e, {Root(e)})))

\* The nodes that become an instruction: those that do not fold, and the folded
\* ones that such a node, or the caller, reads.
Emitted(e, known) ==
  LET live   == Reachable(e, {Root(e)})
      needed == {Root(e)} \cup UNION {Kids(e[i]) : i \in live \ DOMAIN known}
  IN  Increasing({i \in live : i \notin DOMAIN known \/ i \in needed})

\* Where each node is read for the last time.
LastUse(e, known, emitted) ==
  LET readers(i) == {p \in DOMAIN emitted :
                       emitted[p] \notin DOMAIN known /\ i \in Kids(e[emitted[p]])}
  IN  [i \in {j \in Range(emitted) : readers(j) # {}} |-> Max(readers(i))]

\* Pass two: one instruction after the other.  `free` is used as a stack.
InternConst(consts, v) ==
  IF v \in Range(consts) THEN consts ELSE Append(consts, v)
Alloc(c) ==
  IF c.free = <<>> THEN [dst |-> c.slots, free |-> <<>>, slots |-> c.slots + 1]
  ELSE [dst |-> Last(c.free), free |-> Front(c.free), slots |-> c.slots]

(* Mutant of DeadOf: an operand is freed as often as it is named. *)
DeadPerMention(e, i, p, lastUse) ==
  SelectSeq(e[i].kids, LAMBDA k : k \in DOMAIN lastUse /\ lastUse[k] = p /\ k # Root(e))

\* The operands that died here, each of them once, however often it was named.
DeadOf(e, i, p, lastUse) ==
  Increasing({k \in Kids(e[i]) :
                k \in DOMAIN lastUse /\ lastUse[k] = p /\ k # Root(e)})
Released(free, dead, slotOf, dst) ==
  free \o SelectSeq([d \in DOMAIN dead |-> slotOf[dead[d]]], LAMBDA s : s # dst)

\* A known value is loaded from the pool, a variable from the arguments.
Instruction(c, n, known) ==
  CASE known # {}             -> [op |-> "LoadConst", k |-> CHOOSE k \in DOMAIN c.consts : c.consts[k] \in known]
    [] known = {} /\ IsVar(n) -> [op |-> "LoadParam", p |-> n.op]
    [] OTHER                  -> [op |-> n.op, args |-> [k \in DOMAIN n.kids |-> c.slotOf[n.kids[k]]]]
Placed(c, i, instr, got, dead) ==
  LET slotOf == (i :> got.dst) @@ c.slotOf
  IN  [code   |-> Append(c.code, [dst |-> got.dst, do |-> instr]),
       consts |-> c.consts, slotOf |-> slotOf, slots |-> got.slots,
       free   |-> Released(got.free, dead, slotOf, got.dst)]
EmitAt(c, e, known, i, dead) ==
  IF i \in DOMAIN known
  THEN LET d == [c EXCEPT !.consts = InternConst(@, known[i])]
       IN  Placed(d, i, Instruction(d, e[i], {known[i]}), Alloc(c), dead)
  ELSE Placed(c, i, Instruction(c, e[i], {}), Alloc(c), dead)

NoCode == [code |-> <<>>, consts |-> <<>>, slotOf |-> <<>>, free |-> <<>>, slots |-> 0]
PassTwo(e, known, emitted, lastUse) ==
  FoldLeft(LAMBDA c, p : EmitAt(c, e, known, emitted[p], DeadOf(e, emitted[p], p, lastUse)),
           NoCode, [p \in DOMAIN emitted |-> p])
Scheduled(e, known, emitted) == PassTwo(e, known, emitted, LastUse(e, known, emitted))
Program(e, c) == [ok |-> TRUE, code |-> c.code, consts |-> c.consts,
                  params |-> Vars(e, {Root(e)}), slots |-> Max({c.slots, 1})]
Compile(e) ==
  IF \E i \in Reachable(e, {Root(e)}) : e[i].op = "d"
  THEN [ok |-> FALSE]
  ELSE LET known == KnownValues(e)
       IN  Program(e, Scheduled(e, known, Emitted(e, known)))

\* The machine: the slots after a run, and the value stored last.  A slot
\* array that is too small grows, with zeros; the slots below keep what they held.
Dirty(buffer, slots) == [s \in 0..Max({slots, Len(buffer)}) - 1 |->
                           IF s < Len(buffer) THEN buffer[s + 1] ELSE Zero]
Step(prog, env, run, p) ==
  LET do == prog.code[p].do
      v  == CASE do.op = "LoadConst" -> prog.consts[do.k]
              [] do.op = "LoadParam" -> env[do.p]
              [] OTHER -> Operate(do.op, [a \in DOMAIN do.args |-> run.slots[do.args[a]]])
  IN  [slots |-> [run.slots EXCEPT ![prog.code[p].dst] = v], last |-> v]
EvalWith(prog, env, buffer) ==
  FoldLeft(LAMBDA run, p : Step(prog, env, run, p),
           [slots |-> Dirty(buffer, prog.slots), last |-> Zero],
           [p \in DOMAIN prog.code |-> p])
\* One run after the other, each on the slots the one before has left: of many
\* rows, the first half and then the second.
RECURSIVE RunsFrom(_, _, _)
RunsFrom(prog, rows, buffer) ==
  IF Len(rows) = 1
  THEN LET run == EvalWith(prog, rows[1], buffer)
       IN  [results |-> <<run.last>>, buffer |-> [s \in 1..prog.slots |-> run.slots[s - 1]]]
  ELSE LET half   == Len(rows) \div 2
           first  == RunsFrom(prog, SubSeq(rows, 1, half), buffer)
           second == RunsFrom(prog, SubSeq(rows, half + 1, Len(rows)), first.buffer)
       IN  [results |-> first.results \o second.results, buffer |-> second.buffer]
EvalBatch(prog, rows) == RunsFrom(prog, rows, <<>>).results
=============================================================================
