------------------------- MODULE ServerLoop_proofs -------------------------
(***************************************************************************)
(* What is proved of the running server for any number of deliveries,      *)
(* permits, connections and failures of the database.                      *)
(***************************************************************************)
EXTENDS ServerLoop, FiniteSetTheorems, SequenceTheorems, TLAPS

-----------------------------------------------------------------------------
(* Callers *)

LEMMA CallersDiffer ==
  /\ \A d \in Delivery : Poster(d) # Claimer
  /\ \A a \in Attempt : Settler(a) # Claimer
  /\ \A d \in Delivery, a \in Attempt : Poster(d) # Settler(a)
  /\ \A d, f \in Delivery : Poster(d) = Poster(f) => d = f
  /\ \A a, b \in Attempt : Settler(a) = Settler(b) => a = b
<1>1. ASSUME NEW x, NEW y, NEW s, NEW t
      PROVE  <<s, x>> # <<"claim">> /\ (<<s, x>> = <<t, y>> => s = t /\ x = y)
  <2>1. Len(<<s, x>>) = 2 /\ Len(<<"claim">>) = 1
    OBVIOUS
  <2>2. <<s, x>>[1] = s /\ <<s, x>>[2] = x /\ <<t, y>>[1] = t /\ <<t, y>>[2] = y
    OBVIOUS
  <2> QED
    BY <2>1, <2>2
<1>2. "post" # "settle"
  OBVIOUS
<1> QED
  BY <1>1, <1>2 DEF Claimer, Poster, Settler

LEMMA CallersAreCallers ==
  /\ Claimer \in Caller
  /\ \A d \in Delivery : Poster(d) \in Caller
  /\ \A a \in Attempt : Settler(a) \in Caller
BY DEF Caller

LEMMA FinitelyMany == IsFiniteSet(Attempt) /\ IsFiniteSet(Caller)
<1>1. IsFiniteSet(0..(MaxAttempts - 1))
  BY LoopAssumption, FS_Interval
<1>2. IsFiniteSet(Attempt)
  BY <1>1, LoopAssumption, FS_Product DEF Attempt
<1> DEFINE posters == {Poster(d) : d \in Delivery}
           settlers == {Settler(a) : a \in Attempt}
<1>3. IsFiniteSet(posters)
  <2>1. [d \in Delivery |-> Poster(d)] \in Surjection(Delivery, posters)
    BY DEF Surjection
  <2> QED
    BY <2>1, LoopAssumption, FS_Surjection
<1>4. IsFiniteSet(settlers)
  <2>1. [a \in Attempt |-> Settler(a)] \in Surjection(Attempt, settlers)
    BY DEF Surjection
  <2> QED
    BY <1>2, <2>1, FS_Surjection
<1>5. IsFiniteSet({Claimer})
  BY FS_Singleton
<1>6. IsFiniteSet({Claimer} \cup posters)
  BY <1>3, <1>5, FS_Union
<1>7. IsFiniteSet({Claimer} \cup posters \cup settlers)
  BY <1>4, <1>6, FS_Union
<1> QED
  BY <1>2, <1>7 DEF Caller

-----------------------------------------------------------------------------
(* The pool *)

(* Those who have a permit, and those of them who have a connection. *)
Holding == {c \in Caller : call[c] \notin {"none", "waiting"}}
Using == {c \in Caller : call[c] \in {"running", "done"}}

(* Everybody in line is waiting, and stands there once. *)
LineIsFair ==
  /\ \A i \in 1..Len(line) : call[line[i]] = "waiting"
  /\ \A i, j \in 1..Len(line) : line[i] = line[j] => i = j

(* No permit and no connection is ever lost or made up. *)
PoolInv ==
  /\ Pool!PoolTypeOK
  /\ LineIsFair
  /\ permits + Cardinality(Holding) = Connections
  /\ idle + Cardinality(Using) = Connections

(* What may become of the pool in one step, for one caller. *)
PoolOp(c) ==
  \/ Pool!Ask(c) \/ Pool!TakeConnection(c) \/ Pool!RunClosure(c)
  \/ Pool!GiveBack(c) \/ Pool!Return(c) \/ Pool!Abandon(c)

LEMMA SetsAreFinite ==
  /\ IsFiniteSet(Holding) /\ Cardinality(Holding) \in Nat
  /\ IsFiniteSet(Using) /\ Cardinality(Using) \in Nat
<1>1. Holding \in SUBSET Caller /\ Using \in SUBSET Caller
  BY DEF Holding, Using
<1>2. IsFiniteSet(Holding) /\ IsFiniteSet(Using)
  BY <1>1, FinitelyMany, FS_Subset
<1> QED
  BY <1>2, FS_CardinalityType

LEMMA PoolStarts == Pool!PoolInit => PoolInv
<1> SUFFICES ASSUME Pool!PoolInit PROVE PoolInv
  OBVIOUS
<1>1. Holding = {} /\ Using = {}
  BY DEF Pool!PoolInit, Holding, Using
<1>2. Cardinality(Holding) = 0 /\ Cardinality(Using) = 0
  BY <1>1, FS_EmptySet
<1>3. line = <<>> /\ line \in Seq(Caller) /\ Len(line) = 0
  BY DEF Pool!PoolInit
<1> QED
  BY <1>2, <1>3, LoopAssumption
     DEF Pool!PoolInit, PoolInv, Pool!PoolTypeOK, Pool!Stage, LineIsFair

LEMMA AskKeeps ==
  ASSUME PoolInv, NEW c \in Caller, Pool!Ask(c)
  PROVE  PoolInv'
<1>1. /\ call \in [Caller -> Pool!Stage] /\ line \in Seq(Caller)
      /\ permits \in 0..Connections /\ idle \in 0..Connections
      /\ call[c] = "none" /\ Connections \in Nat
  BY LoopAssumption DEF PoolInv, Pool!PoolTypeOK, Pool!Ask
<1>2. CASE permits > 0
  <2>1. call' = [call EXCEPT ![c] = "granted"] /\ permits' = permits - 1 /\ UNCHANGED <<line, idle>>
    BY <1>2 DEF Pool!Ask
  <2>2. Holding' = Holding \cup {c} /\ c \notin Holding /\ Using' = Using
    BY <1>1, <2>1 DEF Holding, Using
  <2>3. Cardinality(Holding') = Cardinality(Holding) + 1
    BY <2>2, SetsAreFinite, FS_AddElement
  <2>4. LineIsFair'
    BY <1>1, <2>1 DEF PoolInv, LineIsFair
  <2>5. Pool!PoolTypeOK'
    BY <1>1, <1>2, <2>1 DEF Pool!PoolTypeOK, Pool!Stage
  <2> QED
    BY <1>1, <2>1, <2>2, <2>3, <2>4, <2>5, SetsAreFinite DEF PoolInv
<1>3. CASE ~(permits > 0)
  <2>1. /\ call' = [call EXCEPT ![c] = "waiting"] /\ line' = Append(line, c)
        /\ UNCHANGED <<permits, idle>>
    BY <1>3 DEF Pool!Ask
  <2>2. Holding' = Holding /\ Using' = Using
    BY <1>1, <2>1 DEF Holding, Using
  <2>3. /\ line' \in Seq(Caller) /\ Len(line') = Len(line) + 1
        /\ \A i \in 1..Len(line) : line'[i] = line[i]
        /\ line'[Len(line) + 1] = c /\ Len(line) \in Nat
    BY <1>1, <2>1, AppendProperties
  <2>4. \A i \in 1..Len(line) : line[i] # c /\ line[i] \in Caller /\ call[line[i]] = "waiting"
    BY <1>1 DEF PoolInv, LineIsFair
  <2>5. LineIsFair'
    <3>1. ASSUME NEW i \in 1..Len(line') PROVE call'[line'[i]] = "waiting"
      BY <1>1, <2>1, <2>3, <2>4
    <3>2. ASSUME NEW i \in 1..Len(line'), NEW j \in 1..Len(line'), line'[i] = line'[j]
          PROVE  i = j
      <4>1. CASE i \in 1..Len(line) /\ j \in 1..Len(line)
        BY <2>3, <3>2, <4>1 DEF PoolInv, LineIsFair
      <4>2. CASE i = Len(line) + 1 \/ j = Len(line) + 1
        BY <2>3, <2>4, <3>2, <4>2
      <4> QED
        BY <2>3, <4>1, <4>2
    <3> QED
      BY <3>1, <3>2 DEF LineIsFair
  <2>6. Pool!PoolTypeOK'
    BY <1>1, <2>1, <2>3 DEF Pool!PoolTypeOK, Pool!Stage
  <2> QED
    BY <2>1, <2>2, <2>5, <2>6 DEF PoolInv
<1> QED
  BY <1>2, <1>3

LEMMA ConnectionKeeps ==
  ASSUME PoolInv, NEW c \in Caller,
         Pool!TakeConnection(c) \/ Pool!RunClosure(c) \/ Pool!GiveBack(c)
  PROVE  PoolInv'
<1>1. /\ call \in [Caller -> Pool!Stage] /\ line \in Seq(Caller)
      /\ permits \in 0..Connections /\ idle \in 0..Connections /\ Connections \in Nat
      /\ UNCHANGED <<line, permits>>
      /\ call[c] \in {"offered", "granted", "running", "done"}
  BY LoopAssumption
     DEF PoolInv, Pool!PoolTypeOK, Pool!TakeConnection, Pool!RunClosure, Pool!GiveBack
<1>2. \A to : call' = [call EXCEPT ![c] = to] => LineIsFair'
  BY <1>1 DEF PoolInv, LineIsFair
<1>3. CASE Pool!TakeConnection(c)
  <2>1. /\ call' = [call EXCEPT ![c] = "running"] /\ idle' = idle - 1 /\ idle > 0
        /\ call[c] \in {"offered", "granted"}
    BY <1>3 DEF Pool!TakeConnection
  <2>2. Holding' = Holding /\ Using' = Using \cup {c} /\ c \notin Using
    BY <1>1, <2>1 DEF Holding, Using
  <2>3. Cardinality(Using') = Cardinality(Using) + 1
    BY <2>2, SetsAreFinite, FS_AddElement
  <2>4. Pool!PoolTypeOK'
    BY <1>1, <2>1 DEF Pool!PoolTypeOK, Pool!Stage
  <2>5. idle' + Cardinality(Using') = Connections
    BY <1>1, <2>1, <2>3, SetsAreFinite DEF PoolInv
  <2>6. permits' + Cardinality(Holding') = Connections
    BY <1>1, <2>2 DEF PoolInv
  <2> QED
    BY <1>2, <2>1, <2>4, <2>5, <2>6 DEF PoolInv
<1>4. CASE Pool!RunClosure(c)
  <2>1. call' = [call EXCEPT ![c] = "done"] /\ UNCHANGED idle /\ call[c] = "running"
    BY <1>4 DEF Pool!RunClosure
  <2>2. Holding' = Holding /\ Using' = Using
    BY <1>1, <2>1 DEF Holding, Using
  <2>3. Pool!PoolTypeOK'
    BY <1>1, <2>1 DEF Pool!PoolTypeOK, Pool!Stage
  <2> QED
    BY <1>1, <1>2, <2>1, <2>2, <2>3 DEF PoolInv
<1>5. CASE Pool!GiveBack(c)
  <2>1. call' = [call EXCEPT ![c] = "returned"] /\ idle' = idle + 1 /\ call[c] = "done"
    BY <1>5 DEF Pool!GiveBack
  <2>2. Holding' = Holding /\ Using' = Using \ {c} /\ c \in Using
    BY <1>1, <2>1 DEF Holding, Using
  <2>3. Cardinality(Using') = Cardinality(Using) - 1 /\ Cardinality(Using') \in Nat
    <3>1. IsFiniteSet(Using \ {c}) /\ Cardinality(Using \ {c}) = Cardinality(Using) - 1
      BY <2>2, SetsAreFinite, FS_RemoveElement
    <3> QED
      BY <2>2, <3>1, FS_CardinalityType
  <2>4. idle' \in 0..Connections /\ idle' + Cardinality(Using') = Connections
    BY <1>1, <2>1, <2>3, SetsAreFinite DEF PoolInv
  <2>5. Pool!PoolTypeOK'
    BY <1>1, <2>1, <2>4 DEF Pool!PoolTypeOK, Pool!Stage
  <2> QED
    BY <1>1, <1>2, <2>1, <2>2, <2>4, <2>5 DEF PoolInv
<1> QED
  BY <1>3, <1>4, <1>5

LEMMA DropKeeps ==
  ASSUME PoolInv, NEW c \in Caller, Pool!DropPermit(c), call[c] \in {"offered", "returned"},
         UNCHANGED idle
  PROVE  PoolInv'
<1>1. /\ call \in [Caller -> Pool!Stage] /\ line \in Seq(Caller)
      /\ permits \in 0..Connections /\ idle \in 0..Connections /\ Connections \in Nat
  BY LoopAssumption DEF PoolInv, Pool!PoolTypeOK
<1>2. c \in Holding /\ c \notin Using
  BY DEF Holding, Using
<1>3. CASE line = <<>>
  <2>1. call' = [call EXCEPT ![c] = "none"] /\ permits' = permits + 1 /\ line' = line
    BY <1>3 DEF Pool!DropPermit
  <2>2. Holding' = Holding \ {c} /\ Using' = Using
    BY <1>1, <1>2, <2>1 DEF Holding, Using
  <2>3. Cardinality(Holding') = Cardinality(Holding) - 1 /\ Cardinality(Holding') \in Nat
    <3>1. IsFiniteSet(Holding \ {c}) /\ Cardinality(Holding \ {c}) = Cardinality(Holding) - 1
      BY <1>2, SetsAreFinite, FS_RemoveElement
    <3> QED
      BY <2>2, <3>1, FS_CardinalityType
  <2>4. permits' \in 0..Connections /\ permits' + Cardinality(Holding') = Connections
    BY <1>1, <2>1, <2>3, SetsAreFinite DEF PoolInv
  <2>5. LineIsFair'
    BY <1>1, <1>3, <2>1 DEF PoolInv, LineIsFair
  <2>6. Pool!PoolTypeOK'
    BY <1>1, <2>1, <2>4 DEF Pool!PoolTypeOK, Pool!Stage
  <2> QED
    BY <2>1, <2>2, <2>4, <2>5, <2>6 DEF PoolInv
<1>4. CASE line # <<>>
  <2> DEFINE next == Head(line)
  <2>1. /\ call' = [call EXCEPT ![c] = "none", ![next] = "offered"]
        /\ line' = Tail(line) /\ permits' = permits
    BY <1>4 DEF Pool!DropPermit
  <2>2. /\ next \in Caller /\ line' \in Seq(Caller) /\ Len(line) \in Nat /\ Len(line) > 0
        /\ Len(line') = Len(line) - 1 /\ next = line[1]
        /\ \A i \in 1..Len(line') : line'[i] = line[i + 1]
    BY <1>1, <1>4, <2>1, HeadTailProperties
  <2>3. call[next] = "waiting" /\ next # c
    BY <2>2 DEF PoolInv, LineIsFair
  <2>4. /\ call' \in [Caller -> Pool!Stage] /\ call'[c] = "none" /\ call'[next] = "offered"
        /\ \A x \in Caller : x # c /\ x # next => call'[x] = call[x]
    BY <1>1, <2>1, <2>2, <2>3 DEF Pool!Stage
  <2>5. Holding' = (Holding \ {c}) \cup {next} /\ next \notin Holding /\ Using' = Using
    BY <1>1, <1>2, <2>2, <2>3, <2>4 DEF Holding, Using
  <2>6. Cardinality(Holding') = Cardinality(Holding)
    <3>1. IsFiniteSet(Holding \ {c}) /\ Cardinality(Holding \ {c}) = Cardinality(Holding) - 1
      BY <1>2, SetsAreFinite, FS_RemoveElement
    <3>2. Cardinality((Holding \ {c}) \cup {next}) = Cardinality(Holding \ {c}) + 1
      BY <2>5, <3>1, FS_AddElement
    <3> QED
      BY <2>5, <3>1, <3>2, SetsAreFinite
  <2>7. LineIsFair'
    <3>1. ASSUME NEW i \in 1..Len(line')
          PROVE  /\ i + 1 \in 1..Len(line) /\ line'[i] = line[i + 1] /\ line[i + 1] # next
                 /\ line[i + 1] \in Caller /\ call[line[i + 1]] = "waiting"
      BY <1>1, <2>2 DEF PoolInv, LineIsFair
    <3>2. \A i \in 1..Len(line') : call'[line'[i]] = "waiting"
      BY <2>4, <3>1
    <3>3. \A i, j \in 1..Len(line') : line'[i] = line'[j] => i = j
      BY <2>2, <3>1 DEF PoolInv, LineIsFair
    <3> QED
      BY <3>2, <3>3 DEF LineIsFair
  <2>8. Pool!PoolTypeOK'
    BY <1>1, <2>1, <2>2, <2>4 DEF Pool!PoolTypeOK
  <2> QED
    BY <2>1, <2>5, <2>6, <2>7, <2>8 DEF PoolInv
<1> QED
  BY <1>3, <1>4

LEMMA LeaveKeeps ==
  ASSUME PoolInv, NEW c \in Caller, Pool!LeaveLine(c), call[c] = "waiting"
  PROVE  PoolInv'
<1>1. /\ call \in [Caller -> Pool!Stage] /\ line \in Seq(Caller)
      /\ permits \in 0..Connections /\ idle \in 0..Connections
  BY DEF PoolInv, Pool!PoolTypeOK
<1>2. PICK k \in 1..Len(line) :
        /\ line[k] = c
        /\ line' = SubSeq(line, 1, k - 1) \o SubSeq(line, k + 1, Len(line))
  BY DEF Pool!LeaveLine
<1>3. call' = [call EXCEPT ![c] = "none"] /\ UNCHANGED <<permits, idle>>
  BY DEF Pool!LeaveLine
<1> DEFINE front == SubSeq(line, 1, k - 1)
           rest == SubSeq(line, k + 1, Len(line))
           old(i) == IF i < k THEN i ELSE i + 1
<1>4. Len(line) \in Nat /\ k \in Int /\ \A i \in 1..Len(line) : line[i] \in Caller
  BY <1>1, <1>2
<1>5. /\ front \in Seq(Caller) /\ Len(front) = k - 1
      /\ \A i \in 1..(k - 1) : front[i] = line[i]
  <2>1. \A i \in 1..(k - 1) : line[i] \in Caller
    BY <1>2, <1>4
  <2>2. /\ front \in Seq(Caller) /\ Len(front) = IF 1 <= k - 1 THEN (k - 1) - 1 + 1 ELSE 0
        /\ \A i \in 1..((k - 1) - 1 + 1) : front[i] = line[1 + i - 1]
    BY <1>2, <1>4, <2>1, SubSeqProperties
  <2> QED
    BY <1>2, <1>4, <2>2
<1>6. /\ rest \in Seq(Caller) /\ Len(rest) = Len(line) - k
      /\ \A i \in 1..(Len(line) - k) : rest[i] = line[k + i]
  <2>1. \A i \in (k + 1)..Len(line) : line[i] \in Caller
    BY <1>2, <1>4
  <2>2. /\ rest \in Seq(Caller)
        /\ Len(rest) = IF k + 1 <= Len(line) THEN Len(line) - (k + 1) + 1 ELSE 0
        /\ \A i \in 1..(Len(line) - (k + 1) + 1) : rest[i] = line[(k + 1) + i - 1]
    BY <1>2, <1>4, <2>1, SubSeqProperties
  <2> QED
    BY <1>2, <1>4, <2>2
<1>7. /\ line' \in Seq(Caller) /\ Len(line') = Len(line) - 1
      /\ \A i \in 1..(Len(line) - 1) : line'[i] = line[old(i)]
  <2>1. /\ line' \in Seq(Caller) /\ Len(line') = Len(front) + Len(rest)
        /\ \A i \in 1..(Len(front) + Len(rest)) :
             line'[i] = IF i <= Len(front) THEN front[i] ELSE rest[i - Len(front)]
    BY <1>2, <1>5, <1>6, ConcatProperties
  <2>2. Len(front) + Len(rest) = Len(line) - 1
    <3>1. Len(front) = k - 1 /\ Len(rest) = Len(line) - k
      BY <1>5, <1>6
    <3> HIDE DEF front, rest
    <3> QED
      BY <1>4, <3>1
  <2>3. ASSUME NEW i \in 1..(Len(line) - 1) PROVE line'[i] = line[old(i)]
    <3> HIDE DEF front, rest
    <3>1. i \in Int /\ k \in Int /\ 1 <= i /\ i <= Len(line) - 1 /\ Len(line) \in Nat
      BY <1>4
    <3>2. line'[i] = IF i <= k - 1 THEN front[i] ELSE rest[i - (k - 1)]
      BY <1>5, <2>1, <2>2
    <3>3. CASE i < k
      <4>1. i \in 1..(k - 1) /\ i <= k - 1
        BY <3>3, <3>1
      <4> QED
        BY <1>5, <3>3, <3>2, <4>1
    <3>4. CASE ~(i < k)
      <4>1. i - (k - 1) \in 1..(Len(line) - k) /\ ~(i <= k - 1)
        BY <3>4, <3>1
      <4>2. k + (i - (k - 1)) = i + 1
        BY <3>1
      <4> QED
        BY <1>6, <3>4, <3>2, <4>1, <4>2
    <3> QED
      BY <3>3, <3>4
  <2> QED
    BY <2>1, <2>2, <2>3
<1>8. \A i \in 1..(Len(line) - 1) : old(i) \in 1..Len(line) /\ old(i) # k
  BY <1>2, <1>4
<1>9. LineIsFair'
  <2>1. ASSUME NEW i \in 1..Len(line')
        PROVE  /\ line'[i] = line[old(i)] /\ old(i) \in 1..Len(line) /\ line[old(i)] # c
               /\ line[old(i)] \in Caller /\ call[line[old(i)]] = "waiting"
    <3>1. line'[i] = line[old(i)] /\ old(i) \in 1..Len(line) /\ old(i) # k
      BY <1>7, <1>8
    <3>2. line[old(i)] # c
      BY <1>2, <3>1 DEF PoolInv, LineIsFair
    <3> QED
      BY <1>4, <3>1, <3>2 DEF PoolInv, LineIsFair
  <2>2. \A i \in 1..Len(line') : call'[line'[i]] = "waiting"
    BY <1>1, <1>3, <2>1
  <2>3. ASSUME NEW i \in 1..Len(line'), NEW j \in 1..Len(line'), line'[i] = line'[j]
        PROVE  i = j
    <3>1. old(i) = old(j)
      BY <2>1, <2>3 DEF PoolInv, LineIsFair
    <3> HIDE DEF front, rest
    <3>2. i \in Int /\ j \in Int
      BY <1>4, <1>7
    <3> QED
      BY <1>4, <3>1, <3>2
  <2> QED
    BY <2>2, <2>3 DEF LineIsFair
<1>10. Holding' = Holding /\ Using' = Using
  BY <1>1, <1>3 DEF Holding, Using
<1>11. Pool!PoolTypeOK'
  BY <1>1, <1>3, <1>7 DEF Pool!PoolTypeOK, Pool!Stage
<1> QED
  BY <1>3, <1>9, <1>10, <1>11 DEF PoolInv

(* Whatever a caller does, permits and connections stay counted. *)
LEMMA PoolKeeps ==
  ASSUME PoolInv, NEW c \in Caller, PoolOp(c)
  PROVE  PoolInv'
<1>1. CASE Pool!Return(c)
  BY <1>1, DropKeeps DEF Pool!Return
<1>2. CASE Pool!Abandon(c)
  <2>1. CASE UNCHANGED <<call, line, permits, idle>>
    BY <2>1 DEF PoolInv, Pool!PoolTypeOK, LineIsFair, Holding, Using
  <2> QED
    BY <1>2, <2>1, DropKeeps, LeaveKeeps DEF Pool!Abandon
<1> QED
  BY <1>1, <1>2, AskKeeps, ConnectionKeeps DEF PoolOp

-----------------------------------------------------------------------------
(* Where a caller's call stands, as far as its owner can tell: its closure *)
(* has not run, or has run and the permit is on its way back.              *)
Phase(c) ==
  IF call[c] = "none" THEN "quiet"
  ELSE IF call[c] \in {"done", "returned"} THEN "after" ELSE "before"

(* One caller's step leaves the phases of the others alone. *)
OthersStay(c) == \A x \in Caller : x # c => Phase(x)' = Phase(x)

LEMMA OneCallChanges ==
  ASSUME NEW c \in Caller, NEW to \in Pool!Stage, call \in [Caller -> Pool!Stage],
         call' = [call EXCEPT ![c] = to]
  PROVE  OthersStay(c) /\ call'[c] = to
BY DEF OthersStay, Phase

LEMMA DropPhases ==
  ASSUME PoolInv, NEW c \in Caller, Pool!DropPermit(c), call[c] \in {"offered", "returned"}
  PROVE  OthersStay(c) /\ Phase(c)' = "quiet"
<1>1. call \in [Caller -> Pool!Stage] /\ line \in Seq(Caller)
  BY DEF PoolInv, Pool!PoolTypeOK
<1>2. CASE line = <<>>
  BY <1>1, <1>2 DEF Pool!DropPermit, OthersStay, Phase
<1>3. CASE line # <<>>
  <2>1. Head(line) = line[1] /\ 1 \in 1..Len(line) /\ Head(line) \in Caller
    BY <1>1, <1>3, HeadTailProperties
  <2>2. call[Head(line)] = "waiting"
    BY <2>1 DEF PoolInv, LineIsFair
  <2>3. call' = [call EXCEPT ![c] = "none", ![Head(line)] = "offered"]
    BY <1>3 DEF Pool!DropPermit
  <2>4. /\ call'[c] = "none" /\ call'[Head(line)] = "offered"
        /\ \A x \in Caller : x # c /\ x # Head(line) => call'[x] = call[x]
    BY <1>1, <2>1, <2>2, <2>3
  <2> QED
    BY <2>1, <2>2, <2>4 DEF OthersStay, Phase
<1> QED
  BY <1>2, <1>3

LEMMA PoolPhases ==
  ASSUME PoolInv, NEW c \in Caller
  PROVE  /\ Pool!Ask(c) => Phase(c) = "quiet" /\ Phase(c)' = "before" /\ OthersStay(c)
         /\ Pool!TakeConnection(c) => Phase(c) = "before" /\ Phase(c)' = "before" /\ OthersStay(c)
         /\ Pool!RunClosure(c) => Phase(c) = "before" /\ Phase(c)' = "after" /\ OthersStay(c)
         /\ Pool!GiveBack(c) => Phase(c) = "after" /\ Phase(c)' = "after" /\ OthersStay(c)
         /\ Pool!Return(c) => Phase(c) = "after" /\ Phase(c)' = "quiet" /\ OthersStay(c)
         /\ Pool!Abandon(c) => Phase(c)' \in {Phase(c), "quiet"} /\ OthersStay(c)
<1>1. call \in [Caller -> Pool!Stage] /\ Pool!Stage = {"none", "waiting", "offered", "granted", "running", "done", "returned"}
  BY DEF PoolInv, Pool!PoolTypeOK, Pool!Stage
<1>2. Pool!Ask(c) => Phase(c) = "quiet" /\ Phase(c)' = "before" /\ OthersStay(c)
  BY <1>1, OneCallChanges DEF Pool!Ask, Phase
<1>3. /\ Pool!TakeConnection(c) => Phase(c) = "before" /\ Phase(c)' = "before" /\ OthersStay(c)
      /\ Pool!RunClosure(c) => Phase(c) = "before" /\ Phase(c)' = "after" /\ OthersStay(c)
      /\ Pool!GiveBack(c) => Phase(c) = "after" /\ Phase(c)' = "after" /\ OthersStay(c)
  BY <1>1, OneCallChanges DEF Pool!TakeConnection, Pool!RunClosure, Pool!GiveBack, Phase
<1>4. Pool!Return(c) => Phase(c) = "after" /\ Phase(c)' = "quiet" /\ OthersStay(c)
  BY DropPhases DEF Pool!Return, Phase
<1>5. Pool!Abandon(c) => Phase(c)' \in {Phase(c), "quiet"} /\ OthersStay(c)
  <2>1. CASE call[c] = "waiting" /\ Pool!LeaveLine(c)
    BY <1>1, <2>1, OneCallChanges DEF Pool!LeaveLine, Phase
  <2>2. CASE call[c] = "offered" /\ Pool!DropPermit(c)
    BY <2>2, DropPhases
  <2>3. CASE UNCHANGED call
    BY <2>3 DEF OthersStay, Phase
  <2> QED
    BY <2>1, <2>2, <2>3 DEF Pool!Abandon
<1> QED
  BY <1>2, <1>3, <1>4, <1>5

-----------------------------------------------------------------------------
(* Types and the pool's books *)

Booked == TypeOK /\ PoolInv

LEMMA RoomIsNat ==
  /\ IsFiniteSet(InFlight) /\ Cardinality(InFlight) \in Nat /\ FreePermits \in Int
  /\ Cardinality(InFlight) = Concurrency - FreePermits
<1>1. InFlight \in SUBSET Attempt
  BY DEF InFlight
<1>2. IsFiniteSet(InFlight) /\ Cardinality(InFlight) \in Nat
  BY <1>1, FinitelyMany, FS_Subset, FS_CardinalityType
<1> QED
  BY <1>2, LoopAssumption DEF FreePermits

LEMMA BatchFits ==
  /\ Batch \in Int /\ Batch <= FreePermits /\ Batch <= BatchSize
  /\ Batch > 0 => Batch \in 0..BatchSize
BY RoomIsNat, LoopAssumption DEF Batch, Least

LEMMA LoopTypes ==
  ASSUME Booked, LoopStep
  PROVE  Booked'
<1> USE DEF Booked
<1>1. CASE Top
  <2>1. PoolInv'
    BY <1>1, PoolKeeps, CallersAreCallers DEF Top, PoolOp, PoolInv, Pool!PoolTypeOK, LineIsFair, pool,
       Holding, Using
  <2> QED
    BY <1>1, <2>1, BatchFits DEF Top, TypeOK, PoolInv, table
<1>2. CASE ClaimDue
  <2>1. PoolInv'
    BY <1>2, PoolKeeps, CallersAreCallers DEF ClaimDue, PoolOp
  <2>2. CASE UNCHANGED <<attempts, faults>>
    BY <1>2, <2>1, <2>2 DEF ClaimDue, Fault, TypeOK, PoolInv, table, DueNow
  <2>3. CASE Fault
    BY <1>2, <2>1, <2>3, LoopAssumption DEF ClaimDue, Fault, TypeOK, PoolInv, table
  <2> QED
    BY <1>2, <2>2, <2>3 DEF ClaimDue
<1>3. CASE Claimed
  <2>1. PoolInv'
    BY <1>3, PoolKeeps, CallersAreCallers DEF Claimed, PoolOp
  <2> QED
    BY <1>3, <2>1 DEF Claimed, TypeOK, PoolInv, table
<1>4. CASE PoolStep(Claimer)
  <2>1. PoolInv'
    BY <1>4, PoolKeeps, CallersAreCallers DEF PoolStep, PoolOp
  <2> QED
    BY <1>4, <2>1 DEF PoolStep, TypeOK, PoolInv, table, claimer
<1>5. CASE Poll \/ Told \/ Drain \/ \E d \in Delivery : HandOut(d)
  <2>1. UNCHANGED pool
    BY <1>5 DEF Poll, Told, Drain, HandOut
  <2>2. PoolInv'
    BY <2>1 DEF pool, PoolInv, Pool!PoolTypeOK, LineIsFair, Holding, Using
  <2> QED
    BY <1>5, <2>2 DEF Poll, Told, Drain, HandOut, TypeOK, PoolInv, table
<1> QED
  BY <1>1, <1>2, <1>3, <1>4, <1>5 DEF LoopStep

LEMMA TaskTypes ==
  ASSUME Booked, NEW a \in Attempt, TaskStep(a)
  PROVE  Booked'
<1> USE DEF Booked
<1>1. PoolInv'
  BY PoolKeeps, CallersAreCallers
     DEF TaskStep, Answered, Settle, Settled, PoolStep, PoolOp
<1>2. a[1] \in Delivery /\ a[2] + 1 \in 0..MaxAttempts
  BY LoopAssumption DEF Attempt
<1>3. CASE Answered(a)
  BY <1>1, <1>3 DEF Answered, TypeOK, PoolInv, table, claimer
<1>4. CASE Settle(a)
  <2>1. CASE Fault
    BY <1>1, <1>2, <1>4, <2>1, LoopAssumption DEF Settle, Fault, TypeOK, PoolInv, table, claimer
  <2>2. CASE ~Fault
    BY <1>1, <1>2, <1>4, <2>2 DEF Settle, TypeOK, PoolInv, table, claimer
  <2> QED
    BY <2>1, <2>2
<1>5. CASE Settled(a) \/ PoolStep(Settler(a))
  BY <1>1, <1>5 DEF Settled, Released, PoolStep, TypeOK, PoolInv, table, claimer
<1> QED
  BY <1>3, <1>4, <1>5 DEF TaskStep

LEMMA DeliveryTypes ==
  ASSUME Booked, NEW d \in Delivery, RequestStep(d) \/ DueStep(d) \/ Post(d) \/ HangUp(d)
  PROVE  Booked'
<1> USE DEF Booked
<1>1. CASE RequestStep(d) \/ Post(d) \/ HangUp(d)
  <2>1. PoolInv'
    BY <1>1, PoolKeeps, CallersAreCallers
       DEF RequestStep, Create, Poke, PoolStep, Post, HangUp, PoolOp
  <2>2. CASE Create(d)
    <3>1. CASE Fault
      BY <2>1, <2>2, <3>1, LoopAssumption DEF Create, Fault, TypeOK, PoolInv, table, claimer
    <3>2. CASE ~Fault
      BY <2>1, <2>2, <3>2 DEF Create, TypeOK, PoolInv, table, claimer
    <3> QED
      BY <3>1, <3>2
  <2>3. CASE Poke(d)
    BY <2>1, <2>3 DEF Poke, TypeOK, PoolInv, table, claimer
  <2>4. CASE PoolStep(Poster(d)) \/ Post(d) \/ HangUp(d)
    BY <2>1, <2>4 DEF PoolStep, Post, HangUp, TypeOK, PoolInv, table, claimer
  <2> QED
    BY <1>1, <2>2, <2>3, <2>4 DEF RequestStep
<1>2. CASE DueStep(d)
  <2>1. PoolInv'
    BY <1>2 DEF DueStep, Ripen, Lapse, pool, PoolInv, Pool!PoolTypeOK, LineIsFair, Holding, Using
  <2> QED
    BY <1>2, <2>1 DEF DueStep, Ripen, Lapse, TypeOK, PoolInv, table, claimer
<1> QED
  BY <1>1, <1>2

LEMMA BookedStep == Booked /\ [Next]_vars => Booked'
<1> SUFFICES ASSUME Booked, [Next]_vars PROVE Booked'
  OBVIOUS
<1>1. CASE Woken \/ Signal \/ TellWorkers \/ Exit \/ UNCHANGED vars
  <2>1. UNCHANGED pool
    BY <1>1 DEF Woken, Signal, TellWorkers, Exit, vars, pool
  <2>2. PoolInv'
    BY <2>1 DEF Booked, pool, PoolInv, Pool!PoolTypeOK, LineIsFair, Holding, Using
  <2> QED
    BY <1>1, <2>2 DEF Booked, Woken, Signal, TellWorkers, Exit, vars, TypeOK, PoolInv, table, claimer
<1> QED
  BY <1>1, LoopTypes, TaskTypes, DeliveryTypes DEF Next

LEMMA BookedStarts == Init => Booked
<1> SUFFICES ASSUME Init PROVE Booked
  OBVIOUS
<1>1. PoolInv
  BY PoolStarts DEF Init
<1>2. 0 \in 0..MaxAttempts /\ 0 \in 0..BatchSize /\ 0 \in 0..MaxFaults
  BY LoopAssumption
<1>3. TypeOK
  BY <1>1, <1>2 DEF Init, TypeOK, PoolInv
<1> QED
  BY <1>1, <1>3 DEF Booked

LEMMA BookedHolds == Spec => []Booked
BY BookedStarts, BookedStep, PTL DEF Spec

(* The tables, the claimer, its tasks and the pool keep their types: above *)
(* all no delivery is attempted more often than MaxAttempts.               *)
THEOREM ServerTypes == Spec => []TypeOK
<1>1. Booked => TypeOK
  BY DEF Booked
<1> QED
  BY <1>1, BookedHolds, PTL

(* Whoever has a permit finds a connection, with any number of callers     *)
(* that may hang up at any point of their call.                            *)
THEOREM PermitsAreConnections == Spec => []PermitFindsConnection
<1>1. Booked => PermitFindsConnection
  <2> SUFFICES ASSUME Booked PROVE PermitFindsConnection
    OBVIOUS
  <2> DEFINE next == {c \in Caller : call[c] \in {"offered", "granted"}}
  <2>1. next \in SUBSET Holding /\ Using \in SUBSET Holding /\ next \cap Using = {}
    BY DEF Holding, Using
  <2>2. IsFiniteSet(next) /\ Cardinality(next) \in Nat
    BY <2>1, SetsAreFinite, FS_Subset, FS_CardinalityType
  <2>3. Cardinality(next \cup Using) = Cardinality(next) + Cardinality(Using)
    <3>1. Cardinality(next \cap Using) = 0
      BY <2>1, FS_EmptySet
    <3>2. Cardinality(next \cup Using) =
            Cardinality(next) + Cardinality(Using) - Cardinality(next \cap Using)
      BY <2>2, SetsAreFinite, FS_Union
    <3> QED
      BY <2>2, <3>1, <3>2, SetsAreFinite
  <2>4. Cardinality(next \cup Using) <= Cardinality(Holding)
    BY <2>1, SetsAreFinite, FS_Subset
  <2>5. /\ permits \in Nat /\ idle \in Nat
        /\ permits + Cardinality(Holding) = Connections
        /\ idle + Cardinality(Using) = Connections
    BY LoopAssumption DEF Booked, PoolInv, Pool!PoolTypeOK
  <2>6. Cardinality(next) <= idle
    BY <2>2, <2>3, <2>4, <2>5, SetsAreFinite
  <2>7. Pool!Cardinality(next) = Cardinality(next)
    BY DEF Cardinality, Pool!Cardinality
  <2> QED
    BY <2>6, <2>7 DEF PermitFindsConnection, Pool!PermitFindsConnection
<1> QED
  BY <1>1, BookedHolds, PTL

-----------------------------------------------------------------------------
(* The claimer's room *)

(* The claimer's call, its batch and what it has claimed, by where its     *)
(* loop is.                                                                *)
LoopInv ==
  /\ Phase(Claimer) # "quiet" => loop = "claiming"
  /\ loop = "claiming" => batch <= FreePermits
  /\ jobs # {} => loop = "handing" \/ (loop = "claiming" /\ Phase(Claimer) = "after")

RoomInv == Booked /\ LoopInv /\ ClaimHasRoom

LEMMA JobsAreFinite ==
  TypeOK => IsFiniteSet(jobs) /\ Cardinality(jobs) \in Nat
BY LoopAssumption, FS_Subset, FS_CardinalityType DEF TypeOK

(* Tasks that come and go: only handing out a job adds one. *)
LEMMA TaskAdded ==
  ASSUME task \in [Attempt -> {"none", "sending", "success", "failure"}],
         NEW a, task' = [task EXCEPT ![a] = "sending"]
  PROVE  FreePermits' >= FreePermits - 1
<1>1. InFlight' \in SUBSET (InFlight \cup {a})
  BY DEF InFlight
<1>2. /\ IsFiniteSet(InFlight \cup {a})
      /\ Cardinality(InFlight \cup {a}) <= Cardinality(InFlight) + 1
  BY RoomIsNat, FS_AddElement
<1>3. /\ IsFiniteSet(InFlight') /\ Cardinality(InFlight') <= Cardinality(InFlight \cup {a})
      /\ Cardinality(InFlight \cup {a}) \in Nat
  BY <1>1, <1>2, FS_Subset, FS_CardinalityType
<1>4. Cardinality(InFlight') \in Nat
  BY <1>3, FS_CardinalityType
<1> QED
  BY <1>2, <1>3, <1>4, RoomIsNat, LoopAssumption DEF FreePermits

LEMMA TasksLeft ==
  ASSUME InFlight' \subseteq InFlight
  PROVE  FreePermits' >= FreePermits /\ FreePermits' \in Int
<1>1. /\ IsFiniteSet(InFlight') /\ Cardinality(InFlight') <= Cardinality(InFlight)
  BY RoomIsNat, FS_Subset
<1>2. Cardinality(InFlight') \in Nat
  BY <1>1, FS_CardinalityType
<1> QED
  BY <1>1, <1>2, RoomIsNat, LoopAssumption DEF FreePermits

(* A step that is none of the claimer's own. *)
LEMMA RoomKept ==
  ASSUME RoomInv, Booked', UNCHANGED claimer, InFlight' \subseteq InFlight,
         Phase(Claimer)' = Phase(Claimer)
  PROVE  RoomInv'
<1>1. FreePermits' >= FreePermits /\ FreePermits' \in Int
  BY TasksLeft
<1>2. UNCHANGED <<loop, batch, jobs>> /\ batch \in Int
  BY LoopAssumption DEF claimer, RoomInv, Booked, TypeOK
<1>3. LoopInv'
  BY <1>1, <1>2, RoomIsNat DEF RoomInv, LoopInv
<1>4. ClaimHasRoom'
  BY <1>1, <1>2, RoomIsNat, JobsAreFinite DEF RoomInv, Booked, ClaimHasRoom
<1> QED
  BY <1>3, <1>4 DEF RoomInv

LEMMA LoopRoom ==
  ASSUME RoomInv, Booked', LoopStep
  PROVE  RoomInv'
<1> USE DEF RoomInv, Booked
<1>1. CASE Top
  <2>1. /\ UNCHANGED <<jobs, task>> /\ loop = "top" /\ jobs = {} /\ Phase(Claimer) = "quiet"
        /\ InFlight' = InFlight /\ FreePermits' = FreePermits
    BY <1>1 DEF Top, LoopInv, InFlight, FreePermits
  <2>2. CASE loop' = "claiming" /\ batch' = Batch /\ Pool!Ask(Claimer)
    <3>1. LoopInv'
      BY <2>1, <2>2, BatchFits DEF LoopInv
    <3> QED
      BY <2>1, <3>1 DEF ClaimHasRoom
  <2>3. CASE loop' # "claiming" /\ UNCHANGED pool
    <3>1. Phase(Claimer)' = Phase(Claimer)
      BY <2>3 DEF pool, Phase
    <3>2. LoopInv'
      BY <2>1, <2>3, <3>1 DEF LoopInv
    <3> QED
      BY <2>1, <3>2 DEF ClaimHasRoom
  <2> QED
    BY <1>1, <2>2, <2>3 DEF Top
<1>2. CASE ClaimDue
  <2>1. /\ UNCHANGED <<task, loop, batch>> /\ Pool!RunClosure(Claimer)
        /\ InFlight' = InFlight /\ FreePermits' = FreePermits
    BY <1>2 DEF ClaimDue, InFlight, FreePermits
  <2>2. Phase(Claimer) = "before" /\ Phase(Claimer)' = "after"
    BY <2>1, PoolPhases, CallersAreCallers
  <2>3. loop = "claiming" /\ batch <= FreePermits /\ jobs = {}
    BY <2>2 DEF LoopInv
  <2>4. LoopInv'
    BY <2>1, <2>2, <2>3 DEF LoopInv
  <2>5. CASE UNCHANGED jobs
    BY <2>1, <2>4, <2>5 DEF ClaimHasRoom
  <2>6. CASE \E taken \in SUBSET DueNow :
               /\ Cardinality(taken) = Least(batch, Cardinality(DueNow))
               /\ jobs' = taken
    <3>1. DueNow \in SUBSET Delivery
      BY DEF DueNow
    <3>2. Cardinality(DueNow) \in Nat /\ batch \in Int
      BY <3>1, LoopAssumption, FS_Subset, FS_CardinalityType DEF TypeOK
    <3>3. Cardinality(jobs') <= batch
      BY <2>6, <3>2 DEF Least
    <3>4. Cardinality(jobs') \in Nat
      <4>1. jobs' \in SUBSET Delivery
        BY DEF TypeOK
      <4> QED
        BY <4>1, LoopAssumption, FS_Subset, FS_CardinalityType
    <3>5. ClaimHasRoom'
      BY <2>1, <2>3, <3>2, <3>3, <3>4, RoomIsNat DEF ClaimHasRoom
    <3> QED
      BY <2>4, <3>5
  <2> QED
    BY <1>2, <2>5, <2>6 DEF ClaimDue
<1>3. CASE Claimed
  <2>1. /\ UNCHANGED <<task, batch, jobs>> /\ Pool!Return(Claimer)
        /\ loop' = IF jobs = {} THEN "waiting" ELSE "handing"
        /\ InFlight' = InFlight /\ FreePermits' = FreePermits
    BY <1>3 DEF Claimed, InFlight, FreePermits
  <2>2. Phase(Claimer)' = "quiet"
    BY <2>1, PoolPhases, CallersAreCallers
  <2>3. LoopInv'
    BY <2>1, <2>2 DEF LoopInv
  <2> QED
    BY <2>1, <2>3 DEF ClaimHasRoom
<1>4. CASE \E d \in Delivery : HandOut(d)
  <2>1. PICK d \in Delivery : HandOut(d)
    BY <1>4
  <2>2. /\ loop = "handing" /\ d \in jobs /\ jobs' = jobs \ {d} /\ UNCHANGED <<pool, batch>>
        /\ task' = [task EXCEPT ![Current(d)] = "sending"]
        /\ loop' = IF jobs' = {} THEN "top" ELSE loop
    BY <2>1 DEF HandOut
  <2>3. Phase(Claimer)' = Phase(Claimer) /\ Phase(Claimer) = "quiet"
    BY <2>2 DEF pool, Phase, LoopInv
  <2>4. FreePermits' >= FreePermits - 1
    BY <2>2, TaskAdded DEF TypeOK
  <2>5. Cardinality(jobs') = Cardinality(jobs) - 1
    BY <2>2, JobsAreFinite, FS_RemoveElement
  <2>6. FreePermits' \in Int
    <3>1. InFlight' \in SUBSET Attempt
      BY DEF InFlight
    <3>2. Cardinality(InFlight') \in Nat
      BY <3>1, FinitelyMany, FS_Subset, FS_CardinalityType
    <3> QED
      BY <3>2, LoopAssumption DEF FreePermits
  <2>7. ClaimHasRoom'
    BY <2>4, <2>5, <2>6, RoomIsNat, JobsAreFinite DEF ClaimHasRoom
  <2>8. LoopInv'
    BY <2>2, <2>3 DEF LoopInv
  <2> QED
    BY <2>7, <2>8
<1>5. CASE PoolStep(Claimer)
  <2>1. UNCHANGED <<task, loop, batch, jobs>>
    BY <1>5 DEF PoolStep, claimer
  <2>2. Phase(Claimer)' = Phase(Claimer)
    BY <1>5, PoolPhases, CallersAreCallers DEF PoolStep
  <2> QED
    BY <2>1, <2>2, RoomKept DEF InFlight, claimer
<1>6. CASE Poll \/ Told \/ Drain
  <2>1. /\ UNCHANGED <<pool, task, batch, jobs>> /\ loop \in {"waiting", "draining"}
        /\ loop' \in {"top", "stopped"} /\ InFlight' = InFlight /\ FreePermits' = FreePermits
    BY <1>6 DEF Poll, PollFires, Told, Drain, InFlight, FreePermits
  <2>2. Phase(Claimer)' = Phase(Claimer)
    BY <2>1 DEF pool, Phase
  <2>3. LoopInv'
    BY <2>1, <2>2 DEF LoopInv
  <2> QED
    BY <2>1, <2>3 DEF ClaimHasRoom
<1> QED
  BY <1>1, <1>2, <1>3, <1>4, <1>5, <1>6 DEF LoopStep

(* Another caller's step at the pool leaves the claimer's call alone. *)
LEMMA ClaimerStays ==
  ASSUME Booked, NEW c \in Caller, c # Claimer, PoolOp(c)
  PROVE  Phase(Claimer)' = Phase(Claimer)
BY PoolPhases, CallersAreCallers DEF Booked, PoolOp, OthersStay

LEMMA RoomStep == RoomInv /\ [Next]_vars => RoomInv'
<1> SUFFICES ASSUME RoomInv, [Next]_vars PROVE RoomInv'
  OBVIOUS
<1>1. Booked /\ Booked'
  BY BookedStep DEF RoomInv
<1>2. CASE \E a \in Attempt : TaskStep(a)
  <2>1. PICK a \in Attempt : TaskStep(a)
    BY <1>2
  <2>2. UNCHANGED claimer
    BY <2>1 DEF TaskStep, Answered, Settle, Settled, PoolStep
  <2>3. InFlight' \subseteq InFlight
    BY <1>1, <2>1
       DEF TaskStep, Answered, Settle, Settled, Released, PoolStep, InFlight, Booked, TypeOK
  <2>4. Phase(Claimer)' = Phase(Claimer)
    BY <1>1, <2>1, ClaimerStays, CallersDiffer, CallersAreCallers
       DEF TaskStep, Answered, Settle, Settled, PoolStep, PoolOp
  <2> QED
    BY <1>1, <2>2, <2>3, <2>4, RoomKept
<1>3. CASE \E d \in Delivery : RequestStep(d) \/ Post(d) \/ HangUp(d)
  <2>1. PICK d \in Delivery : RequestStep(d) \/ Post(d) \/ HangUp(d)
    BY <1>3
  <2>2. UNCHANGED <<claimer, task>>
    BY <2>1 DEF RequestStep, Create, Poke, PoolStep, Post, HangUp
  <2>3. Phase(Claimer)' = Phase(Claimer)
    BY <1>1, <2>1, ClaimerStays, CallersDiffer, CallersAreCallers
       DEF RequestStep, Create, Poke, PoolStep, Post, HangUp, PoolOp
  <2> QED
    BY <1>1, <2>2, <2>3, RoomKept DEF InFlight
<1>4. CASE Woken
  <2>1. /\ UNCHANGED <<pool, task, batch, jobs>> /\ loop = "waiting" /\ loop' = "top"
        /\ InFlight' = InFlight /\ FreePermits' = FreePermits
    BY <1>4 DEF Woken, InFlight, FreePermits
  <2>2. Phase(Claimer)' = Phase(Claimer)
    BY <2>1 DEF pool, Phase
  <2>3. LoopInv'
    BY <2>1, <2>2 DEF RoomInv, LoopInv
  <2> QED
    BY <1>1, <2>1, <2>3 DEF RoomInv, ClaimHasRoom
<1>5. CASE (\E d \in Delivery : DueStep(d)) \/ Signal \/ TellWorkers \/ Exit \/ UNCHANGED vars
  <2>1. UNCHANGED <<pool, task, claimer>>
    BY <1>5 DEF DueStep, Ripen, Lapse, Signal, TellWorkers, Exit, vars, pool, claimer
  <2> QED
    BY <1>1, <2>1, RoomKept DEF InFlight, pool, Phase
<1> QED
  BY <1>1, <1>2, <1>3, <1>4, <1>5, LoopRoom DEF Next

LEMMA RoomHolds == Spec => []RoomInv
<1>1. Init => RoomInv
  <2> SUFFICES ASSUME Init, Booked PROVE RoomInv
    BY BookedStarts
  <2>1. InFlight = {} /\ jobs = {} /\ loop = "top" /\ Cardinality({}) = 0
    BY FS_EmptySet DEF Init, InFlight
  <2>2. Phase(Claimer) = "quiet"
    BY CallersAreCallers DEF Init, Pool!PoolInit, Phase
  <2> QED
    BY <2>1, <2>2, LoopAssumption DEF RoomInv, LoopInv, ClaimHasRoom, FreePermits
<1> QED
  BY <1>1, RoomStep, PTL DEF Spec

(* What the claimer holds fits the free permits, although they are counted *)
(* before the claim and tasks, requests and faults go on meanwhile.        *)
THEOREM ClaimsHaveRoom == Spec => []ClaimHasRoom
<1>1. RoomInv => ClaimHasRoom
  BY DEF RoomInv
<1> QED
  BY <1>1, RoomHolds, PTL

-----------------------------------------------------------------------------
(* Who carries a lease *)

LeaseIsCarried(d) ==
  row[d] = "leased" => d \in jobs \cup stranded \/ Current(d) \in InFlight

(* An attempt whose outcome has not been written down. *)
Unsettled(a) ==
  task[a] = "sending" \/ (task[a] # "none" /\ Phase(Settler(a)) = "before")

(* A delivery, its request and the claimer's hold on it. *)
DeliveryInv(d) ==
  /\ row[d] # "done" => attempts[d] < MaxAttempts
  /\ request[d] = "new" => Phase(Poster(d)) = "quiet" /\ row[d] = "absent"
  /\ Phase(Poster(d)) = "before" => row[d] = "absent"
  /\ row[d] \in {"absent", "due", "later"} => task[Current(d)] = "none"
  /\ d \in jobs => row[d] = "leased" /\ d \notin stranded /\ task[Current(d)] = "none"
  /\ d \in stranded => row[d] = "leased"
  /\ LeaseIsCarried(d)

(* A task: while its outcome is open the lease is its own and nobody       *)
(* else's, and once it is written down, or lost, the row shows it.         *)
AttemptInv(a) ==
  /\ Phase(Settler(a)) # "quiet" <=> task[a] \in {"success", "failure"}
  /\ task[a] # "none" => a[2] <= attempts[a[1]]
  /\ Unsettled(a) => /\ row[a[1]] = "leased"
                     /\ attempts[a[1]] = a[2]
                     /\ a[1] \notin jobs \cup stranded
  /\ Phase(Settler(a)) = "after" => attempts[a[1]] # a[2] \/ a[1] \in stranded

StopInv ==
  /\ loop = "stopped" => InFlight = {}
  /\ stage = "stopped" => loop = "stopped"

CarryInv ==
  /\ \A d \in Delivery : DeliveryInv(d)
  /\ \A a \in Attempt : AttemptInv(a)
  /\ StopInv

LEMMA AttemptParts ==
  /\ \A a \in Attempt : /\ a = <<a[1], a[2]>> /\ a[1] \in Delivery
                        /\ a[2] \in Nat /\ a[2] < MaxAttempts
  /\ \A d \in Delivery, n \in Nat : n < MaxAttempts => <<d, n>> \in Attempt
BY LoopAssumption DEF Attempt

LEMMA CurrentIsAttempt ==
  ASSUME TypeOK
  PROVE  /\ \A d \in Delivery : attempts[d] \in Nat
         /\ \A d \in Delivery : attempts[d] < MaxAttempts => Current(d) \in Attempt
         /\ \A d \in Delivery : Current(d)[1] = d /\ Current(d)[2] = attempts[d]
         /\ \A a \in Attempt : attempts[a[1]] = a[2] <=> Current(a[1]) = a
<1>1. \A d \in Delivery : attempts[d] \in Nat
  BY LoopAssumption DEF TypeOK
<1> QED
  BY <1>1, AttemptParts DEF Current

(* A step of the pool, or of the loop and the server's life. *)
LEMMA CarryKept ==
  ASSUME CarryInv, UNCHANGED <<row, attempts, request, task, jobs, stranded>>,
         \A d \in Delivery : Phase(Poster(d))' = Phase(Poster(d)),
         \A a \in Attempt : Phase(Settler(a))' = Phase(Settler(a))
  PROVE  /\ \A d \in Delivery : DeliveryInv(d)'
         /\ \A a \in Attempt : AttemptInv(a)'
<1>1. ASSUME NEW d \in Delivery PROVE DeliveryInv(d)'
  BY DEF CarryInv, DeliveryInv, LeaseIsCarried, Current, InFlight
<1>2. ASSUME NEW a \in Attempt PROVE AttemptInv(a)'
  BY DEF CarryInv, AttemptInv, Unsettled
<1> QED
  BY <1>1, <1>2

LEMMA ClaimCarries ==
  ASSUME RoomInv, CarryInv, ClaimDue
  PROVE  /\ \A d \in Delivery : DeliveryInv(d)'
         /\ \A a \in Attempt : AttemptInv(a)'
<1>1. Phase(Claimer) = "before" /\ OthersStay(Claimer)
  BY PoolPhases, CallersAreCallers DEF ClaimDue, RoomInv, Booked
<1>2. /\ \A d \in Delivery : Phase(Poster(d))' = Phase(Poster(d))
      /\ \A a \in Attempt : Phase(Settler(a))' = Phase(Settler(a))
  BY <1>1, CallersDiffer, CallersAreCallers DEF OthersStay
<1>3. jobs = {} /\ TypeOK /\ UNCHANGED <<request, task, stranded, attempts>>
  BY <1>1 DEF RoomInv, LoopInv, Booked, ClaimDue, Fault, table
<1>4. CASE UNCHANGED <<row, jobs>>
  BY <1>2, <1>3, <1>4, CarryKept
<1>5. CASE ~UNCHANGED <<row, jobs>>
  <2>1. PICK taken \in SUBSET DueNow :
          /\ row' = [d \in Delivery |-> IF d \in taken THEN "leased" ELSE row[d]]
          /\ jobs' = taken
    BY <1>5 DEF ClaimDue, Fault, table
  <2>2. /\ \A d \in taken : d \in Delivery /\ row[d] = "due" /\ row'[d] = "leased"
        /\ \A d \in Delivery : d \notin taken => row'[d] = row[d]
    BY <2>1 DEF DueNow
  <2>3. ASSUME NEW d \in Delivery PROVE DeliveryInv(d)'
    <3>1. DeliveryInv(d) /\ Current(d)' = Current(d) /\ InFlight' = InFlight
      BY <1>3 DEF CarryInv, Current, InFlight
    <3> QED
      BY <1>2, <1>3, <2>1, <2>2, <3>1 DEF DeliveryInv, LeaseIsCarried
  <2>4. ASSUME NEW a \in Attempt PROVE AttemptInv(a)'
    <3>1. AttemptInv(a) /\ Unsettled(a)' = Unsettled(a) /\ a[1] \in Delivery
      BY <1>2, <1>3, AttemptParts DEF CarryInv, Unsettled
    <3>2. Unsettled(a) => a[1] \notin taken
      BY <2>2, <3>1 DEF AttemptInv
    <3> QED
      BY <1>2, <1>3, <2>1, <2>2, <3>1, <3>2 DEF AttemptInv
  <2> QED
    BY <2>3, <2>4
<1> QED
  BY <1>4, <1>5

LEMMA HandOutCarries ==
  ASSUME RoomInv, CarryInv, NEW e \in Delivery, HandOut(e)
  PROVE  /\ \A d \in Delivery : DeliveryInv(d)'
         /\ \A a \in Attempt : AttemptInv(a)'
<1>1. /\ TypeOK /\ UNCHANGED <<pool, row, attempts, request, stranded>>
      /\ e \in jobs /\ jobs' = jobs \ {e} /\ task' = [task EXCEPT ![Current(e)] = "sending"]
  BY DEF RoomInv, Booked, HandOut, table
<1>2. /\ \A d \in Delivery : Phase(Poster(d))' = Phase(Poster(d))
      /\ \A a \in Attempt : Phase(Settler(a))' = Phase(Settler(a))
  BY <1>1 DEF pool, Phase
<1>3. /\ row[e] = "leased" /\ e \notin stranded /\ task[Current(e)] = "none"
      /\ attempts[e] < MaxAttempts /\ Current(e) \in Attempt
  BY <1>1, CurrentIsAttempt DEF CarryInv, DeliveryInv
<1>4. /\ task'[Current(e)] = "sending"
      /\ \A a \in Attempt : a # Current(e) => task'[a] = task[a]
  BY <1>1, <1>3 DEF TypeOK
<1>5. ASSUME NEW d \in Delivery PROVE DeliveryInv(d)'
  <2>1. DeliveryInv(d) /\ Current(d)' = Current(d)
    BY <1>1 DEF CarryInv, Current
  <2>2. CASE d = e
    BY <1>1, <1>2, <1>3, <1>4, <2>1, <2>2 DEF DeliveryInv, LeaseIsCarried, InFlight
  <2>3. CASE d # e
    <3>1. row[d] # "done" => Current(d) \in Attempt /\ task'[Current(d)] = task[Current(d)]
      BY <1>1, <1>4, <2>1, <2>3, CurrentIsAttempt DEF DeliveryInv
    <3>2. LeaseIsCarried(d)'
      BY <1>1, <2>1, <2>3, <3>1 DEF DeliveryInv, LeaseIsCarried, InFlight
    <3> QED
      BY <1>1, <1>2, <2>1, <2>3, <3>1, <3>2 DEF DeliveryInv
  <2> QED
    BY <2>2, <2>3
<1>6. ASSUME NEW a \in Attempt PROVE AttemptInv(a)'
  <2>1. AttemptInv(a) /\ a[1] \in Delivery
    BY AttemptParts DEF CarryInv
  <2>2. CASE a = Current(e)
    <3>1. a[1] = e /\ a[2] = attempts[e] /\ attempts[e] \in Nat
      BY <1>1, <2>2, CurrentIsAttempt
    <3>2. Phase(Settler(a)) = "quiet"
      BY <1>3, <2>1, <2>2 DEF AttemptInv
    <3> QED
      BY <1>1, <1>2, <1>3, <1>4, <2>2, <3>1, <3>2 DEF AttemptInv, Unsettled
  <2>3. CASE a # Current(e)
    BY <1>1, <1>2, <1>4, <2>1, <2>3 DEF AttemptInv, Unsettled
  <2> QED
    BY <2>2, <2>3
<1> QED
  BY <1>5, <1>6

LEMMA AnsweredCarries ==
  ASSUME RoomInv, CarryInv, NEW b \in Attempt, Answered(b)
  PROVE  /\ \A d \in Delivery : DeliveryInv(d)'
         /\ \A a \in Attempt : AttemptInv(a)'
<1>1. /\ TypeOK /\ UNCHANGED <<row, attempts, request, jobs, stranded>>
      /\ task[b] = "sending" /\ b[1] \in Delivery
  BY AttemptParts DEF RoomInv, Booked, Answered, table, claimer
<1>2. /\ task'[b] \in {"success", "failure"}
      /\ \A a \in Attempt : a # b => task'[a] = task[a]
  <2>1. CASE task' = [task EXCEPT ![b] = "success"]
    BY <1>1, <2>1 DEF TypeOK
  <2>2. CASE task' = [task EXCEPT ![b] = "failure"]
    BY <1>1, <2>2 DEF TypeOK
  <2> QED
    BY <2>1, <2>2 DEF Answered
<1>3. Phase(Settler(b))' = "before" /\ OthersStay(Settler(b))
  BY PoolPhases, CallersAreCallers DEF Answered, RoomInv, Booked
<1>4. /\ \A d \in Delivery : Phase(Poster(d))' = Phase(Poster(d))
      /\ \A a \in Attempt : a # b => Phase(Settler(a))' = Phase(Settler(a))
  BY <1>3, CallersDiffer, CallersAreCallers DEF OthersStay
<1>5. /\ row[b[1]] = "leased" /\ Current(b[1]) = b /\ b[1] \notin jobs \cup stranded
      /\ attempts[b[1]] = b[2]
  BY <1>1, CurrentIsAttempt DEF CarryInv, AttemptInv, Unsettled
<1>6. ASSUME NEW d \in Delivery PROVE DeliveryInv(d)'
  <2>1. DeliveryInv(d) /\ Current(d)' = Current(d) /\ Current(d)[1] = d
    BY <1>1, CurrentIsAttempt DEF CarryInv, Current
  <2>2. CASE d = b[1]
    BY <1>1, <1>2, <1>4, <1>5, <2>1, <2>2 DEF DeliveryInv, LeaseIsCarried, InFlight
  <2>3. CASE d # b[1]
    <3>1. row[d] # "done" => Current(d) \in Attempt /\ task'[Current(d)] = task[Current(d)]
      BY <1>1, <1>2, <2>1, <2>3, CurrentIsAttempt DEF DeliveryInv
    <3>2. LeaseIsCarried(d)'
      BY <1>1, <2>1, <3>1 DEF DeliveryInv, LeaseIsCarried, InFlight
    <3> QED
      BY <1>1, <1>4, <2>1, <3>1, <3>2 DEF DeliveryInv
  <2> QED
    BY <2>2, <2>3
<1>7. ASSUME NEW a \in Attempt PROVE AttemptInv(a)'
  <2>1. CASE a = b
    BY <1>1, <1>2, <1>3, <1>5, <2>1 DEF CarryInv, AttemptInv, Unsettled
  <2>2. CASE a # b
    BY <1>1, <1>2, <1>4, <2>2 DEF CarryInv, AttemptInv, Unsettled
  <2> QED
    BY <2>1, <2>2
<1> QED
  BY <1>6, <1>7

LEMMA SettleCarries ==
  ASSUME RoomInv, CarryInv, NEW b \in Attempt, Settle(b)
  PROVE  /\ \A d \in Delivery : DeliveryInv(d)'
         /\ \A a \in Attempt : AttemptInv(a)'
<1>1. TypeOK /\ UNCHANGED <<request, task, jobs>> /\ b[1] \in Delivery /\ b[2] \in Nat
  BY AttemptParts DEF RoomInv, Booked, Settle, claimer
<1>2. /\ Phase(Settler(b)) = "before" /\ Phase(Settler(b))' = "after"
      /\ OthersStay(Settler(b))
  BY PoolPhases, CallersAreCallers DEF Settle, RoomInv, Booked
<1>3. /\ \A d \in Delivery : Phase(Poster(d))' = Phase(Poster(d))
      /\ \A a \in Attempt : a # b => Phase(Settler(a))' = Phase(Settler(a))
  BY <1>2, CallersDiffer, CallersAreCallers DEF OthersStay
<1>4. /\ task[b] \in {"success", "failure"}
      /\ row[b[1]] = "leased" /\ Current(b[1]) = b /\ b[1] \notin jobs \cup stranded
      /\ attempts[b[1]] = b[2]
  BY <1>1, <1>2, CurrentIsAttempt DEF CarryInv, AttemptInv, Unsettled
<1>5. CASE /\ attempts' = [attempts EXCEPT ![b[1]] = b[2] + 1]
           /\ row' = [row EXCEPT ![b[1]] = IF Retried(b) THEN "later" ELSE "done"]
           /\ UNCHANGED stranded
  <2>1. /\ attempts'[b[1]] = b[2] + 1
        /\ row'[b[1]] = IF Retried(b) THEN "later" ELSE "done"
        /\ \A d \in Delivery : d # b[1] => attempts'[d] = attempts[d] /\ row'[d] = row[d]
    BY <1>1, <1>5 DEF TypeOK
  <2>2. ASSUME NEW d \in Delivery PROVE DeliveryInv(d)'
    <3>1. DeliveryInv(d) /\ InFlight' = InFlight
      BY <1>1 DEF CarryInv, InFlight
    <3>2. CASE d = b[1]
      <4>1. CASE Retried(b)
        <5>1. row'[d] = "later" /\ attempts'[d] = b[2] + 1 /\ b[2] + 1 < MaxAttempts
          BY <2>1, <3>2, <4>1 DEF Retried
        <5>2. Current(d)' \in Attempt /\ Current(d)'[1] = d /\ Current(d)'[2] = b[2] + 1
          BY <1>1, <5>1, AttemptParts DEF Current
        <5>3. task[Current(d)'] = "none"
          BY <1>1, <1>4, <3>2, <5>2 DEF CarryInv, AttemptInv, TypeOK
        <5> QED
          BY <1>1, <1>3, <1>4, <1>5, <3>1, <3>2, <5>1, <5>3 DEF DeliveryInv, LeaseIsCarried
      <4>2. CASE ~Retried(b)
        <5>1. row'[d] = "done"
          BY <2>1, <3>2, <4>2
        <5> QED
          BY <1>1, <1>3, <1>4, <1>5, <3>1, <3>2, <5>1 DEF DeliveryInv, LeaseIsCarried
      <4> QED
        BY <4>1, <4>2
    <3>3. CASE d # b[1]
      <4>1. Current(d)' = Current(d) /\ row'[d] = row[d] /\ attempts'[d] = attempts[d]
        BY <2>1, <3>3 DEF Current
      <4> QED
        BY <1>1, <1>3, <1>5, <3>1, <4>1 DEF DeliveryInv, LeaseIsCarried
    <3> QED
      BY <3>2, <3>3
  <2>3. ASSUME NEW a \in Attempt PROVE AttemptInv(a)'
    <3>1. AttemptInv(a) /\ a[1] \in Delivery /\ a[2] \in Nat /\ a = <<a[1], a[2]>>
      BY AttemptParts DEF CarryInv
    <3>2. CASE a = b
      <4>1. attempts'[a[1]] = a[2] + 1 /\ attempts'[a[1]] # a[2]
        BY <1>1, <2>1, <3>2
      <4>2. ~Unsettled(a)'
        BY <1>1, <1>2, <1>4, <3>2 DEF Unsettled
      <4> QED
        BY <1>1, <1>2, <1>4, <3>1, <3>2, <4>1, <4>2 DEF AttemptInv
    <3>3. CASE a # b /\ a[1] = b[1]
      <4>1. a[2] # b[2]
        BY <3>1, <3>3, AttemptParts
      <4>2. ~Unsettled(a) /\ ~Unsettled(a)'
        BY <1>1, <1>3, <1>4, <3>1, <3>3, <4>1 DEF AttemptInv, Unsettled
      <4>3. task[a] # "none" => a[2] < b[2]
        BY <1>1, <1>4, <3>1, <3>3, <4>1 DEF AttemptInv
      <4> QED
        BY <1>1, <1>3, <2>1, <3>1, <3>3, <4>2, <4>3 DEF AttemptInv
    <3>4. CASE a[1] # b[1]
      <4>1. a # b /\ Unsettled(a)' = Unsettled(a)
        BY <1>1, <1>3, <3>4 DEF Unsettled
      <4> QED
        BY <1>1, <1>3, <1>5, <2>1, <3>1, <3>4, <4>1 DEF AttemptInv
    <3> QED
      BY <3>2, <3>3, <3>4
  <2> QED
    BY <2>2, <2>3
<1>6. CASE Fault /\ stranded' = stranded \cup {b[1]}
  <2>1. UNCHANGED <<row, attempts>>
    BY <1>6 DEF Fault, table
  <2>2. ASSUME NEW d \in Delivery PROVE DeliveryInv(d)'
    <3>1. DeliveryInv(d) /\ InFlight' = InFlight /\ Current(d)' = Current(d)
      BY <1>1, <2>1 DEF CarryInv, InFlight, Current
    <3> QED
      BY <1>1, <1>3, <1>4, <1>6, <2>1, <3>1 DEF DeliveryInv, LeaseIsCarried
  <2>3. ASSUME NEW a \in Attempt PROVE AttemptInv(a)'
    <3>1. AttemptInv(a) /\ a[1] \in Delivery /\ a = <<a[1], a[2]>>
      BY AttemptParts DEF CarryInv
    <3>2. CASE a = b
      BY <1>1, <1>2, <1>4, <1>6, <2>1, <3>1, <3>2 DEF AttemptInv, Unsettled
    <3>3. CASE a # b
      <4>1. Unsettled(a)' = Unsettled(a) /\ (Unsettled(a) => a[1] # b[1])
        BY <1>1, <1>3, <1>4, <3>1, <3>3, AttemptParts DEF AttemptInv, Unsettled
      <4> QED
        BY <1>1, <1>3, <1>6, <2>1, <3>1, <3>3, <4>1 DEF AttemptInv
    <3> QED
      BY <3>2, <3>3
  <2> QED
    BY <2>2, <2>3
<1> QED
  BY <1>5, <1>6 DEF Settle

LEMMA SettledCarries ==
  ASSUME RoomInv, CarryInv, NEW b \in Attempt, Settled(b)
  PROVE  /\ \A d \in Delivery : DeliveryInv(d)'
         /\ \A a \in Attempt : AttemptInv(a)'
<1>1. /\ TypeOK /\ UNCHANGED <<row, attempts, request, jobs, stranded>>
      /\ b[1] \in Delivery /\ task[b] \in {"success", "failure"}
  BY AttemptParts DEF RoomInv, Booked, Settled, table, claimer
<1>2. task'[b] = "none" /\ \A a \in Attempt : a # b => task'[a] = task[a]
  BY DEF Settled, Released, RoomInv, Booked, TypeOK
<1>3. /\ Phase(Settler(b)) = "after" /\ Phase(Settler(b))' = "quiet"
      /\ OthersStay(Settler(b))
  BY PoolPhases, CallersAreCallers DEF Settled, RoomInv, Booked
<1>4. /\ \A d \in Delivery : Phase(Poster(d))' = Phase(Poster(d))
      /\ \A a \in Attempt : a # b => Phase(Settler(a))' = Phase(Settler(a))
  BY <1>3, CallersDiffer, CallersAreCallers DEF OthersStay
<1>5. attempts[b[1]] # b[2] \/ b[1] \in stranded
  BY <1>3 DEF CarryInv, AttemptInv
<1>6. ASSUME NEW d \in Delivery PROVE DeliveryInv(d)'
  <2>1. /\ DeliveryInv(d) /\ Current(d)' = Current(d)
        /\ Current(d)[1] = d /\ Current(d)[2] = attempts[d]
    BY <1>1, CurrentIsAttempt DEF CarryInv, Current
  <2>2. CASE Current(d) = b
    BY <1>1, <1>2, <1>4, <1>5, <2>1, <2>2 DEF DeliveryInv, LeaseIsCarried
  <2>3. CASE Current(d) # b
    <3>1. row[d] # "done" => Current(d) \in Attempt /\ task'[Current(d)] = task[Current(d)]
      BY <1>1, <1>2, <2>1, <2>3, CurrentIsAttempt DEF DeliveryInv
    <3>2. LeaseIsCarried(d)'
      BY <1>1, <2>1, <3>1 DEF DeliveryInv, LeaseIsCarried, InFlight
    <3> QED
      BY <1>1, <1>4, <2>1, <3>1, <3>2 DEF DeliveryInv
  <2> QED
    BY <2>2, <2>3
<1>7. ASSUME NEW a \in Attempt PROVE AttemptInv(a)'
  <2>1. CASE a = b
    BY <1>2, <1>3, <2>1 DEF AttemptInv, Unsettled
  <2>2. CASE a # b
    BY <1>1, <1>2, <1>4, <2>2 DEF CarryInv, AttemptInv, Unsettled
  <2> QED
    BY <2>1, <2>2
<1> QED
  BY <1>6, <1>7

(* A delivery becomes due while none of its attempts is under way. *)
LEMMA RowChangeCarries ==
  ASSUME TypeOK, CarryInv, NEW e \in Delivery,
         row' = [row EXCEPT ![e] = "due"], UNCHANGED <<attempts, request, task, jobs>>,
         request[e] # "new", task[Current(e)] = "none", attempts[e] < MaxAttempts,
         e \notin jobs, stranded' = stranded \ {e},
         \A d \in Delivery : d # e => Phase(Poster(d))' = Phase(Poster(d)),
         Phase(Poster(e))' # "before",
         \A a \in Attempt : Phase(Settler(a))' = Phase(Settler(a))
  PROVE  /\ \A d \in Delivery : DeliveryInv(d)'
         /\ \A a \in Attempt : AttemptInv(a)'
<1>1. row'[e] = "due" /\ \A d \in Delivery : d # e => row'[d] = row[d]
  BY DEF TypeOK
<1>2. InFlight' = InFlight
  BY DEF InFlight
<1>3. ASSUME NEW d \in Delivery PROVE DeliveryInv(d)'
  <2>1. DeliveryInv(d) /\ Current(d)' = Current(d)
    BY DEF CarryInv, Current
  <2>2. CASE d = e
    BY <1>1, <2>1, <2>2 DEF DeliveryInv, LeaseIsCarried
  <2>3. CASE d # e
    BY <1>1, <1>2, <2>1, <2>3 DEF DeliveryInv, LeaseIsCarried
  <2> QED
    BY <2>2, <2>3
<1>4. ASSUME NEW a \in Attempt PROVE AttemptInv(a)'
  <2>1. AttemptInv(a) /\ Unsettled(a)' = Unsettled(a) /\ a[1] \in Delivery
    BY AttemptParts DEF CarryInv, Unsettled
  <2>2. CASE a[1] = e
    <3>1. attempts[e] = a[2] => Current(e) = a /\ task[a] = "none"
      BY <2>2, CurrentIsAttempt
    <3>2. ~Unsettled(a) /\ (Phase(Settler(a)) = "after" => attempts[e] # a[2])
      BY <2>1, <2>2, <3>1 DEF AttemptInv, Unsettled
    <3> QED
      BY <2>1, <2>2, <3>2 DEF AttemptInv
  <2>3. CASE a[1] # e
    BY <1>1, <2>1, <2>3 DEF AttemptInv
  <2> QED
    BY <2>2, <2>3
<1> QED
  BY <1>3, <1>4

(* A retry that comes due, and a lost lease that lapses. *)
LEMMA DueCarries ==
  ASSUME RoomInv, CarryInv, NEW e \in Delivery, DueStep(e)
  PROVE  /\ \A d \in Delivery : DeliveryInv(d)'
         /\ \A a \in Attempt : AttemptInv(a)'
<1>1. /\ TypeOK /\ DeliveryInv(e) /\ row' = [row EXCEPT ![e] = "due"]
      /\ UNCHANGED <<pool, attempts, request, task, jobs>>
      /\ row[e] \in {"later", "leased"}
  BY DEF RoomInv, Booked, CarryInv, DueStep, Ripen, Lapse, claimer
<1>2. /\ \A d \in Delivery : Phase(Poster(d))' = Phase(Poster(d))
      /\ \A a \in Attempt : Phase(Settler(a))' = Phase(Settler(a))
  BY <1>1 DEF pool, Phase
<1>3. /\ request[e] # "new" /\ attempts[e] < MaxAttempts
      /\ Phase(Poster(e)) # "before"
  BY <1>1 DEF DeliveryInv
<1>4. /\ task[Current(e)] = "none" /\ e \notin jobs
      /\ stranded' = stranded \ {e}
  BY <1>1 DEF DueStep, Ripen, Lapse, DeliveryInv
<1> QED
  BY <1>1, <1>2, <1>3, <1>4, RowChangeCarries

LEMMA CreateCarries ==
  ASSUME RoomInv, CarryInv, NEW e \in Delivery, Create(e)
  PROVE  /\ \A d \in Delivery : DeliveryInv(d)'
         /\ \A a \in Attempt : AttemptInv(a)'
<1>1. /\ TypeOK /\ DeliveryInv(e)
      /\ UNCHANGED <<attempts, request, task, jobs, stranded>>
  BY DEF RoomInv, Booked, CarryInv, Create, Fault, table, claimer
<1>2. /\ Phase(Poster(e)) = "before" /\ Phase(Poster(e))' = "after"
      /\ OthersStay(Poster(e))
  BY PoolPhases, CallersAreCallers DEF Create, RoomInv, Booked
<1>3. /\ \A d \in Delivery : d # e => Phase(Poster(d))' = Phase(Poster(d))
      /\ \A a \in Attempt : Phase(Settler(a))' = Phase(Settler(a))
  BY <1>2, CallersDiffer, CallersAreCallers DEF OthersStay
<1>4. /\ row[e] = "absent" /\ request[e] # "new" /\ attempts[e] < MaxAttempts
      /\ task[Current(e)] = "none" /\ e \notin jobs /\ e \notin stranded
  BY <1>1, <1>2 DEF DeliveryInv
<1>5. CASE row' = [row EXCEPT ![e] = "due"]
  <2>1. stranded' = stranded \ {e}
    BY <1>1, <1>4
  <2> QED
    BY <1>1, <1>2, <1>3, <1>4, <1>5, <2>1, RowChangeCarries
<1>6. CASE UNCHANGED row
  <2>1. ASSUME NEW d \in Delivery PROVE DeliveryInv(d)'
    BY <1>1, <1>2, <1>3, <1>4, <1>6
       DEF CarryInv, DeliveryInv, LeaseIsCarried, Current, InFlight
  <2>2. ASSUME NEW a \in Attempt PROVE AttemptInv(a)'
    BY <1>1, <1>3, <1>6 DEF CarryInv, AttemptInv, Unsettled
  <2> QED
    BY <2>1, <2>2
<1> QED
  BY <1>5, <1>6 DEF Create, Fault, table

(* A request that begins, is answered or hung up on. *)
LEMMA RequestCarries ==
  ASSUME RoomInv, CarryInv, NEW e \in Delivery, Post(e) \/ Poke(e) \/ HangUp(e)
  PROVE  /\ \A d \in Delivery : DeliveryInv(d)'
         /\ \A a \in Attempt : AttemptInv(a)'
<1>1. /\ TypeOK /\ UNCHANGED <<row, attempts, task, jobs, stranded>>
      /\ request' \in {[request EXCEPT ![e] = "calling"], [request EXCEPT ![e] = "ended"]}
  BY DEF RoomInv, Booked, Post, Poke, HangUp, table, claimer
<1>2. request'[e] # "new" /\ \A d \in Delivery : d # e => request'[d] = request[d]
  <2>1. CASE request' = [request EXCEPT ![e] = "calling"]
    BY <1>1, <2>1 DEF TypeOK
  <2>2. CASE request' = [request EXCEPT ![e] = "ended"]
    BY <1>1, <2>2 DEF TypeOK
  <2> QED
    BY <1>1, <2>1, <2>2
<1>3. /\ OthersStay(Poster(e))
      /\ Phase(Poster(e))' = "before" => row[e] = "absent"
  <2>1. CASE Post(e)
    BY <2>1, PoolPhases, CallersAreCallers
       DEF Post, RoomInv, Booked, CarryInv, DeliveryInv
  <2>2. CASE Poke(e)
    BY <2>2, PoolPhases, CallersAreCallers DEF Poke, RoomInv, Booked
  <2>3. CASE HangUp(e)
    BY <2>3, PoolPhases, CallersAreCallers
       DEF HangUp, RoomInv, Booked, CarryInv, DeliveryInv
  <2> QED
    BY <2>1, <2>2, <2>3
<1>4. /\ \A d \in Delivery : d # e => Phase(Poster(d))' = Phase(Poster(d))
      /\ \A a \in Attempt : Phase(Settler(a))' = Phase(Settler(a))
  BY <1>3, CallersDiffer, CallersAreCallers DEF OthersStay
<1>5. ASSUME NEW d \in Delivery PROVE DeliveryInv(d)'
  BY <1>1, <1>2, <1>3, <1>4 DEF CarryInv, DeliveryInv, LeaseIsCarried, Current, InFlight
<1>6. ASSUME NEW a \in Attempt PROVE AttemptInv(a)'
  BY <1>1, <1>4 DEF CarryInv, AttemptInv, Unsettled
<1> QED
  BY <1>5, <1>6

(* The loop stops with nothing in flight, and starts nothing afterwards. *)
LEMMA StopHolds ==
  ASSUME RoomInv, CarryInv, [Next]_vars
  PROVE  StopInv'
<1>1. StopInv /\ TypeOK
  BY DEF CarryInv, RoomInv, Booked
<1>2. CASE LoopStep
  <2>1. CASE Drain
    BY <1>1, <2>1 DEF Drain, Drained, StopInv, InFlight
  <2>2. CASE ~Drain /\ (Top \/ Claimed \/ Poll \/ Told \/ \E d \in Delivery : HandOut(d))
    <3>1. loop # "stopped" /\ loop' # "stopped" /\ UNCHANGED stage
      <4>1. CASE Claimed
        BY <4>1 DEF Claimed
      <4> QED
        BY <2>2, <4>1 DEF Top, Poll, PollFires, Told, HandOut
    <3> QED
      BY <1>1, <3>1 DEF StopInv
  <2>3. CASE ClaimDue \/ PoolStep(Claimer)
    BY <1>1, <2>3 DEF ClaimDue, PoolStep, claimer, StopInv, InFlight
  <2> QED
    BY <1>2, <2>1, <2>2, <2>3 DEF LoopStep
<1>3. CASE \E a \in Attempt : TaskStep(a)
  <2>1. PICK a \in Attempt : TaskStep(a)
    BY <1>3
  <2>2. UNCHANGED <<loop, stage>>
    BY <2>1 DEF TaskStep, Answered, Settle, Settled, PoolStep, claimer
  <2>3. InFlight' \subseteq InFlight
    BY <1>1, <2>1
       DEF TaskStep, Answered, Settle, Settled, Released, PoolStep, InFlight, TypeOK
  <2> QED
    BY <1>1, <2>2, <2>3 DEF StopInv
<1>4. CASE \E d \in Delivery : RequestStep(d) \/ DueStep(d) \/ Post(d) \/ HangUp(d)
  <2>1. UNCHANGED <<loop, stage, task>>
    BY <1>4
       DEF RequestStep, Create, Poke, PoolStep, DueStep, Ripen, Lapse, Post, HangUp, claimer
  <2> QED
    BY <1>1, <2>1 DEF StopInv, InFlight
<1>5. CASE Woken \/ Signal \/ TellWorkers \/ Exit \/ UNCHANGED vars
  BY <1>1, <1>5 DEF Woken, Signal, TellWorkers, Exit, vars, claimer, StopInv, InFlight
<1> QED
  BY <1>2, <1>3, <1>4, <1>5 DEF Next

LEMMA CarryStep == RoomInv /\ CarryInv /\ [Next]_vars => CarryInv'
<1> SUFFICES ASSUME RoomInv, CarryInv, [Next]_vars PROVE CarryInv'
  OBVIOUS
<1>1. PoolInv
  BY DEF RoomInv, Booked
<1> DEFINE Frame == UNCHANGED <<row, attempts, request, task, jobs, stranded>>
           Phases == /\ \A d \in Delivery : Phase(Poster(d))' = Phase(Poster(d))
                     /\ \A a \in Attempt : Phase(Settler(a))' = Phase(Settler(a))
           Goal == /\ \A d \in Delivery : DeliveryInv(d)'
                   /\ \A a \in Attempt : AttemptInv(a)'
<1>2. CASE Top \/ Claimed
  <2>1. Frame
    BY <1>2 DEF Top, Claimed, table
  <2>2. ASSUME UNCHANGED pool PROVE Goal
    BY <2>1, <2>2, CarryKept DEF pool, Phase
  <2>3. ASSUME Pool!Ask(Claimer) \/ Pool!Return(Claimer) PROVE Goal
    <3>1. OthersStay(Claimer)
      BY <1>1, <2>3, PoolPhases, CallersAreCallers
    <3>2. Phases
      BY <3>1, CallersDiffer, CallersAreCallers DEF OthersStay
    <3> QED
      BY <2>1, <3>2, CarryKept
  <2>4. Goal
    BY <1>2, <2>2, <2>3 DEF Top, Claimed
  <2> QED
    BY <2>4, StopHolds DEF CarryInv
<1>3. CASE \E c \in Caller : PoolStep(c)
  <2>1. PICK c \in Caller : PoolStep(c)
    BY <1>3
  <2>2. Frame
    BY <2>1 DEF PoolStep, table, claimer
  <2>3. Phase(c)' = Phase(c) /\ OthersStay(c)
    BY <1>1, <2>1, PoolPhases DEF PoolStep
  <2>4. Phases
    BY <2>3, CallersAreCallers DEF OthersStay
  <2>5. Goal
    BY <2>2, <2>4, CarryKept
  <2> QED
    BY <2>5, StopHolds DEF CarryInv
<1>4. CASE Woken \/ Poll \/ Told \/ Drain \/ Signal \/ TellWorkers \/ Exit \/ UNCHANGED vars
  <2>1. Frame /\ UNCHANGED pool
    BY <1>4 DEF Woken, Poll, Told, Drain, Signal, TellWorkers, Exit, vars, table, claimer, pool
  <2>2. Goal
    BY <2>1, CarryKept DEF pool, Phase
  <2> QED
    BY <2>2, StopHolds DEF CarryInv
<1>5. CASE ClaimDue \/ \E d \in Delivery : HandOut(d)
  BY <1>5, ClaimCarries, HandOutCarries, StopHolds DEF CarryInv
<1>6. CASE \E a \in Attempt : Answered(a) \/ Settle(a) \/ Settled(a)
  BY <1>6, AnsweredCarries, SettleCarries, SettledCarries, StopHolds DEF CarryInv
<1>7. CASE \E d \in Delivery : DueStep(d) \/ Create(d)
  BY <1>7, DueCarries, CreateCarries, StopHolds DEF CarryInv
<1>8. CASE \E d \in Delivery : Post(d) \/ Poke(d) \/ HangUp(d)
  BY <1>8, RequestCarries, StopHolds DEF CarryInv
<1> QED
  BY <1>2, <1>3, <1>4, <1>5, <1>6, <1>7, <1>8, CallersAreCallers
     DEF Next, LoopStep, TaskStep, RequestStep

LEMMA CarryStarts == Init => CarryInv
<1> SUFFICES ASSUME Init PROVE CarryInv
  OBVIOUS
<1>1. /\ \A d \in Delivery : Phase(Poster(d)) = "quiet"
      /\ \A a \in Attempt : Phase(Settler(a)) = "quiet"
  BY CallersAreCallers DEF Init, Pool!PoolInit, Phase
<1>2. TypeOK
  BY BookedStarts DEF Booked
<1>3. ASSUME NEW d \in Delivery PROVE DeliveryInv(d)
  <2>1. attempts[d] = 0 /\ attempts[d] < MaxAttempts /\ Current(d) \in Attempt
    BY <1>2, LoopAssumption, CurrentIsAttempt DEF Init
  <2> QED
    BY <1>1, <2>1 DEF Init, DeliveryInv, LeaseIsCarried
<1>4. ASSUME NEW a \in Attempt PROVE AttemptInv(a)
  BY <1>1 DEF Init, AttemptInv, Unsettled
<1> QED
  BY <1>3, <1>4 DEF Init, CarryInv, StopInv, InFlight

(* Every lease is in somebody's hands, whatever fails, whoever hangs up    *)
(* and whenever the server is told to stop, for any number of deliveries,  *)
(* permits, connections and attempts.                                      *)
THEOREM LeasesHaveCarriers == Spec => []LeasesAreCarried
<1>1. RoomInv /\ CarryInv => LeasesAreCarried
  <2> SUFFICES ASSUME RoomInv, CarryInv PROVE LeasesAreCarried
    OBVIOUS
  <2>1. \A d \in Delivery : LeaseIsCarried(d)
    BY DEF CarryInv, DeliveryInv
  <2>2. stage = "stopped" => InFlight = {} /\ jobs = {}
    BY DEF CarryInv, StopInv, RoomInv, LoopInv
  <2> QED
    BY <2>1, <2>2 DEF LeaseIsCarried, LeasesAreCarried
<1> QED
  BY <1>1, RoomHolds, CarryStarts, CarryStep, PTL DEF Spec
=============================================================================
