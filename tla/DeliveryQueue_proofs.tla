----------------------- MODULE DeliveryQueue_proofs -----------------------
(***************************************************************************)
(* What is proved of the delivery queue for every value of its constants:  *)
(* types, the life cycle it implements, one request at a time, and what it *)
(* promises about waits, circuits, rate limits, leases and an operator's    *)
(* decisions, however many workers, processes and operators there are.     *)
(***************************************************************************)
EXTENDS DeliveryQueue, TLAPS

(* The two policies stay within their ceilings. *)
LEMMA DelaysBounded ==
  ASSUME NEW n \in Nat
  PROVE  /\ Delays(n) \subseteq 0..MaxDelay \cup {0}
         /\ n >= MaxAttempts /\ n # 0 => Delays(n) = {}
BY BackoffAssumption DEF Delays

LEMMA CooldownBounded ==
  ASSUME NEW n \in Nat
  PROVE  CooldownFor(n) \in Int /\ CooldownFor(n) <= MaxCooldown
BY BreakerAssumption DEF CooldownFor

LEMMA RowShapes ==
  ASSUME NEW t \in Nat, NEW r \in Row
  PROVE  Absent \in Row /\ Queued(t) \in Row /\ Replayed(r, t) \in Row /\ Cancelled(r) \in Row
BY DEF Absent, Queued, Replayed, Cancelled, Row, Pending, Terminal, Null

LEMMA SpacingIsPositive ==
  ASSUME NEW e \in Endpoint, Limited(e)
  PROVE  Spacing(e) \in Nat /\ Spacing(e) > 0
BY QueueAssumption DEF Spacing, Limited

(* A claim picks deliveries that are due and nothing else. *)
LEMMA PicksAreDue ==
  ASSUME NEW n, NEW picked \in Picks(n)
  PROVE  picked \subseteq {d \in Delivery : Due(d)}
<1>1. PICK first \in UnlimitedPicks(n) :
        \E second \in LimitedPicks(n - Cardinality(first)) : picked = first \cup second
  BY DEF Picks
<1>2. PICK second \in LimitedPicks(n - Cardinality(first)) : picked = first \cup second
  BY <1>1
<1>3. first \subseteq {d \in Delivery : Due(d)}
  BY DEF UnlimitedPicks
<1>4. second \subseteq {d \in Delivery : Due(d)}
  BY DEF LimitedPicks
<1> QED
  BY <1>2, <1>3, <1>4

LEMMA HealthShapes ==
  ASSUME NEW h \in Health
  PROVE  Recovered(h) \in Health /\ NoHealth \in Health
<1>1. Null \in Int
  BY DEF Null
<1>2. [h EXCEPT !.failures = 0, !.openUntil = Null] \in Health
  BY <1>1 DEF Health
<1>3. NoHealth \in Health
  BY <1>1 DEF NoHealth, Health
<1> QED
  BY <1>2, <1>3 DEF Recovered

LEMMA TypeTick == TypeOK /\ Tick => TypeOK'
BY QueueAssumption DEF TypeOK, Tick, table

LEMMA TypePrune == TypeOK /\ Prune => TypeOK'
BY DEF TypeOK, Prune

LEMMA TypeStart == ASSUME NEW p \in Proc PROVE TypeOK /\ Start(p) => TypeOK'
BY DEF TypeOK, Start, Reclaimed, Row, Null

LEMMA TypeCrash == ASSUME NEW p \in Proc PROVE TypeOK /\ Crash(p) => TypeOK'
BY DEF TypeOK, Crash, table, Idle

LEMMA JobOf ==
  ASSUME TypeOK, NEW w \in Worker, Busy(w)
  PROVE  job[w] \in Job
BY DEF TypeOK, Busy, Idle

LEMMA NowIsNat == TypeOK => now \in Nat
BY QueueAssumption DEF TypeOK

LEMMA SendingJob ==
  ASSUME NEW r \in Job, NEW t \in Nat
  PROVE  [r EXCEPT !.phase = "sending", !.since = t] \in Job
BY DEF Job

Answered(j, outcome, retryAt) ==
  [j EXCEPT !.phase = "answered", !.since = now, !.outcome = outcome, !.retryAt = retryAt]

LEMMA AnsweredJob ==
  ASSUME NEW r \in Job, now \in Nat, NEW o \in {"success", "failure"},
         NEW retry \in Nat \cup {Null}
  PROVE  Answered(r, o, retry) \in Job
BY DEF Answered, Job

LEMMA TypeSend == ASSUME NEW w \in Worker PROVE TypeOK /\ Send(w) => TypeOK'
<1> SUFFICES ASSUME TypeOK, Send(w) PROVE TypeOK'
  OBVIOUS
<1>1. job[w] \in Job
  BY JobOf DEF Send, Busy
<1>2. [job[w] EXCEPT !.phase = "sending", !.since = now] \in Job
  BY <1>1, SendingJob, NowIsNat
<1>3. job' = [job EXCEPT ![w] = [job[w] EXCEPT !.phase = "sending", !.since = now]]
  BY DEF Send, TypeOK
<1> QED
  BY <1>2, <1>3 DEF TypeOK, Send, table

(* What the three answers write: the worker's own job and nothing else. *)
LEMMA FinishWrites ==
  ASSUME NEW w \in Worker, TypeOK, NEW outcome, NEW retryAt, Finish(w, outcome, retryAt)
  PROVE  job[w] \in Job /\ job' = [job EXCEPT ![w] = Answered(job[w], outcome, retryAt)]
<1>1. job[w] \in Job
  BY JobOf DEF Finish, Busy
<1>2. job' = [job EXCEPT ![w] = Answered(job[w], outcome, retryAt)]
  BY DEF Finish, TypeOK, Answered
<1> QED
  BY <1>1, <1>2

LEMMA FinishSets ==
  ASSUME NEW w \in Worker, TypeOK, NEW outcome, NEW retryAt, Finish(w, outcome, retryAt)
  PROVE  /\ job[w] \in Job
         /\ job'[w].retryAt = retryAt /\ job'[w].outcome = outcome
         /\ job'[w].since = now /\ job'[w].phase = "answered"
         /\ job'[w].attempts = job[w].attempts
         /\ job'[w].delivery = job[w].delivery
         /\ job'[w].lease = job[w].lease
         /\ \A v \in Worker : v # w => job'[v] = job[v]
<1> DEFINE done == Answered(job[w], outcome, retryAt)
<1>1. job[w] \in Job /\ job' = [job EXCEPT ![w] = done]
  BY FinishWrites
<1>2. job'[w] = done /\ \A v \in Worker : v # w => job'[v] = job[v]
  BY <1>1 DEF TypeOK
<1>3. /\ done.retryAt = retryAt /\ done.outcome = outcome /\ done.since = now
      /\ done.phase = "answered" /\ done.attempts = job[w].attempts
      /\ done.delivery = job[w].delivery /\ done.lease = job[w].lease
  BY <1>1 DEF Job, Answered
<1> QED
  BY <1>1, <1>2, <1>3

LEMMA TypeFinish ==
  ASSUME NEW w \in Worker, TypeOK, NEW outcome \in {"success", "failure"},
         NEW retryAt \in Nat \cup {Null}, Finish(w, outcome, retryAt)
  PROVE  TypeOK'
<1>1. job[w] \in Job /\ job' = [job EXCEPT ![w] = Answered(job[w], outcome, retryAt)]
  BY FinishWrites
<1>2. Answered(job[w], outcome, retryAt) \in Job
  BY <1>1, AnsweredJob, NowIsNat
<1>3. job' \in [Worker -> Job \cup {Idle}]
  BY <1>1, <1>2 DEF TypeOK
<1>4. UNCHANGED <<now, table, up, cancels, overtaken>>
  BY DEF Finish
<1> QED
  BY <1>3, <1>4 DEF TypeOK, table

LEMMA TypePost == ASSUME NEW m \in Message PROVE TypeOK /\ Post(m) => TypeOK'
BY RowShapes DEF TypeOK, Post, Recent

LEMMA TypeReplay == ASSUME NEW d \in Delivery PROVE TypeOK /\ Replay(d) => TypeOK'
BY RowShapes, HealthShapes
   DEF TypeOK, Replay, Recent, CloseCircuit, Overtake, EndpointOf, Delivery

LEMMA TypeClaim == ASSUME NEW p \in Proc PROVE TypeOK /\ Claim(p) => TypeOK'
<1> SUFFICES ASSUME TypeOK, Claim(p) PROVE TypeOK'
  OBVIOUS
<1>1. PICK picked \in Picks(AtMost(BatchSize, IdleWorkers(p))),
           hired \in SUBSET IdleWorkers(p) :
        \E takes \in Bijection(hired, picked) :
          /\ row' = [d \in Delivery |->
                       IF d \in picked THEN [row[d] EXCEPT !.lease = now + Lease] ELSE row[d]]
          /\ job' = [w \in Worker |-> IF w \in hired THEN Granted(takes[w]) ELSE job[w]]
          /\ health' = [e \in Endpoint |->
                          IF Limited(e) /\ \E d \in picked : EndpointOf(d) = e
                          THEN [health[e] EXCEPT !.nextAllowed = now + Spacing(e)]
                          ELSE health[e]]
  BY DEF Claim
<1>2. PICK takes \in Bijection(hired, picked) :
        job' = [w \in Worker |-> IF w \in hired THEN Granted(takes[w]) ELSE job[w]]
  BY <1>1
<1>3. picked \subseteq Delivery
  BY PicksAreDue
<1>4. row' \in [Delivery -> Row]
  <2>1. row' = [d \in Delivery |->
                  IF d \in picked THEN [row[d] EXCEPT !.lease = now + Lease] ELSE row[d]]
    BY <1>1
  <2>2. \A d \in Delivery : row[d] \in Row
    BY DEF TypeOK
  <2>3. now + Lease \in Nat
    BY NowIsNat, QueueAssumption
  <2>4. \A r \in Row : [r EXCEPT !.lease = now + Lease] \in Row
    BY <2>3 DEF Row
  <2> QED
    BY <2>1, <2>2, <2>4
<1>5. job' \in [Worker -> Job \cup {Idle}]
  <2>1. ASSUME NEW w \in hired PROVE Granted(takes[w]) \in Job
    <3>1. takes[w] \in Delivery
      BY <1>3 DEF Bijection, Injection, Surjection
    <3> QED
      BY <3>1, NowIsNat, QueueAssumption DEF TypeOK, Granted, Job, Row
  <2> QED
    BY <1>2, <2>1 DEF TypeOK
<1>6. health' \in [Endpoint -> Health]
  BY <1>1, NowIsNat, SpacingIsPositive DEF TypeOK, Health, Limited
<1> QED
  BY <1>4, <1>5, <1>6 DEF TypeOK, Claim

LEMMA TypeAnswer ==
  ASSUME NEW w \in Worker,
         TypeOK, AnswerSuccess(w) \/ AnswerRetryable(w) \/ AnswerFatal(w)
  PROVE  TypeOK'
<1>1. CASE AnswerSuccess(w)
  BY <1>1, TypeFinish DEF AnswerSuccess
<1>2. CASE AnswerRetryable(w)
  <2>1. job[w] \in Job
    BY <1>2, JobOf DEF AnswerRetryable, Busy
  <2>2. RetryTimes(w) \subseteq Nat \cup {Null}
    BY <2>1, NowIsNat, DelaysBounded, BackoffAssumption DEF RetryTimes, Job
  <2> QED
    BY <1>2, <2>2, TypeFinish DEF AnswerRetryable
<1>3. CASE AnswerFatal(w)
  BY <1>3, TypeFinish DEF AnswerFatal
<1> QED
  BY <1>1, <1>2, <1>3

LEMMA RetryTimeIsNat ==
  ASSUME TypeOK, NEW w \in Worker, job[w] \in Job, job[w].retryAt # Null
  PROVE  RetryTime(w) \in Nat
<1>1. Consecutive(w) \in Nat
  BY DEF Consecutive, TypeOK, Health, Job, EndpointOf, Delivery
<1>2. ClosedUntil(w) \in Int
  BY <1>1, CooldownBounded DEF ClosedUntil, Job
<1> QED
  BY <1>2 DEF RetryTime, Job

LEMMA SettledRowIsRow ==
  ASSUME TypeOK, NEW w \in Worker, job[w] \in Job
  PROVE  SettledRow(w) \in Row
<1>1. row[job[w].delivery] \in Row
  BY DEF TypeOK, Job
<1>2. job[w].retryAt # Null => RetryTime(w) \in Nat
  BY RetryTimeIsNat
<1>3. job[w].attempts + 1 \in Nat
  BY DEF Job
<1> QED
  BY <1>1, <1>2, <1>3 DEF SettledRow, Superseded, Row, Terminal, Pending

LEMMA DrainIsTable ==
  ASSUME NEW rows \in [Delivery -> Row], NEW e \in Endpoint
  PROVE  Drain(rows, e) \in [Delivery -> Row]
BY RowShapes DEF Drain

LEMMA TypeSettle ==
  ASSUME NEW w \in Worker,
         TypeOK, SettleSuccess(w) \/ SettleFailure(w) \/ SettleFails(w)
  PROVE  TypeOK'
<1> DEFINE d == job[w].delivery
           e == EndpointOf(d)
           settled == [row EXCEPT ![d] = SettledRow(w)]
<1>1. job[w] \in Job
  BY JobOf DEF SettleSuccess, SettleFailure, SettleFails, Record, Busy
<1>2. d \in Delivery /\ e \in Endpoint /\ job[w].attempts + 1 \in Nat
  BY <1>1 DEF Job, EndpointOf, Delivery
<1>3. settled \in [Delivery -> Row]
  BY <1>1, SettledRowIsRow DEF TypeOK
<1>4. Release(w) => job' \in [Worker -> Job \cup {Idle}] /\ overtaken' \subseteq Worker
  BY DEF TypeOK, Release
<1>5. Record(w) => attemptLog' \subseteq Delivery \X Nat
  BY <1>2 DEF TypeOK, Record
<1>6. Consecutive(w) \in Nat /\ ClosedUntil(w) \in Int
  <2>1. Consecutive(w) \in Nat
    BY <1>2 DEF Consecutive, TypeOK, Health
  <2> QED
    BY <1>1, <2>1, CooldownBounded DEF ClosedUntil, Job
<1>7. CASE SettleSuccess(w)
  <2>1. health' \in [Endpoint -> Health]
    BY <1>2, <1>7, HealthShapes DEF SettleSuccess, TypeOK
  <2> QED
    BY <1>3, <1>4, <1>5, <1>7, <2>1 DEF SettleSuccess, TypeOK
<1>8. CASE SettleFailure(w)
  <2>1. health' \in [Endpoint -> Health]
    <3>1. Failed(w) \in Health
      BY <1>2, <1>6 DEF Failed, TypeOK, Health
    <3> QED
      BY <1>8, <3>1 DEF SettleFailure, TypeOK
  <2>2. row' \in [Delivery -> Row]
    <3>1. row' = Drain(settled, e) \/ row' = settled
      BY <1>8 DEF SettleFailure
    <3> HIDE DEF settled, e
    <3>2. Drain(settled, e) \in [Delivery -> Row]
      BY <1>2, <1>3, DrainIsTable
    <3> QED
      BY <1>3, <3>1, <3>2
  <2>3. mode' \in [Endpoint -> {"active", "disabled", "gone"}]
    BY <1>8 DEF SettleFailure, TypeOK
  <2> QED
    BY <1>4, <1>5, <1>8, <2>1, <2>2, <2>3 DEF SettleFailure, TypeOK
<1>9. CASE SettleFails(w)
  BY <1>4, <1>9 DEF SettleFails, TypeOK, table
<1> QED
  BY <1>7, <1>8, <1>9

LEMMA BroughtForwardIsTable ==
  ASSUME NEW rows \in [Delivery -> Row], NEW e \in Endpoint, NEW t \in Nat
  PROVE  BroughtForward(rows, e, t) \in [Delivery -> Row]
BY DEF BroughtForward, Row

LEMMA TypeEndpoint ==
  ASSUME NEW e \in Endpoint, TypeOK, EndpointStep(e)
  PROVE  TypeOK'
<1>1. Recent \subseteq Nat
  BY DEF Recent
<1>2. CloseCircuit(e) => health' \in [Endpoint -> Health]
  BY HealthShapes DEF CloseCircuit, TypeOK
<1>3. NoHealth \in Health
  BY HealthShapes DEF TypeOK
<1>4. CASE BulkReplay(e)
  <2>1. row' \in [Delivery -> Row] /\ overtaken' \subseteq Worker
    <3>1. PICK t \in Recent, picked \in SUBSET Delivery :
            /\ row' = BroughtForward(
                        [d \in Delivery |-> IF d \in picked THEN Replayed(row[d], t) ELSE row[d]],
                        e, t)
            /\ Overtake(picked)
      BY <1>4 DEF BulkReplay
    <3>2. [d \in Delivery |-> IF d \in picked THEN Replayed(row[d], t) ELSE row[d]]
            \in [Delivery -> Row]
      BY <1>1, RowShapes DEF TypeOK
    <3> QED
      BY <1>1, <3>1, <3>2, BroughtForwardIsTable DEF Overtake, TypeOK
  <2> QED
    BY <1>2, <1>4, <2>1 DEF BulkReplay, TypeOK
<1>5. CASE Resume(e)
  BY <1>1, <1>2, <1>5, BroughtForwardIsTable DEF Resume, TypeOK
<1>6. CASE Enable(e)
  BY <1>1, <1>3, <1>6, BroughtForwardIsTable DEF Enable, TypeOK
<1>7. CASE Disable(e)
  BY <1>7, DrainIsTable DEF Disable, Overtake, TypeOK
<1>8. CASE Delete(e)
  <2>1. Absent \in Row
    BY DEF Absent, Row, Null
  <2> QED
    BY <1>3, <1>8, <2>1 DEF Delete, TypeOK
<1> QED
  BY <1>4, <1>5, <1>6, <1>7, <1>8 DEF EndpointStep

LEMMA TypeCancel ==
  ASSUME NEW p \in Proc, NEW d \in Delivery,
         TypeOK, CancelCheck(p, d) \/ CancelWrite(p, d)
  PROVE  TypeOK'
<1>1. CASE CancelCheck(p, d)
  BY <1>1 DEF CancelCheck, TypeOK, table
<1>2. CASE CancelWrite(p, d)
  <2>1. [Cancelled(row[d]) EXCEPT !.lease = Null] \in Row
    BY RowShapes DEF TypeOK, Row
  <2> QED
    BY <1>2, <2>1 DEF CancelWrite, Overtake, TypeOK
<1> QED
  BY <1>1, <1>2

LEMMA TypeInit == Init => TypeOK
BY QueueAssumption, RowShapes
   DEF Init, TypeOK, Absent, Row, NoHealth, Health, Idle, Null

LEMMA TypeStep == TypeOK /\ [Next]_vars => TypeOK'
<1> SUFFICES ASSUME TypeOK, [Next]_vars PROVE TypeOK'
  OBVIOUS
<1>1. CASE Tick
  BY <1>1, TypeTick
<1>2. CASE Prune
  BY <1>2, TypePrune
<1>3. CASE \E p \in Proc : Start(p) \/ Crash(p) \/ Claim(p)
  BY <1>3, TypeStart, TypeCrash, TypeClaim
<1>4. CASE \E w \in Worker : WorkerStep(w)
  BY <1>4, TypeSend, TypeAnswer, TypeSettle DEF WorkerStep
<1>5. CASE \E m \in Message : Post(m)
  BY <1>5, TypePost
<1>6. CASE \E d \in Delivery : Replay(d)
  BY <1>6, TypeReplay
<1>7. CASE \E e \in Endpoint : EndpointStep(e)
  BY <1>7, TypeEndpoint
<1>8. CASE \E p \in Proc, d \in Delivery : CancelCheck(p, d) \/ CancelWrite(p, d)
  BY <1>8, TypeCancel
<1>9. CASE UNCHANGED vars
  BY <1>9 DEF vars, TypeOK
<1> QED
  BY <1>1, <1>2, <1>3, <1>4, <1>5, <1>6, <1>7, <1>8, <1>9 DEF Next

(* Every variable stays within its type: no instant, count or lease leaves *)
(* its range, whatever the schedule, the limits and the operator do.       *)
THEOREM TypeCorrect == Spec => []TypeOK
BY TypeInit, TypeStep, PTL DEF Spec

-----------------------------------------------------------------------------
(* The delivery queue implements the life cycle of a delivery, for every   *)
(* value of the constants and every set of operations.                     *)

(* A row moves along the life cycle: attempted, cancelled, replayed,       *)
(* deleted, or left as it is.                                              *)
Evolves(r, s) ==
  \/ /\ r.status = Pending /\ s.attempts = r.attempts + 1
     /\ \/ s.status \in {"succeeded", "failed"}
        \/ r.attempts + 1 < MaxAttempts /\ s.status \in {Pending, "cancelled"}
  \/ r.status \in {Pending, "succeeded", "failed"} /\ s.status = "cancelled" /\ s.attempts = r.attempts
  \/ r.status # "absent" /\ s.status = Pending /\ s.attempts = 0
  \/ r.status # "absent" /\ s.status = "absent" /\ s.attempts = 0
  \/ s.status = r.status /\ s.attempts = r.attempts

(* A delivery is queued, by the post of its message. *)
Appears(d) ==
  /\ row[d].status = "absent" /\ row'[d].status = Pending /\ row'[d].attempts = 0
  /\ d[1] \in posted'

Moves == \A d \in Delivery : Appears(d) \/ Evolves(row[d], row'[d])

(* A job that will be retried has an attempt left in the schedule. *)
RetryHasAttempt ==
  \A w \in Worker :
    job[w].phase = "answered" /\ job[w].outcome = "failure" /\ job[w].retryAt # Null
    => job[w].attempts + 1 < MaxAttempts

(* Only what has been posted has rows, and no row is no attempts. *)
RowsArePosted ==
  \A d \in Delivery :
    IF row[d].status = "absent" THEN row[d].attempts = 0 ELSE d[1] \in posted

Inv == TypeOK /\ RetryHasAttempt /\ RowsArePosted

LEMMA MovesAreSteps ==
  ASSUME Moves
  PROVE  Lifecycle!Next
<1> SUFFICES ASSUME NEW d \in Delivery
             PROVE  \/ Lifecycle!Queue(d) \/ Lifecycle!Attempt(d) \/ Lifecycle!Cancel(d)
                    \/ Lifecycle!CancelLate(d) \/ Lifecycle!Replay(d) \/ Lifecycle!Delete(d)
                    \/ Lifecycle!Stay(d)
  BY DEF Lifecycle!Next
<1>1. Appears(d) \/ Evolves(row[d], row'[d])
  BY DEF Moves
<1> QED
  BY <1>1 DEF Appears, Evolves, Pending, Lifecycle!Queue, Lifecycle!Attempt, Lifecycle!Cancel,
              Lifecycle!CancelLate, Lifecycle!Replay, Lifecycle!Delete, Lifecycle!Stay,
              Lifecycle!Becomes

LEMMA StayMoves == row' = row => Moves
BY DEF Evolves, Moves

LEMMA ReplayEvolves ==
  ASSUME NEW r \in Row, NEW t \in Nat, r.status # "absent"
  PROVE  Evolves(r, Replayed(r, t))
BY DEF Evolves, Replayed

LEMMA DrainEvolves ==
  ASSUME NEW rows \in [Delivery -> Row], NEW e \in Endpoint, NEW d \in Delivery
  PROVE  Evolves(rows[d], Drain(rows, e)[d])
BY DEF Evolves, Drain, Cancelled, Row

LEMMA BroughtForwardKeeps ==
  ASSUME NEW rows \in [Delivery -> Row], NEW e \in Endpoint, NEW t \in Nat, NEW d \in Delivery
  PROVE  /\ BroughtForward(rows, e, t)[d].status = rows[d].status
         /\ BroughtForward(rows, e, t)[d].attempts = rows[d].attempts
BY DEF BroughtForward, Row

(* What a settled row is, by whether the worker still owned it. *)
LEMMA SettledRowIs ==
  ASSUME Inv, NEW w \in Worker, job[w].phase = "answered",
         job[w].outcome \in {"success", "failure"},
         row[job[w].delivery].status # "absent"
  PROVE  LET r == row[job[w].delivery]
             s == SettledRow(w)
         IN  \/ s.status = r.status /\ s.attempts = r.attempts
             \/ /\ r.status = Pending /\ s.attempts = r.attempts + 1
                /\ \/ s.status \in {"succeeded", "failed"}
                   \/ /\ s.status = Pending /\ job[w].outcome # "success"
                      /\ r.attempts + 1 < MaxAttempts
<1> DEFINE r == row[job[w].delivery]
<1>1. job[w] \in Job
  BY JobOf DEF Busy, Inv
<1>2. r \in Row
  BY <1>1 DEF Inv, TypeOK, Job
<1>3. CASE ~Owns(w)
  BY <1>2, <1>3 DEF SettledRow, Superseded, Row
<1>4. CASE Owns(w)
  <2>1. r.status = Pending /\ r.attempts = job[w].attempts
    BY <1>4 DEF Owns
  <2>2. CASE job[w].outcome = "success"
    BY <1>2, <1>4, <2>1, <2>2 DEF SettledRow, Row
  <2>3. CASE job[w].outcome # "success" /\ job[w].retryAt = Null
    BY <1>2, <1>4, <2>1, <2>3 DEF SettledRow, Row
  <2>4. CASE job[w].outcome # "success" /\ job[w].retryAt # Null
    <3>1. job[w].outcome = "failure"
      BY <2>4
    <3>2. r.attempts + 1 < MaxAttempts
      BY <2>1, <2>4, <3>1 DEF Inv, RetryHasAttempt
    <3> QED
      BY <1>2, <1>4, <2>1, <2>4, <3>2 DEF SettledRow, Row
  <2> QED
    BY <2>2, <2>3, <2>4
<1> QED
  BY <1>3, <1>4

LEMMA SettleEvolves ==
  ASSUME Inv, NEW w \in Worker, SettleSuccess(w) \/ SettleFailure(w)
  PROVE  Moves
<1> DEFINE mine == job[w].delivery
           e == EndpointOf(mine)
           settled == [row EXCEPT ![mine] = SettledRow(w)]
<1>1. /\ job[w].phase = "answered" /\ row[mine].status # "absent"
      /\ job[w].outcome \in {"success", "failure"}
  BY DEF SettleSuccess, SettleFailure, Record
<1>2. mine \in Delivery /\ e \in Endpoint /\ settled \in [Delivery -> Row]
  <2>1. job[w] \in Job
    BY <1>1, JobOf DEF Busy, Inv
  <2> QED
    BY <2>1, SettledRowIsRow DEF Inv, TypeOK, Job, EndpointOf, Delivery
<1>3. ASSUME NEW d \in Delivery PROVE Evolves(row[d], settled[d])
  <2>1. d # mine => settled[d] = row[d]
    BY <1>2
  <2>2. settled[mine] = SettledRow(w)
    BY <1>2 DEF Inv, TypeOK
  <2> QED
    BY <1>1, <2>1, <2>2, SettledRowIs DEF Evolves
<1>4. ASSUME NEW d \in Delivery PROVE Evolves(row[d], Drain(settled, e)[d])
  <2>1. CASE settled[d].status # Pending
    BY <1>3, <2>1 DEF Drain
  <2>2. CASE settled[d].status = Pending
    <3>1. \/ Drain(settled, e)[d] = settled[d]
          \/ /\ Drain(settled, e)[d].status = "cancelled"
             /\ Drain(settled, e)[d].attempts = settled[d].attempts
      BY <1>2 DEF Drain, Cancelled, Row
    <3>2. CASE d = mine
      <4>1. settled[d] = SettledRow(w)
        BY <1>2, <3>2 DEF Inv, TypeOK
      <4>2. /\ row[d].status = Pending
            /\ \/ settled[d].attempts = row[d].attempts
               \/ /\ settled[d].attempts = row[d].attempts + 1
                  /\ row[d].attempts + 1 < MaxAttempts
        BY <1>1, <2>2, <3>2, <4>1, SettledRowIs DEF Pending
      <4> HIDE DEF settled, mine, e
      <4>3. CASE Drain(settled, e)[d] = settled[d]
        BY <1>3, <4>3
      <4>4. CASE Drain(settled, e)[d] # settled[d]
        BY <3>1, <4>2, <4>4 DEF Evolves
      <4> QED
        BY <4>3, <4>4
    <3>3. CASE d # mine
      BY <1>2, <1>3, <2>2, <3>1, <3>3 DEF Evolves
    <3> QED
      BY <3>2, <3>3
  <2> QED
    BY <2>1, <2>2
<1> QED
  BY <1>3, <1>4 DEF SettleSuccess, SettleFailure, Moves

(* Every step moves every delivery along its life cycle. *)
LEMMA NextMoves ==
  ASSUME Inv, Next
  PROVE  Moves
<1> USE DEF Inv, Moves
<1>1. Recent \subseteq Nat
  BY DEF Recent, TypeOK
<1>2. CASE Tick \/ Prune
  BY <1>2, StayMoves DEF Tick, Prune, table
<1>3. CASE \E p \in Proc : Start(p) \/ Crash(p) \/ Claim(p)
  <2>1. ASSUME NEW p \in Proc, Start(p) PROVE Moves
    BY <2>1 DEF Start, Reclaimed, Evolves, TypeOK, Row
  <2>2. ASSUME NEW p \in Proc, Crash(p) PROVE Moves
    BY <2>2, StayMoves DEF Crash, table
  <2>3. ASSUME NEW p \in Proc, Claim(p) PROVE Moves
    <3>1. PICK picked :
            row' = [d \in Delivery |->
                      IF d \in picked THEN [row[d] EXCEPT !.lease = now + Lease] ELSE row[d]]
      BY <2>3 DEF Claim
    <3> QED
      BY <3>1 DEF Evolves, TypeOK, Row
  <2> QED
    BY <1>3, <2>1, <2>2, <2>3
<1>4. CASE \E w \in Worker : WorkerStep(w)
  <2>1. PICK w \in Worker : WorkerStep(w)
    BY <1>4
  <2>2. CASE SettleSuccess(w) \/ SettleFailure(w)
    BY <2>2, SettleEvolves
  <2>3. CASE ~(SettleSuccess(w) \/ SettleFailure(w))
    BY <2>1, <2>3, StayMoves
       DEF WorkerStep, Send, AnswerSuccess, AnswerRetryable, AnswerFatal, Finish, SettleFails, table
  <2> QED
    BY <2>2, <2>3
<1>5. CASE \E m \in Message : Post(m)
  BY <1>1, <1>5 DEF Post, RowsArePosted, Appears, Evolves, Queued
<1>6. CASE \E d \in Delivery : Replay(d)
  <2>1. PICK one \in Delivery, t \in Recent :
          row[one].status # "absent" /\ row' = [row EXCEPT ![one] = Replayed(row[one], t)]
    BY <1>6 DEF Replay
  <2>2. Evolves(row[one], Replayed(row[one], t))
    BY <1>1, <2>1, ReplayEvolves DEF TypeOK
  <2> QED
    BY <2>1, <2>2 DEF Evolves, TypeOK
<1>7. CASE \E e \in Endpoint : EndpointStep(e)
  <2>1. PICK e \in Endpoint : EndpointStep(e)
    BY <1>7
  <2>2. CASE BulkReplay(e)
    <3>1. PICK t \in Recent, picked \in SUBSET Delivery :
            /\ \A d \in picked : row[d].status \in Terminal \cup {Pending}
            /\ row' = BroughtForward(
                        [d \in Delivery |-> IF d \in picked THEN Replayed(row[d], t) ELSE row[d]],
                        e, t)
      BY <2>2 DEF BulkReplay
    <3> DEFINE rows == [d \in Delivery |-> IF d \in picked THEN Replayed(row[d], t) ELSE row[d]]
    <3>2. rows \in [Delivery -> Row]
      BY <1>1, RowShapes DEF TypeOK
    <3>3. ASSUME NEW d \in Delivery PROVE Evolves(row[d], rows[d])
      <4>1. CASE d \in picked
        <5>1. row[d].status # "absent"
          BY <3>1, <4>1 DEF Terminal, Pending
        <5> QED
          BY <1>1, <4>1, <5>1, ReplayEvolves DEF TypeOK
      <4>2. CASE d \notin picked
        BY <4>2 DEF Evolves
      <4> QED
        BY <4>1, <4>2
    <3> QED
      BY <1>1, <3>1, <3>2, <3>3, BroughtForwardKeeps DEF Evolves
  <2>3. CASE Resume(e) \/ Enable(e)
    <3>1. PICK t \in Recent : row' = BroughtForward(row, e, t)
      BY <2>3 DEF Resume, Enable
    <3> QED
      BY <1>1, <3>1, BroughtForwardKeeps DEF Evolves, TypeOK
  <2>4. CASE Disable(e)
    BY <2>4, DrainEvolves DEF Disable, TypeOK
  <2>5. CASE Delete(e)
    BY <2>5 DEF Delete, Absent, Evolves, RowsArePosted
  <2> QED
    BY <2>1, <2>2, <2>3, <2>4, <2>5 DEF EndpointStep
<1>8. CASE \E p \in Proc, d \in Delivery : CancelCheck(p, d) \/ CancelWrite(p, d)
  <2>1. PICK p \in Proc, one \in Delivery : CancelCheck(p, one) \/ CancelWrite(p, one)
    BY <1>8
  <2>2. CASE CancelCheck(p, one)
    BY <2>2, StayMoves DEF CancelCheck, table
  <2>3. CASE CancelWrite(p, one)
    BY <2>3 DEF CancelWrite, Cancelled, Evolves, TypeOK, Row, Terminal, Pending
  <2> QED
    BY <2>1, <2>2, <2>3
<1> QED
  BY <1>2, <1>3, <1>4, <1>5, <1>6, <1>7, <1>8 DEF Next

LEMMA PostedGrows == Next => posted \subseteq posted'
BY DEF Next, Tick, Prune, Start, Crash, Claim, WorkerStep, Send, AnswerSuccess, AnswerRetryable,
       AnswerFatal, Finish, SettleSuccess, SettleFailure, SettleFails, Post, Replay,
       EndpointStep, BulkReplay, Resume, Enable, Disable, Delete, CancelCheck, CancelWrite, table

(* A worker's job becomes an answered one only by its own answer. *)
LEMMA AnswersAreNew ==
  ASSUME TypeOK, Next, NEW w \in Worker, job'[w] # job[w], job'[w].phase = "answered"
  PROVE  AnswerSuccess(w) \/ AnswerRetryable(w) \/ AnswerFatal(w)
<1>1. CASE \E p \in Proc : Start(p) \/ Crash(p) \/ Claim(p)
  BY <1>1 DEF Start, Crash, Claim, Granted, Idle, table
<1>2. CASE \E v \in Worker : WorkerStep(v)
  <2>1. PICK v \in Worker : WorkerStep(v)
    BY <1>2
  <2>2. CASE AnswerSuccess(v) \/ AnswerRetryable(v) \/ AnswerFatal(v)
    <3>1. PICK o, t : Finish(v, o, t)
      BY <2>2 DEF AnswerSuccess, AnswerRetryable, AnswerFatal
    <3>2. v = w
      BY <3>1, FinishSets
    <3> QED
      BY <2>2, <3>2
  <2>3. CASE Send(v)
    BY <2>3 DEF Send, TypeOK
  <2>4. CASE SettleSuccess(v) \/ SettleFailure(v) \/ SettleFails(v)
    BY <2>4 DEF SettleSuccess, SettleFailure, SettleFails, Release, Idle, TypeOK
  <2> QED
    BY <2>1, <2>2, <2>3, <2>4 DEF WorkerStep
<1> QED
  BY <1>1, <1>2 DEF Next, Tick, Prune, Post, Replay, EndpointStep, BulkReplay, Resume, Enable,
                    Disable, Delete, CancelCheck, CancelWrite

(* Only an answer worth retrying carries the time of a retry, and then the *)
(* schedule holds another attempt.                                         *)
LEMMA AnswerRetries ==
  ASSUME TypeOK, NEW w \in Worker, job'[w].retryAt # Null,
         AnswerSuccess(w) \/ AnswerRetryable(w) \/ AnswerFatal(w)
  PROVE  job'[w].attempts + 1 < MaxAttempts
<1>1. ASSUME NEW o, NEW t, Finish(w, o, t)
      PROVE  /\ job[w] \in Job
             /\ job'[w].attempts = job[w].attempts
             /\ job'[w].retryAt = t
  BY <1>1, FinishSets
<1>2. AnswerRetryable(w)
  BY <1>1 DEF AnswerSuccess, AnswerFatal
<1>3. PICK t \in RetryTimes(w) : Finish(w, "failure", t)
  BY <1>2 DEF AnswerRetryable
<1>4. job[w] \in Job /\ job'[w].attempts = job[w].attempts /\ t # Null
  BY <1>1, <1>3
<1>5. Delays(job[w].attempts + 1) # {}
  BY <1>3, <1>4 DEF RetryTimes
<1> QED
  BY <1>4, <1>5, DelaysBounded, BackoffAssumption DEF Job

LEMMA InvInductive == Inv /\ [Next]_vars => Inv'
<1> SUFFICES ASSUME Inv, [Next]_vars PROVE Inv'
  OBVIOUS
<1>1. TypeOK'
  BY TypeStep DEF Inv
<1>2. CASE Next
  <2>1. RowsArePosted'
    BY <1>2, NextMoves, PostedGrows DEF Moves, Appears, Evolves, Pending, Inv, RowsArePosted
  <2>2. RetryHasAttempt'
    <3> SUFFICES ASSUME NEW w \in Worker, job'[w].phase = "answered",
                        job'[w].outcome = "failure", job'[w].retryAt # Null
                 PROVE  job'[w].attempts + 1 < MaxAttempts
      BY DEF RetryHasAttempt
    <3>1. CASE job'[w] = job[w]
      BY <3>1 DEF Inv, RetryHasAttempt
    <3>2. CASE job'[w] # job[w]
      <4>1. AnswerSuccess(w) \/ AnswerRetryable(w) \/ AnswerFatal(w)
        BY <1>2, <3>2, AnswersAreNew DEF Inv
      <4> QED
        BY <4>1, AnswerRetries DEF Inv
    <3> QED
      BY <3>1, <3>2
  <2> QED
    BY <1>1, <2>1, <2>2 DEF Inv
<1>3. CASE UNCHANGED vars
  BY <1>1, <1>3 DEF vars, Inv, RowsArePosted, RetryHasAttempt
<1> QED
  BY <1>2, <1>3

LEMMA InvHolds == Spec => []Inv
<1>1. Init => Inv
  BY TypeInit DEF Init, Inv, RowsArePosted, RetryHasAttempt, Idle, Absent
<1> QED
  BY <1>1, InvInductive, PTL DEF Spec

(* The queue implements the life cycle of a delivery: seen without clock,  *)
(* leases, workers and endpoints, every step queues, attempts, cancels,    *)
(* replays or deletes each delivery, or leaves it alone.                   *)
THEOREM ImplementsLifecycle == Spec => FollowsLifecycle
<1>1. Init => Lifecycle!Init
  BY DEF Init, Absent, Lifecycle!Init
<1>2. Inv /\ [Next]_vars => [Lifecycle!Next]_(Lifecycle!lifecycle)
  <2>1. Inv /\ Next => Lifecycle!Next
    BY NextMoves, MovesAreSteps
  <2>2. UNCHANGED vars => UNCHANGED Lifecycle!lifecycle
    BY DEF vars, Lifecycle!lifecycle
  <2> QED
    BY <2>1, <2>2
<1> QED
  BY <1>1, <1>2, InvHolds, PTL DEF Spec, FollowsLifecycle, Lifecycle!Spec

----------------------------------------------------------------------------
(* The lease keeps two requests for one delivery apart, as long as nothing *)
(* is cancelled and one process serves the database.                       *)

OneProcess == \A p, q \in Proc : p = q
NoCancel == "cancel" \notin Ops

Live(w) == Busy(w) /\ job[w].lease > now

(* What is busy runs in a process that is up, on a message that was posted.*)
JobsAreRooted ==
  \A w \in Worker : Busy(w) => up[w[1]] /\ job[w].delivery[1] \in posted

(* A request is started and over before the lease it was granted for ends. *)
Timely ==
  \A w \in Worker :
    /\ job[w].phase = "claimed" =>
         job[w].lease = job[w].since + Lease /\ now <= job[w].since + StartDelay
    /\ job[w].phase = "sending" =>
         job[w].lease > job[w].since + Timeout /\ now <= job[w].since + Timeout

(* While a job's lease runs, the delivery's row carries that lease... *)
HeldByRow ==
  \A w \in Worker : Live(w) =>
    \/ row[job[w].delivery].status = "absent"
    \/ row[job[w].delivery].lease = job[w].lease

(* ...and no other job's lease on the same delivery runs. *)
HeldByOne ==
  \A v, w \in Worker :
    v # w /\ Live(v) /\ Live(w) => job[v].delivery # job[w].delivery

LeaseInv ==
  Inv /\ cancels = {} /\ JobsAreRooted /\ Timely /\ HeldByRow /\ HeldByOne

(* A step of the table alone, which leaves alone what is leased, or        *)
(* deletes it.                                                             *)
RowsKept ==
  \A d \in Delivery : d[1] \in posted =>
    \/ row'[d].status = "absent"
    \/ row[d].status # "absent" /\ (row[d].lease > now => row'[d].lease = row[d].lease)

LEMMA TableStep ==
  ASSUME LeaseInv, Inv', posted \subseteq posted', RowsKept,
         UNCHANGED <<now, up, job, cancels>>
  PROVE  LeaseInv'
<1>1. JobsAreRooted' /\ Timely' /\ HeldByOne'
  BY DEF LeaseInv, JobsAreRooted, Timely, HeldByOne, Live, Busy
<1>2. HeldByRow'
  <2> SUFFICES ASSUME NEW w \in Worker, Live(w)
               PROVE  \/ row'[job[w].delivery].status = "absent"
                      \/ row'[job[w].delivery].lease = job[w].lease
    BY DEF HeldByRow, Live, Busy
  <2>1. job[w].delivery \in Delivery /\ job[w].delivery[1] \in posted
    BY JobOf DEF LeaseInv, Inv, Job, JobsAreRooted, Live
  <2> QED
    BY <2>1 DEF LeaseInv, HeldByRow, RowsKept, Live
<1> QED
  BY <1>1, <1>2 DEF LeaseInv

LEMMA TickLease == ASSUME LeaseInv, Inv', Tick PROVE LeaseInv'
<1>1. now \in Nat /\ now' = now + 1 /\ UNCHANGED <<row, posted, up, job, cancels>>
  BY NowIsNat DEF Tick, table, LeaseInv, Inv
<1>2. ASSUME NEW w \in Worker, Live(w)' PROVE Live(w)
  <2>1. job[w] \in Job
    BY <1>1, <1>2, JobOf DEF Live, Busy, LeaseInv, Inv
  <2> QED
    BY <1>1, <1>2, <2>1 DEF Live, Busy, Job
<1>3. Timely'
  <2> SUFFICES ASSUME NEW w \in Worker, job[w].phase \in {"claimed", "sending"}
               PROVE  /\ job[w].phase = "claimed" => now + 1 <= job[w].since + StartDelay
                      /\ job[w].phase = "sending" => now + 1 <= job[w].since + Timeout
    BY <1>1 DEF LeaseInv, Timely
  <2>1. job[w] \in Job
    BY JobOf DEF Busy, LeaseInv, Inv
  <2> QED
    BY <1>1, <2>1, QueueAssumption DEF Tick, Job
<1> QED
  BY <1>1, <1>2, <1>3 DEF LeaseInv, JobsAreRooted, HeldByRow, HeldByOne, Busy

LEMMA SendLease ==
  ASSUME LeaseInv, Inv', NEW w \in Worker, Send(w)
  PROVE  LeaseInv'
<1>1. job[w] \in Job /\ job[w].phase = "claimed"
  BY JobOf DEF Send, Busy, LeaseInv, Inv
<1>2. /\ job'[w].phase = "sending" /\ job'[w].since = now
      /\ job'[w].delivery = job[w].delivery /\ job'[w].lease = job[w].lease
      /\ \A v \in Worker : v # w => job'[v] = job[v]
  BY <1>1 DEF Send, LeaseInv, Inv, TypeOK, Job
<1>3. UNCHANGED <<now, row, posted, up, cancels>>
  BY DEF Send, table
<1>4. \A v \in Worker : /\ Busy(v)' <=> Busy(v)
                        /\ Busy(v) => /\ job'[v].delivery = job[v].delivery
                                      /\ job'[v].lease = job[v].lease
  BY <1>1, <1>2 DEF Busy
<1>5. Timely'
  <2>1. job[w].lease > now + Timeout
    BY <1>1, LeaseOutlastsAttempt, QueueAssumption, NowIsNat DEF LeaseInv, Inv, Timely, Job
  <2> QED
    BY <1>2, <1>3, <2>1, NowIsNat, QueueAssumption DEF LeaseInv, Inv, Timely
<1> QED
  BY <1>3, <1>4, <1>5 DEF LeaseInv, JobsAreRooted, HeldByRow, HeldByOne, Live

LEMMA FinishLease ==
  ASSUME LeaseInv, Inv', NEW w \in Worker, NEW o, NEW t, Finish(w, o, t)
  PROVE  LeaseInv'
<1>1. /\ job'[w].phase = "answered" /\ job'[w].delivery = job[w].delivery
      /\ job'[w].lease = job[w].lease
      /\ \A v \in Worker : v # w => job'[v] = job[v]
  BY FinishSets DEF LeaseInv, Inv
<1>2. UNCHANGED <<now, row, posted, up, cancels>> /\ job[w].phase = "sending"
  BY DEF Finish, table
<1>3. \A v \in Worker : /\ Busy(v)' <=> Busy(v)
                        /\ Busy(v) => /\ job'[v].delivery = job[v].delivery
                                      /\ job'[v].lease = job[v].lease
  BY <1>1, <1>2 DEF Busy
<1>4. Timely'
  BY <1>1, <1>2 DEF LeaseInv, Timely
<1> QED
  BY <1>2, <1>3, <1>4 DEF LeaseInv, JobsAreRooted, HeldByRow, HeldByOne, Live

(* The claim hands each picked delivery to one idle worker. *)
LEMMA ClaimLease == ASSUME LeaseInv, Inv', NEW p \in Proc, Claim(p) PROVE LeaseInv'
<1>1. PICK picked \in Picks(AtMost(BatchSize, IdleWorkers(p))),
           hired \in SUBSET IdleWorkers(p) :
        \E takes \in Bijection(hired, picked) :
          /\ row' = [d \in Delivery |->
                       IF d \in picked THEN [row[d] EXCEPT !.lease = now + Lease] ELSE row[d]]
          /\ job' = [w \in Worker |-> IF w \in hired THEN Granted(takes[w]) ELSE job[w]]
  BY DEF Claim
<1>2. PICK takes \in Bijection(hired, picked) :
        job' = [w \in Worker |-> IF w \in hired THEN Granted(takes[w]) ELSE job[w]]
  BY <1>1
<1>3. up[p] /\ UNCHANGED <<now, posted, up, cancels>>
  BY DEF Claim
<1>4. \A d \in picked : d \in Delivery /\ Due(d)
  BY PicksAreDue
<1>5. \A w \in hired : takes[w] \in picked /\ w \in Worker /\ w[1] = p /\ ~Busy(w)
  BY DEF Bijection, Injection, Surjection, IdleWorkers
<1>6. \A v, w \in hired : v # w => takes[v] # takes[w]
  BY DEF Bijection, Injection, IsInjective
<1>7. \A w \in hired : /\ job'[w].phase = "claimed" /\ job'[w].delivery = takes[w]
                       /\ job'[w].lease = now + Lease /\ job'[w].since = now
  BY <1>2, <1>5 DEF Granted
<1>8. \A w \in Worker \ hired : job'[w] = job[w]
  BY <1>2
<1>9. ASSUME NEW w \in Worker, Live(w) PROVE job[w].delivery \notin picked
  <2>1. CASE job[w].delivery \in picked
    <3>1. Due(job[w].delivery) /\ job[w] \in Job
      BY <1>4, <1>9, <2>1, JobOf DEF Live, LeaseInv, Inv
    <3>2. row[job[w].delivery].lease = job[w].lease
      BY <1>9, <3>1 DEF Due, Pending, LeaseInv, HeldByRow
    <3> QED
      BY <1>9, <3>1, <3>2, NowIsNat DEF Due, LeaseFree, Live, Null, Job, LeaseInv, Inv
  <2> QED
    BY <2>1
<1>10. JobsAreRooted'
  <2>1. ASSUME NEW w \in hired PROVE takes[w][1] \in posted
    <3>1. row[takes[w]].status # "absent" /\ takes[w] \in Delivery
      BY <1>4, <1>5 DEF Due, Pending
    <3> QED
      BY <3>1 DEF LeaseInv, Inv, RowsArePosted
  <2>2. ASSUME NEW w \in Worker, Busy(w)' PROVE up'[w[1]] /\ job'[w].delivery[1] \in posted'
    <3>1. CASE w \in hired
      BY <1>3, <1>5, <1>7, <2>1, <3>1
    <3>2. CASE w \notin hired
      BY <1>3, <1>8, <2>2, <3>2 DEF LeaseInv, JobsAreRooted, Busy
    <3> QED
      BY <3>1, <3>2
  <2> QED
    BY <2>2 DEF JobsAreRooted
<1>11. Timely'
  <2> SUFFICES ASSUME NEW w \in Worker
               PROVE  /\ job'[w].phase = "claimed" =>
                           job'[w].lease = job'[w].since + Lease /\ now' <= job'[w].since + StartDelay
                      /\ job'[w].phase = "sending" =>
                           job'[w].lease > job'[w].since + Timeout /\ now' <= job'[w].since + Timeout
    BY DEF Timely
  <2>1. CASE w \in hired
    BY <1>3, <1>7, <2>1, NowIsNat, QueueAssumption DEF LeaseInv, Inv
  <2>2. CASE w \notin hired
    BY <1>3, <1>8, <2>2 DEF LeaseInv, Timely
  <2> QED
    BY <2>1, <2>2
<1>12. HeldByRow'
  <2> SUFFICES ASSUME NEW w \in Worker, Live(w)'
               PROVE  \/ row'[job'[w].delivery].status = "absent"
                      \/ row'[job'[w].delivery].lease = job'[w].lease
    BY DEF HeldByRow
  <2>1. CASE w \in hired
    <3>1. takes[w] \in Delivery /\ takes[w] \in picked /\ row[takes[w]] \in Row
      BY <1>4, <1>5, <2>1 DEF LeaseInv, Inv, TypeOK
    <3>2. row'[takes[w]].lease = now + Lease
      BY <1>1, <3>1 DEF Row
    <3> QED
      BY <1>7, <2>1, <3>2
  <2>2. CASE w \notin hired
    <3>1. job'[w] = job[w] /\ Live(w)
      BY <1>3, <1>8, <2>2 DEF Live, Busy
    <3>2. job[w].delivery \in Delivery /\ job[w].delivery \notin picked
      BY <1>9, <3>1, JobOf DEF Live, LeaseInv, Inv, Job
    <3> QED
      BY <1>1, <3>1, <3>2 DEF LeaseInv, HeldByRow
  <2> QED
    BY <2>1, <2>2
<1>13. HeldByOne'
  <2> SUFFICES ASSUME NEW v \in Worker, NEW w \in Worker, v # w, Live(v)', Live(w)'
               PROVE  job'[v].delivery # job'[w].delivery
    BY DEF HeldByOne
  <2>1. ASSUME NEW u \in Worker \ hired, Live(u)' PROVE Live(u) /\ job'[u] = job[u]
    BY <1>3, <1>8, <2>1 DEF Live, Busy
  <2>2. CASE v \in hired /\ w \in hired
    BY <1>6, <1>7, <2>2
  <2>3. CASE v \in hired /\ w \notin hired
    BY <1>5, <1>7, <1>9, <2>1, <2>3
  <2>4. CASE v \notin hired /\ w \in hired
    BY <1>5, <1>7, <1>9, <2>1, <2>4
  <2>5. CASE v \notin hired /\ w \notin hired
    BY <2>1, <2>5 DEF LeaseInv, HeldByOne
  <2> QED
    BY <2>2, <2>3, <2>4, <2>5
<1> QED
  BY <1>3, <1>10, <1>11, <1>12, <1>13 DEF LeaseInv

(* A worker that settles gives back a lease that is its own or lapsed. *)
LEMMA SettleLease ==
  ASSUME LeaseInv, Inv', NEW w \in Worker,
         SettleSuccess(w) \/ SettleFailure(w) \/ SettleFails(w)
  PROVE  LeaseInv'
<1> DEFINE mine == job[w].delivery
           settled == [row EXCEPT ![mine] = SettledRow(w)]
<1>1. /\ UNCHANGED <<now, posted, up, cancels>> /\ job[w].phase = "answered"
      /\ job' = [job EXCEPT ![w] = Idle]
  BY DEF SettleSuccess, SettleFailure, SettleFails, Record, Release, table
<1>2. job[w] \in Job /\ mine \in Delivery
  BY <1>1, JobOf DEF Busy, LeaseInv, Inv, Job
<1>3. /\ ~Busy(w)'
      /\ \A v \in Worker : v # w => job'[v] = job[v]
  BY <1>1 DEF Busy, Idle, LeaseInv, Inv, TypeOK
<1>4. ASSUME NEW v \in Worker, v # w, Live(v), row[job[v].delivery].status # "absent"
      PROVE  settled[job[v].delivery].lease = row[job[v].delivery].lease
  <2>1. CASE job[v].delivery # mine
    BY <2>1
  <2>2. CASE job[v].delivery = mine
    <3>1. row[mine].lease = job[v].lease /\ job[v].lease > now
      BY <1>4, <2>2 DEF LeaseInv, HeldByRow, Live
    <3>2. row[mine].lease # job[w].lease
      <4>1. CASE row[mine].lease = job[w].lease
        <5>1. Live(w)
          BY <1>1, <3>1, <4>1 DEF Live, Busy
        <5> QED
          BY <1>4, <2>2, <5>1 DEF LeaseInv, HeldByOne
      <4> QED
        BY <4>1
    <3>3. SettledRow(w) = row[mine]
      BY <3>2 DEF SettledRow, Owns, Superseded
    <3> QED
      BY <1>2, <2>2, <3>3 DEF LeaseInv, Inv, TypeOK
  <2> QED
    BY <2>1, <2>2
<1>5. ASSUME NEW v \in Worker, v # w, Live(v), row[job[v].delivery].status # "absent"
      PROVE  row'[job[v].delivery].lease = row[job[v].delivery].lease
  <2>1. job[v].delivery \in Delivery
    BY <1>5, JobOf DEF Live, LeaseInv, Inv, Job
  <2>2. row' = row \/ row' = settled \/ row' = Drain(settled, EndpointOf(mine))
    BY DEF SettleSuccess, SettleFailure, SettleFails, table
  <2>3. settled \in [Delivery -> Row]
    BY <1>2, SettledRowIsRow DEF LeaseInv, Inv, TypeOK
  <2>4. Drain(settled, EndpointOf(mine))[job[v].delivery].lease = settled[job[v].delivery].lease
    BY <2>1, <2>3 DEF Drain, Cancelled, Row
  <2> QED
    BY <1>4, <1>5, <2>2, <2>4
<1>6. ASSUME NEW d \in Delivery, row[d].status = "absent", d[1] \in posted
      PROVE  row'[d].status = "absent"
  <2>1. CASE SettleFails(w)
    BY <1>6, <2>1 DEF SettleFails, table
  <2>2. CASE SettleSuccess(w) \/ SettleFailure(w)
    <3>1. d # mine /\ settled[d] = row[d]
      BY <1>2, <1>6, <2>2 DEF SettleSuccess, SettleFailure, Record
    <3>2. Drain(settled, EndpointOf(mine))[d] = settled[d]
      BY <1>6, <3>1 DEF Drain, Pending
    <3> QED
      BY <1>6, <2>2, <3>1, <3>2 DEF SettleSuccess, SettleFailure
  <2> QED
    BY <2>1, <2>2
<1>7. HeldByRow'
  <2> SUFFICES ASSUME NEW v \in Worker, Live(v)'
               PROVE  \/ row'[job'[v].delivery].status = "absent"
                      \/ row'[job'[v].delivery].lease = job'[v].lease
    BY DEF HeldByRow
  <2>1. v # w /\ job'[v] = job[v] /\ Live(v)
    BY <1>1, <1>3 DEF Live, Busy
  <2>2. job[v].delivery \in Delivery /\ job[v].delivery[1] \in posted
    BY <2>1, JobOf DEF Live, LeaseInv, Inv, Job, JobsAreRooted
  <2> QED
    BY <1>5, <1>6, <2>1, <2>2 DEF LeaseInv, HeldByRow
<1>8. JobsAreRooted' /\ Timely' /\ HeldByOne'
  BY <1>1, <1>3 DEF LeaseInv, JobsAreRooted, Timely, HeldByOne, Live, Busy, Idle
<1> QED
  BY <1>1, <1>7, <1>8 DEF LeaseInv

LEMMA CrashLease == ASSUME LeaseInv, Inv', NEW p \in Proc, Crash(p) PROVE LeaseInv'
<1>1. /\ UNCHANGED <<now, posted, row>> /\ cancels' = {c \in cancels : c[1] # p}
      /\ up' = [up EXCEPT ![p] = FALSE]
      /\ job' = [w \in Worker |-> IF w[1] = p THEN Idle ELSE job[w]]
  BY DEF Crash, table
<1>2. \A w \in Worker : Busy(w)' => w[1] # p /\ job'[w] = job[w] /\ up'[w[1]] = up[w[1]]
  BY <1>1 DEF Busy, Idle, LeaseInv, Inv, TypeOK, Worker
<1>3. JobsAreRooted' /\ HeldByRow' /\ HeldByOne'
  BY <1>1, <1>2 DEF LeaseInv, JobsAreRooted, HeldByRow, HeldByOne, Live, Busy
<1>4. Timely'
  BY <1>1, <1>2 DEF LeaseInv, Timely, Busy
<1> QED
  BY <1>1, <1>3, <1>4 DEF LeaseInv

(* A process that starts finds no job at work: it is the only one. *)
LEMMA StartLease ==
  ASSUME LeaseInv, Inv', OneProcess, NEW p \in Proc, Start(p)
  PROVE  LeaseInv'
<1>1. ~up[p] /\ UNCHANGED <<now, posted, job, cancels>>
  BY DEF Start
<1>2. \A w \in Worker : ~Busy(w)
  BY <1>1 DEF OneProcess, LeaseInv, JobsAreRooted, Worker
<1> QED
  BY <1>1, <1>2 DEF LeaseInv, JobsAreRooted, Timely, HeldByRow, HeldByOne, Live, Busy

LEMMA ReplayedKeepsLease ==
  ASSUME TypeOK, NEW r \in Row, NEW t \in Recent, r.lease > now
  PROVE  Replayed(r, t).lease = r.lease
BY NowIsNat DEF Recent, Replayed, Row, Null

LEMMA EndpointRowsKept ==
  ASSUME LeaseInv, NEW e \in Endpoint, EndpointStep(e)
  PROVE  RowsKept
<1> USE DEF LeaseInv, Inv
<1>1. Recent \subseteq Nat
  BY DEF Recent, TypeOK
<1>2. ASSUME NEW rows \in [Delivery -> Row], NEW t \in Nat, NEW d \in Delivery
      PROVE  /\ BroughtForward(rows, e, t)[d].lease = rows[d].lease
             /\ BroughtForward(rows, e, t)[d].status = rows[d].status
  BY DEF BroughtForward, Row
<1>3. CASE BulkReplay(e)
  <2>1. PICK t \in Recent, picked \in SUBSET Delivery :
          /\ \A d \in picked : row[d].status \in Terminal \cup {Pending}
          /\ row' = BroughtForward(
                      [d \in Delivery |-> IF d \in picked THEN Replayed(row[d], t) ELSE row[d]],
                      e, t)
    BY <1>3 DEF BulkReplay
  <2> DEFINE rows == [d \in Delivery |-> IF d \in picked THEN Replayed(row[d], t) ELSE row[d]]
  <2>2. rows \in [Delivery -> Row]
    BY <1>1, RowShapes DEF TypeOK
  <2>3. ASSUME NEW d \in Delivery
        PROVE  \/ rows[d] = row[d]
               \/ row[d].status # "absent" /\ (row[d].lease > now => rows[d].lease = row[d].lease)
    BY <2>1, ReplayedKeepsLease DEF TypeOK, Terminal, Pending
  <2> QED
    BY <1>1, <1>2, <2>1, <2>2, <2>3 DEF RowsKept
<1>4. CASE Resume(e) \/ Enable(e)
  <2>1. PICK t \in Recent : row' = BroughtForward(row, e, t)
    BY <1>4 DEF Resume, Enable
  <2> QED
    BY <1>1, <1>2, <2>1 DEF RowsKept, TypeOK
<1>5. CASE Disable(e)
  BY <1>5 DEF Disable, Drain, Cancelled, RowsKept, TypeOK, Row, Pending
<1>6. CASE Delete(e)
  BY <1>6 DEF Delete, Absent, RowsKept
<1> QED
  BY <1>3, <1>4, <1>5, <1>6 DEF EndpointStep

LEMMA LeaseInductive ==
  ASSUME OneProcess, NoCancel
  PROVE  LeaseInv /\ [Next]_vars => LeaseInv'
<1> SUFFICES ASSUME LeaseInv, [Next]_vars PROVE LeaseInv'
  OBVIOUS
<1>1. Inv'
  BY InvInductive DEF LeaseInv
<1>2. CASE Tick
  BY <1>1, <1>2, TickLease
<1>3. CASE Prune
  BY <1>1, <1>3, TableStep DEF Prune, RowsKept
<1>4. CASE \E p \in Proc : Start(p) \/ Crash(p) \/ Claim(p)
  BY <1>1, <1>4, StartLease, CrashLease, ClaimLease
<1>5. CASE \E w \in Worker : WorkerStep(w)
  <2>1. PICK w \in Worker : WorkerStep(w)
    BY <1>5
  <2>2. CASE AnswerSuccess(w) \/ AnswerRetryable(w) \/ AnswerFatal(w)
    <3>1. PICK o, t : Finish(w, o, t)
      BY <2>2 DEF AnswerSuccess, AnswerRetryable, AnswerFatal
    <3> QED
      BY <1>1, <3>1, FinishLease
  <2> QED
    BY <1>1, <2>1, <2>2, SendLease, SettleLease DEF WorkerStep
<1>6. CASE \E m \in Message : Post(m)
  <2>1. RowsKept
    BY <1>6 DEF Post, RowsKept
  <2>2. posted \subseteq posted' /\ UNCHANGED <<now, up, job, cancels>>
    BY <1>6 DEF Post
  <2> QED
    BY <1>1, <2>1, <2>2, TableStep
<1>7. CASE \E d \in Delivery : Replay(d)
  <2>1. RowsKept
    <3>1. PICK one \in Delivery, t \in Recent :
            row[one].status # "absent" /\ row' = [row EXCEPT ![one] = Replayed(row[one], t)]
      BY <1>7 DEF Replay
    <3> QED
      BY <3>1, ReplayedKeepsLease DEF RowsKept, LeaseInv, Inv, TypeOK
  <2> QED
    BY <1>1, <1>7, <2>1, TableStep DEF Replay
<1>8. CASE \E e \in Endpoint : EndpointStep(e)
  <2>1. PICK e \in Endpoint : EndpointStep(e)
    BY <1>8
  <2>2. posted \subseteq posted' /\ UNCHANGED <<now, up, job, cancels>>
    BY <2>1 DEF EndpointStep, BulkReplay, Resume, Enable, Disable, Delete
  <2> QED
    BY <1>1, <2>1, <2>2, EndpointRowsKept, TableStep
<1>9. CASE \E p \in Proc, d \in Delivery : CancelCheck(p, d) \/ CancelWrite(p, d)
  BY <1>9 DEF CancelCheck, CancelWrite, Serving, NoCancel, LeaseInv
<1>10. CASE UNCHANGED vars
  BY <1>1, <1>10
     DEF vars, LeaseInv, JobsAreRooted, Timely, HeldByRow, HeldByOne, Live, Busy
<1> QED
  BY <1>2, <1>3, <1>4, <1>5, <1>6, <1>7, <1>8, <1>9, <1>10 DEF Next

(* A request that is open is open under a live lease, so no delivery has   *)
(* two.                                                                    *)
LEMMA LeaseInvSuffices == LeaseInv => OneInFlight
<1> SUFFICES ASSUME LeaseInv, NEW v \in Worker, NEW w \in Worker, v # w,
                    job[v].phase = "sending", job[w].phase = "sending"
             PROVE  job[v].delivery # job[w].delivery
  BY DEF OneInFlight
<1>1. ASSUME NEW u \in Worker, job[u].phase = "sending" PROVE Live(u)
  <2>1. job[u] \in Job
    BY <1>1, JobOf DEF Busy, LeaseInv, Inv
  <2> QED
    BY <1>1, <2>1, NowIsNat, QueueAssumption DEF Live, Busy, Timely, LeaseInv, Inv, Job
<1> QED
  BY <1>1 DEF LeaseInv, HeldByOne

(* Without cancels, and with one process on the database, the consumer     *)
(* never gets two copies of a delivery at the same moment, whatever is     *)
(* replayed, resumed, switched off and on, crashed or restarted.           *)
THEOREM OneRequestAtATime ==
  ASSUME OneProcess, NoCancel
  PROVE  Spec => []OneInFlight
<1>1. Init => LeaseInv
  <2>1. Init => Inv
    BY TypeInit DEF Init, Inv, RowsArePosted, RetryHasAttempt, Idle, Absent
  <2> QED
    BY <2>1 DEF Init, LeaseInv, JobsAreRooted, Timely, HeldByRow, HeldByOne, Live, Busy, Idle
<1>2. LeaseInv /\ [Next]_vars => LeaseInv'
  BY LeaseInductive
<1>3. LeaseInv => OneInFlight
  BY LeaseInvSuffices
<1> QED
  BY <1>1, <1>2, <1>3, PTL DEF Spec

-----------------------------------------------------------------------------
(* What a step does to one endpoint's health and to one row.               *)

HealthStep(e) ==
  \/ health'[e] \in {health[e], Recovered(health[e])}
  \/ health'[e] = NoHealth /\ (mode'[e] = "gone" \/ "enable" \in Ops)
  \/ /\ Limited(e) /\ Allowed(e)
     /\ health'[e] = [health[e] EXCEPT !.nextAllowed = now + Spacing(e)]
  \/ \E w \in Worker : /\ job[w].phase = "answered" /\ EndpointOf(job[w].delivery) = e
                       /\ health'[e] = Failed(w)

(* What may become of a row, and what else is so when it does.             *)
Kept(d) == row'[d] \in {row[d], [row[d] EXCEPT !.lease = Null]}

Taken(d) ==
  /\ row'[d] = [row[d] EXCEPT !.lease = now + Lease]
  /\ Due(d)
  /\ \E w \in Worker : ~Busy(w) /\ job'[w] = Granted(d)

Stopped(d) ==
  /\ row[d].status # "absent"
  /\ row'[d] \in {Cancelled(row[d]), [Cancelled(row[d]) EXCEPT !.lease = Null]}

Requeued(d) ==
  \E t \in Recent :
    \/ row'[d] = [row[d] EXCEPT !.nextAt = t]
    \/ row'[d] = Queued(t) /\ mode[EndpointOf(d)] = "active" /\ UNCHANGED mode
    \/ row'[d] = Replayed(row[d], t) /\ row[d].status # "absent" /\ Ops \cap {"replay", "bulk"} # {}

SettledBy(d, w) ==
  /\ job[w].phase = "answered" /\ job[w].delivery = d /\ job'[w] = Idle
  /\ row[d].status # "absent"
  /\ row'[d] \in {SettledRow(w), Cancelled(SettledRow(w))}

RowStep(d) ==
  \/ Kept(d) \/ Taken(d) \/ Stopped(d) \/ Requeued(d)
  \/ row'[d] = Absent
  \/ \E w \in Worker : SettledBy(d, w)

(* A claim takes at most one delivery of a limited endpoint, and only when *)
(* its time has come.                                                      *)
LEMMA LimitedPicksAreSpaced ==
  ASSUME NEW n, NEW picked \in Picks(n), NEW d \in picked, Limited(EndpointOf(d))
  PROVE  /\ Allowed(EndpointOf(d))
         /\ \A o \in picked : EndpointOf(o) = EndpointOf(d) => o = d
<1>1. PICK first \in UnlimitedPicks(n) :
        \E second \in LimitedPicks(n - Cardinality(first)) : picked = first \cup second
  BY DEF Picks
<1>2. PICK second \in LimitedPicks(n - Cardinality(first)) : picked = first \cup second
  BY <1>1
<1>3. \A o \in first : ~Limited(EndpointOf(o))
  BY DEF UnlimitedPicks
<1>4. /\ \A o \in second : Allowed(EndpointOf(o))
      /\ \A o, q \in second : EndpointOf(o) = EndpointOf(q) => o = q
  BY DEF LimitedPicks
<1> QED
  BY <1>2, <1>3, <1>4

LEMMA ClosedHealth ==
  ASSUME NEW h \in Health
  PROVE  NoHealth.openUntil = Null /\ Recovered(h).openUntil = Null
BY DEF NoHealth, Recovered, Health

LEMMA ClosingHealth ==
  ASSUME TypeOK, NEW f \in Endpoint, CloseCircuit(f), NEW e \in Endpoint
  PROVE  HealthStep(e)
BY DEF CloseCircuit, TypeOK, HealthStep

LEMMA EndpointHealth ==
  ASSUME TypeOK, NEW f \in Endpoint, EndpointStep(f), NEW e \in Endpoint
  PROVE  HealthStep(e)
<1>1. CASE BulkReplay(f) \/ Resume(f)
  BY <1>1, ClosingHealth DEF BulkReplay, Resume
<1>2. CASE Enable(f) \/ Delete(f)
  BY <1>2 DEF Enable, Delete, Serving, HealthStep, TypeOK
<1>3. CASE Disable(f)
  BY <1>3 DEF Disable, HealthStep
<1> QED
  BY <1>1, <1>2, <1>3 DEF EndpointStep

LEMMA WorkerHealth ==
  ASSUME TypeOK, NEW w \in Worker, WorkerStep(w), NEW e \in Endpoint
  PROVE  HealthStep(e)
<1>1. CASE SettleSuccess(w)
  BY <1>1 DEF SettleSuccess, HealthStep, TypeOK
<1>2. CASE SettleFailure(w)
  BY <1>2 DEF SettleFailure, Record, HealthStep, TypeOK
<1>3. CASE ~SettleSuccess(w) /\ ~SettleFailure(w)
  BY <1>3 DEF WorkerStep, Send, AnswerSuccess, AnswerRetryable, AnswerFatal, Finish, SettleFails,
              table, HealthStep
<1> QED
  BY <1>1, <1>2, <1>3

LEMMA NextHealth ==
  ASSUME TypeOK, [Next]_vars, NEW e \in Endpoint
  PROVE  HealthStep(e)
<1>1. CASE \E p \in Proc : Claim(p)
  <2>1. PICK p \in Proc : Claim(p)
    BY <1>1
  <2>2. PICK picked \in Picks(AtMost(BatchSize, IdleWorkers(p))) :
          health' = [f \in Endpoint |->
                       IF Limited(f) /\ \E d \in picked : EndpointOf(d) = f
                       THEN [health[f] EXCEPT !.nextAllowed = now + Spacing(f)]
                       ELSE health[f]]
    BY <2>1 DEF Claim
  <2>3. \A d \in picked : Limited(EndpointOf(d)) => Allowed(EndpointOf(d))
    BY LimitedPicksAreSpaced
  <2> QED
    BY <2>2, <2>3 DEF HealthStep
<1>2. CASE \E w \in Worker : WorkerStep(w)
  BY <1>2, WorkerHealth
<1>3. CASE \E f \in Endpoint : EndpointStep(f)
  BY <1>3, EndpointHealth
<1>4. CASE \E d \in Delivery : Replay(d)
  BY <1>4, ClosingHealth DEF Replay, Delivery, EndpointOf
<1>5. CASE UNCHANGED health
  BY <1>5 DEF HealthStep
<1> QED
  BY <1>1, <1>2, <1>3, <1>4, <1>5 DEF Next, vars, table, Tick, Prune, Start, Crash, Post,
     CancelCheck, CancelWrite

LEMMA BroughtForwardStep ==
  ASSUME NEW rows \in [Delivery -> Row], NEW e \in Endpoint, NEW t \in Nat, NEW d \in Delivery
  PROVE  BroughtForward(rows, e, t)[d] \in {rows[d], [rows[d] EXCEPT !.nextAt = t]}
BY DEF BroughtForward

LEMMA ReplayedIsDue ==
  ASSUME NEW r \in Row, NEW t \in Nat
  PROVE  [Replayed(r, t) EXCEPT !.nextAt = t] = Replayed(r, t)
BY DEF Replayed

LEMMA EndpointRow ==
  ASSUME TypeOK, NEW e \in Endpoint, EndpointStep(e), NEW d \in Delivery
  PROVE  RowStep(d)
<1>1. Recent \subseteq Nat
  BY DEF Recent
<1>2. CASE BulkReplay(e)
  <2>1. PICK t \in Recent, picked \in SUBSET {o \in Delivery : row[o].status # "absent"} :
          row' = BroughtForward(
                   [o \in Delivery |-> IF o \in picked THEN Replayed(row[o], t) ELSE row[o]], e, t)
    BY <1>2 DEF BulkReplay, Terminal, Pending
  <2> DEFINE rows == [o \in Delivery |-> IF o \in picked THEN Replayed(row[o], t) ELSE row[o]]
  <2>2. t \in Nat /\ rows \in [Delivery -> Row]
    BY <1>1, RowShapes DEF TypeOK
  <2>3. row'[d] \in {rows[d], [rows[d] EXCEPT !.nextAt = t]}
    BY <2>1, <2>2, BroughtForwardStep
  <2>4. row[d] \in Row
    BY DEF TypeOK
  <2>5. CASE d \in picked
    <3>1. row'[d] = Replayed(row[d], t) /\ row[d].status # "absent"
      BY <2>2, <2>3, <2>4, <2>5, ReplayedIsDue
    <3>2. Ops \cap {"replay", "bulk"} # {}
      BY <1>2 DEF BulkReplay, Serving
    <3> QED
      BY <3>1, <3>2 DEF RowStep, Requeued
  <2>6. CASE d \notin picked
    BY <2>2, <2>3, <2>4, <2>6 DEF RowStep, Kept, Requeued
  <2> QED
    BY <2>5, <2>6
<1>3. CASE Resume(e) \/ Enable(e)
  <2>1. PICK t \in Recent : row' = BroughtForward(row, e, t)
    BY <1>3 DEF Resume, Enable
  <2>2. row'[d] \in {row[d], [row[d] EXCEPT !.nextAt = t]}
    BY <1>1, <2>1, BroughtForwardStep DEF TypeOK
  <2> QED
    BY <2>2 DEF RowStep, Kept, Requeued
<1>4. CASE Disable(e)
  BY <1>4 DEF Disable, Drain, Pending, RowStep, Kept, Stopped
<1>5. CASE Delete(e)
  BY <1>5 DEF Delete, RowStep, Kept
<1> QED
  BY <1>2, <1>3, <1>4, <1>5 DEF EndpointStep

LEMMA WorkerRow ==
  ASSUME TypeOK, NEW w \in Worker, WorkerStep(w), NEW d \in Delivery
  PROVE  RowStep(d)
<1> DEFINE mine == job[w].delivery
           settled == [row EXCEPT ![mine] = SettledRow(w)]
<1>1. /\ d = mine => settled[d] = SettledRow(w)
      /\ d # mine => settled[d] = row[d]
  BY DEF TypeOK
<1>2. Release(w) => job'[w] = Idle
  BY DEF Release, TypeOK
<1>3. CASE SettleSuccess(w)
  BY <1>1, <1>2, <1>3 DEF SettleSuccess, Record, RowStep, Kept, SettledBy
<1>4. CASE SettleFailure(w)
  <2>1. row' \in {settled, Drain(settled, EndpointOf(mine))}
    BY <1>4 DEF SettleFailure
  <2>2. \/ row'[d] = settled[d]
        \/ row'[d] = Cancelled(settled[d]) /\ settled[d].status = Pending
    BY <2>1 DEF Drain
  <2>3. CASE d = mine
    BY <1>1, <1>2, <1>4, <2>2, <2>3 DEF SettleFailure, Record, RowStep, SettledBy
  <2>4. CASE d # mine
    BY <1>1, <2>2, <2>4 DEF Pending, RowStep, Kept, Stopped
  <2> QED
    BY <2>3, <2>4
<1>5. CASE ~SettleSuccess(w) /\ ~SettleFailure(w)
  BY <1>5 DEF WorkerStep, Send, AnswerSuccess, AnswerRetryable, AnswerFatal, Finish, SettleFails,
              table, RowStep, Kept
<1> QED
  BY <1>3, <1>4, <1>5

(* What a claim does: every picked row is leased to a worker that was idle.*)
Hires(picked, hired, takes) ==
  /\ \A w \in hired : w \in Worker /\ ~Busy(w) /\ takes[w] \in picked
  /\ \A v, w \in hired : takes[v] = takes[w] => v = w
  /\ \A d \in picked : \E w \in hired : takes[w] = d
  /\ row' = [d \in Delivery |->
               IF d \in picked THEN [row[d] EXCEPT !.lease = now + Lease] ELSE row[d]]
  /\ job' = [w \in Worker |-> IF w \in hired THEN Granted(takes[w]) ELSE job[w]]
  /\ health' = [e \in Endpoint |->
                  IF Limited(e) /\ \E d \in picked : EndpointOf(d) = e
                  THEN [health[e] EXCEPT !.nextAllowed = now + Spacing(e)]
                  ELSE health[e]]

LEMMA ClaimHires ==
  ASSUME NEW p \in Proc, Claim(p)
  PROVE  \E n, picked, hired, takes : picked \in Picks(n) /\ Hires(picked, hired, takes)
<1> DEFINE n == AtMost(BatchSize, IdleWorkers(p))
<1>1. PICK picked \in Picks(n), hired \in SUBSET IdleWorkers(p) :
        \E takes \in Bijection(hired, picked) :
          /\ row' = [d \in Delivery |->
                       IF d \in picked THEN [row[d] EXCEPT !.lease = now + Lease] ELSE row[d]]
          /\ job' = [w \in Worker |-> IF w \in hired THEN Granted(takes[w]) ELSE job[w]]
          /\ health' = [e \in Endpoint |->
                          IF Limited(e) /\ \E d \in picked : EndpointOf(d) = e
                          THEN [health[e] EXCEPT !.nextAllowed = now + Spacing(e)]
                          ELSE health[e]]
  BY DEF Claim
<1>2. PICK takes \in Bijection(hired, picked) :
        job' = [w \in Worker |-> IF w \in hired THEN Granted(takes[w]) ELSE job[w]]
  BY <1>1
<1>3. /\ \A w \in hired : w \in Worker /\ ~Busy(w) /\ takes[w] \in picked
      /\ \A v, w \in hired : takes[v] = takes[w] => v = w
      /\ \A d \in picked : \E w \in hired : takes[w] = d
  BY DEF Bijection, Injection, Surjection, IsInjective, IdleWorkers
<1>4. Hires(picked, hired, takes)
  BY <1>1, <1>2, <1>3 DEF Hires
<1> QED
  BY <1>4

LEMMA NextRow ==
  ASSUME TypeOK, [Next]_vars, NEW d \in Delivery
  PROVE  RowStep(d)
<1>1. ASSUME NEW p \in Proc, Claim(p)
      PROVE  RowStep(d)
  <2>1. PICK n, picked, hired, takes : picked \in Picks(n) /\ Hires(picked, hired, takes)
    BY <1>1, ClaimHires
  <2>2. CASE d \in picked
    <3>1. Due(d)
      BY <2>1, <2>2, PicksAreDue
    <3>2. \E w \in Worker : ~Busy(w) /\ job'[w] = Granted(d)
      BY <2>1, <2>2 DEF Hires
    <3> QED
      BY <2>1, <2>2, <3>1, <3>2 DEF Hires, RowStep, Taken
  <2>3. CASE d \notin picked
    BY <2>1, <2>3 DEF Hires, RowStep, Kept
  <2> QED
    BY <2>2, <2>3
<1>2. CASE \E w \in Worker : WorkerStep(w)
  BY <1>2, WorkerRow
<1>3. CASE \E f \in Endpoint : EndpointStep(f)
  BY <1>3, EndpointRow
<1>4. CASE \E o \in Delivery : Replay(o)
  <2>1. PICK o \in Delivery, t \in Recent :
          row' = [row EXCEPT ![o] = Replayed(row[o], t)] /\ row[o].status # "absent"
    BY <1>4 DEF Replay
  <2>2. Ops \cap {"replay", "bulk"} # {}
    BY <1>4 DEF Replay, Serving
  <2> QED
    BY <2>1, <2>2 DEF RowStep, Kept, Requeued, TypeOK
<1>5. CASE \E m \in Message : Post(m)
  <2>1. PICK m \in Message, t \in Recent,
             wanted \in SUBSET {e \in Endpoint : mode[e] = "active"} :
          row' = [o \in Delivery |->
                    IF o[1] = m /\ EndpointOf(o) \in wanted THEN Queued(t) ELSE row[o]]
    BY <1>5 DEF Post
  <2>2. UNCHANGED mode
    BY <1>5 DEF Post
  <2> QED
    BY <2>1, <2>2 DEF RowStep, Kept, Requeued
<1>6. CASE \E p \in Proc : Start(p)
  BY <1>6 DEF Start, Reclaimed, RowStep, Kept
<1>7. CASE \E p \in Proc, o \in Delivery : CancelWrite(p, o)
  BY <1>7 DEF CancelWrite, RowStep, Kept, Stopped, TypeOK
<1>8. CASE UNCHANGED row
  BY <1>8 DEF RowStep, Kept
<1> QED
  BY <1>1, <1>2, <1>3, <1>4, <1>5, <1>6, <1>7, <1>8
     DEF Next, vars, table, Tick, Prune, Crash, CancelCheck

-----------------------------------------------------------------------------
(* Circuits and waits *)

(* The columns of a circuit are set and cleared together by every          *)
(* operation, in whatever order successes, failures and operators come.    *)
THEOREM CircuitsHaveCauses == Spec => []CircuitHasCause
<1>1. Init => CircuitHasCause
  BY DEF Init, NoHealth, CircuitHasCause
<1>2. TypeOK /\ CircuitHasCause /\ [Next]_vars => CircuitHasCause'
  <2> SUFFICES ASSUME TypeOK, CircuitHasCause, [Next]_vars, NEW e \in Endpoint,
                      health'[e].openUntil # Null
               PROVE  health'[e].failures >= FailuresToOpen
    BY DEF CircuitHasCause
  <2>1. health[e] \in Health /\ HealthStep(e)
    BY NextHealth DEF TypeOK
  <2>2. CASE health'[e] \in {health[e], Recovered(health[e])} \/ health'[e] = NoHealth
    <3>1. health'[e] = health[e]
      BY <2>1, <2>2, ClosedHealth
    <3> QED
      BY <3>1 DEF CircuitHasCause
  <2>3. CASE health'[e] = [health[e] EXCEPT !.nextAllowed = now + Spacing(e)]
    BY <2>1, <2>3 DEF CircuitHasCause, Health
  <2>4. ASSUME NEW w \in Worker, EndpointOf(job[w].delivery) = e, health'[e] = Failed(w)
        PROVE  health'[e].failures >= FailuresToOpen
    <3>1. Consecutive(w) = health[e].failures + 1 /\ health[e].failures \in Nat
      BY <2>1, <2>4 DEF Consecutive, Health
    <3>2. CASE Opens(Consecutive(w))
      BY <2>1, <2>4, <3>1, <3>2 DEF Opens, Failed, Health
    <3>3. CASE ~Opens(Consecutive(w))
      <4>1. health'[e].openUntil = health[e].openUntil /\ health'[e].failures = Consecutive(w)
        BY <2>1, <2>4, <3>3 DEF Failed, Health
      <4> QED
        BY <3>1, <4>1, BreakerAssumption DEF CircuitHasCause
    <3> QED
      BY <3>2, <3>3
  <2> QED
    BY <2>1, <2>2, <2>3, <2>4 DEF HealthStep
<1> QED
  BY <1>1, <1>2, TypeCorrect, PTL DEF Spec

(* An answered job carries nothing from the future, and no retry beyond    *)
(* the longest delay from now.                                             *)
AnswersAreTimely ==
  \A w \in Worker : job[w].phase = "answered" =>
    job[w].since <= now /\ job[w].retryAt <= now + MaxDelay

WaitInv == Inv /\ AnswersAreTimely /\ WaitIsBounded

LEMMA TimeGoesOn ==
  ASSUME TypeOK, [Next]_vars
  PROVE  /\ now \in Nat /\ now' \in {now, now + 1}
         /\ now' # now => UNCHANGED <<row, health, job>>
<1>1. now \in Nat
  BY NowIsNat
<1>2. CASE Tick
  BY <1>1, <1>2 DEF Tick, table
<1>3. CASE \E w \in Worker : WorkerStep(w)
  BY <1>1, <1>3 DEF WorkerStep, Send, AnswerSuccess, AnswerRetryable, AnswerFatal, Finish,
     SettleSuccess, SettleFailure, SettleFails
<1>4. CASE \E e \in Endpoint : EndpointStep(e)
  BY <1>1, <1>4 DEF EndpointStep, BulkReplay, Resume, Enable, Disable, Delete
<1> QED
  BY <1>1, <1>2, <1>3, <1>4
     DEF Next, vars, Prune, Start, Crash, Claim, Post, Replay, CancelCheck, CancelWrite

LEMMA AnswersStayTimely ==
  ASSUME WaitInv, [Next]_vars
  PROVE  AnswersAreTimely'
<1> SUFFICES ASSUME NEW w \in Worker, job'[w].phase = "answered"
             PROVE  job'[w].since <= now' /\ job'[w].retryAt <= now' + MaxDelay
  BY DEF AnswersAreTimely
<1>1. now \in Nat /\ now' \in {now, now + 1} /\ (now' # now => job' = job)
  BY TimeGoesOn DEF WaitInv, Inv
<1>2. CASE job'[w] = job[w]
  <2>1. job[w] \in Job
    BY <1>2, JobOf DEF Busy, WaitInv, Inv
  <2> QED
    BY <1>1, <1>2, <2>1, BackoffAssumption DEF WaitInv, AnswersAreTimely, Job, Null
<1>3. CASE job'[w] # job[w]
  <2>1. Next
    BY <1>3 DEF vars
  <2>2. AnswerSuccess(w) \/ AnswerRetryable(w) \/ AnswerFatal(w)
    BY <1>3, <2>1, AnswersAreNew DEF WaitInv, Inv
  <2>3. job[w] \in Job
    BY <2>2, JobOf DEF AnswerSuccess, AnswerRetryable, AnswerFatal, Finish, Busy, WaitInv, Inv
  <2>4. \A r \in RetryTimes(w) : r <= now + MaxDelay
    BY <1>1, <2>3, DelaysBounded, BackoffAssumption DEF RetryTimes, Job, Null
  <2>5. ASSUME NEW o, NEW r, Finish(w, o, r), r = Null \/ r \in RetryTimes(w)
        PROVE  job'[w].since = now /\ job'[w].retryAt <= now + MaxDelay
    BY <1>1, <2>4, <2>5, FinishSets, BackoffAssumption DEF WaitInv, Inv, Null
  <2>6. job'[w].since = now /\ job'[w].retryAt <= now + MaxDelay
    BY <2>2, <2>5 DEF AnswerSuccess, AnswerRetryable, AnswerFatal
  <2> QED
    BY <1>1, <1>3, <2>6
<1> QED
  BY <1>2, <1>3

(* What one row may wait, and for how long it may be claimed. *)
Bounded(r, t) ==
  /\ r.status = Pending => r.nextAt <= t + MaxDelay \/ r.nextAt <= t + MaxCooldown
  /\ r.lease <= t + Lease

LEMMA BoundedLater ==
  ASSUME NEW r \in Row, NEW t \in Nat, Bounded(r, t)
  PROVE  Bounded(r, t + 1)
BY BackoffAssumption, BreakerAssumption, QueueAssumption DEF Bounded, Row, Null

LEMMA RowStaysBounded ==
  ASSUME WaitInv, NEW d \in Delivery, RowStep(d)
  PROVE  Bounded(row'[d], now)
<1>1. row[d] \in Row /\ Bounded(row[d], now) /\ now \in Nat
  BY NowIsNat DEF WaitInv, Inv, WaitIsBounded, Bounded, TypeOK
<1>2. Null < now /\ Lease \in Nat /\ MaxDelay \in Nat /\ MaxCooldown \in Nat
  BY <1>1, QueueAssumption, BackoffAssumption, BreakerAssumption DEF Null
<1>3. CASE Kept(d) \/ Taken(d)
  <2>1. /\ row'[d].status = row[d].status /\ row'[d].nextAt = row[d].nextAt
        /\ row'[d].lease \in {row[d].lease, Null, now + Lease}
    BY <1>1, <1>3 DEF Kept, Taken, Row
  <2> QED
    BY <1>1, <1>2, <2>1 DEF Bounded, Row, Null
<1>4. CASE Stopped(d) \/ row'[d] = Absent
  <2>1. row'[d].status # Pending /\ row'[d].lease \in {row[d].lease, Null}
    <3>1. CASE Stopped(d)
      BY <1>1, <3>1 DEF Stopped, Cancelled, Pending, Row
    <3>2. CASE row'[d] = Absent
      BY <3>2 DEF Absent, Pending
    <3> QED
      BY <1>4, <3>1, <3>2
  <2> QED
    BY <1>1, <1>2, <2>1 DEF Bounded, Row, Null
<1>6. CASE Requeued(d)
  <2>1. PICK t \in Recent :
          row'[d] \in {Queued(t), Replayed(row[d], t), [row[d] EXCEPT !.nextAt = t]}
    BY <1>6 DEF Requeued
  <2> QED
    BY <1>1, <1>2, <2>1 DEF Bounded, Queued, Replayed, Recent, Pending, Row, Null
<1>5. ASSUME NEW w \in Worker, job[w].phase = "answered", job[w].delivery = d,
             row'[d] \in {SettledRow(w), Cancelled(SettledRow(w))}
      PROVE  Bounded(row'[d], now)
  <2>1. job[w] \in Job /\ job[w].since <= now /\ job[w].retryAt <= now + MaxDelay
    BY <1>5, JobOf DEF Busy, WaitInv, Inv, AnswersAreTimely
  <2>2. Consecutive(w) \in Nat
    BY <1>5 DEF Consecutive, WaitInv, Inv, TypeOK, Health, EndpointOf, Delivery
  <2>3. ClosedUntil(w) \in Int /\ ClosedUntil(w) <= now + MaxCooldown
    BY <1>1, <1>2, <2>1, <2>2, CooldownBounded DEF ClosedUntil, Job
  <2>4. job[w].retryAt # Null =>
          /\ RetryTime(w) \in Nat
          /\ RetryTime(w) <= now + MaxDelay \/ RetryTime(w) <= now + MaxCooldown
    BY <2>1, <2>3, RetryTimeIsNat DEF RetryTime, WaitInv, Inv
  <2>5. SettledRow(w) \in Row
    BY <2>1, SettledRowIsRow DEF WaitInv, Inv
  <2>6. Bounded(SettledRow(w), now)
    <3>1. CASE ~Owns(w)
      <4>1. SettledRow(w) \in {row[d], [row[d] EXCEPT !.lease = Null]}
        BY <1>5, <3>1 DEF SettledRow, Superseded
      <4> QED
        BY <1>1, <1>2, <4>1 DEF Bounded, Row, Null
    <3>2. CASE Owns(w)
      <4>1. SettledRow(w).lease = Null
        BY <1>1, <1>5, <3>2 DEF SettledRow, Row
      <4>2. SettledRow(w).status = Pending =>
              job[w].retryAt # Null /\ SettledRow(w).nextAt = RetryTime(w)
        BY <1>1, <1>5, <3>2 DEF SettledRow, Row, Pending
      <4> QED
        <5>1. SettledRow(w).lease <= now + Lease
          BY <1>1, <1>2, <4>1 DEF Null
        <5>2. SettledRow(w).status = Pending =>
                \/ SettledRow(w).nextAt <= now + MaxDelay
                \/ SettledRow(w).nextAt <= now + MaxCooldown
          BY <2>4, <4>2
        <5> QED
          BY <5>1, <5>2 DEF Bounded
    <3> QED
      BY <3>1, <3>2
  <2> QED
    BY <1>5, <2>5, <2>6 DEF Bounded, Cancelled, Pending, Row
<1> QED
  BY <1>3, <1>4, <1>5, <1>6 DEF RowStep, SettledBy

LEMMA CircuitStaysBounded ==
  ASSUME WaitInv, NEW e \in Endpoint, HealthStep(e)
  PROVE  health'[e].openUntil <= now + MaxCooldown
<1>1. health[e] \in Health /\ health[e].openUntil <= now + MaxCooldown
  BY DEF WaitInv, Inv, TypeOK, WaitIsBounded
<1>2. now \in Nat /\ MaxCooldown \in Nat /\ Null < now
  BY NowIsNat, BreakerAssumption DEF WaitInv, Inv, Null
<1>3. CASE health'[e] \in {health[e], Recovered(health[e])} \/ health'[e] = NoHealth
  <2>1. health'[e] = health[e] \/ health'[e].openUntil = Null
    BY <1>1, <1>3, ClosedHealth
  <2> QED
    BY <1>1, <1>2, <2>1 DEF Null
<1>4. CASE health'[e] = [health[e] EXCEPT !.nextAllowed = now + Spacing(e)]
  BY <1>1, <1>4 DEF Health
<1>5. ASSUME NEW w \in Worker, job[w].phase = "answered",
             EndpointOf(job[w].delivery) = e, health'[e] = Failed(w)
      PROVE  health'[e].openUntil <= now + MaxCooldown
  <2>1. job[w] \in Job /\ job[w].since <= now
    BY <1>5, JobOf DEF Busy, WaitInv, Inv, AnswersAreTimely
  <2>2. Consecutive(w) \in Nat
    BY <1>1, <1>5 DEF Consecutive, Health
  <2>3. ClosedUntil(w) <= now + MaxCooldown
    BY <1>2, <2>1, <2>2, CooldownBounded DEF ClosedUntil, Job
  <2> QED
    BY <1>1, <1>5, <2>3 DEF Failed, Health
<1> QED
  BY <1>3, <1>4, <1>5 DEF HealthStep

(* No wait is longer than the policies allow, whatever is retried, cooled  *)
(* down, replayed or superseded, in any order.                             *)
THEOREM WaitsAreBounded == Spec => []WaitIsBounded
<1>1. Init => WaitInv
  <2>1. Init => Inv
    BY TypeInit DEF Init, Inv, RowsArePosted, RetryHasAttempt, Idle, Absent
  <2> QED
    BY <2>1, QueueAssumption, BreakerAssumption
       DEF Init, WaitInv, AnswersAreTimely, WaitIsBounded, Idle, Absent, NoHealth, Null, Pending
<1>2. WaitInv /\ [Next]_vars => WaitInv'
  <2> SUFFICES ASSUME WaitInv, [Next]_vars
               PROVE  WaitInv'
    OBVIOUS
  <2>1. Inv'
    BY InvInductive DEF WaitInv
  <2>2. now \in Nat /\ now' \in {now, now + 1} /\ (now' # now => UNCHANGED <<row, health>>)
    BY TimeGoesOn DEF WaitInv, Inv
  <2>3. ASSUME NEW d \in Delivery PROVE Bounded(row'[d], now')
    <3>1. row'[d] \in Row /\ Bounded(row'[d], now)
      BY <2>1, NextRow, RowStaysBounded DEF WaitInv, Inv, TypeOK
    <3> QED
      BY <2>2, <3>1, BoundedLater
  <2>4. ASSUME NEW e \in Endpoint PROVE health'[e].openUntil <= now' + MaxCooldown
    <3>1. health'[e].openUntil <= now + MaxCooldown /\ health'[e].openUntil \in Int
      BY <2>1, NextHealth, CircuitStaysBounded DEF WaitInv, Inv, TypeOK, Health
    <3> QED
      BY <2>2, <3>1, BreakerAssumption
  <2>5. WaitIsBounded'
    BY <2>3, <2>4 DEF WaitIsBounded, Bounded
  <2> QED
    BY <2>1, <2>5, AnswersStayTimely DEF WaitInv
<1>3. WaitInv => WaitIsBounded
  BY DEF WaitInv
<1> QED
  BY <1>1, <1>2, <1>3, PTL DEF Spec

-----------------------------------------------------------------------------
(* Counting attempts *)

(* Of several workers that claimed one delivery at most one result counts, *)
(* and it is that of a worker whose lease the row still carries.           *)
THEOREM AttemptsCountOnce == Spec => CountedOnce
<1> DEFINE Counts(d) ==
      row'[d].attempts > row[d].attempts =>
        /\ row'[d].attempts = row[d].attempts + 1
        /\ row'[d].lease = Null
        /\ \E w \in Worker : /\ Busy(w) /\ job'[w] = Idle
                             /\ job[w].delivery = d
                             /\ job[w].lease = row[d].lease
<1>1. ASSUME TypeOK, [Next]_vars, NEW d \in Delivery
      PROVE  Counts(d)
  <2>1. row[d] \in Row /\ row[d].attempts \in Nat /\ RowStep(d)
    BY <1>1, NextRow DEF TypeOK, Row
  <2>2. CASE Kept(d) \/ Taken(d) \/ Stopped(d) \/ Requeued(d) \/ row'[d] = Absent
    <3>1. row'[d].attempts = row[d].attempts \/ row'[d].attempts = 0
      <4>1. CASE Kept(d) \/ Taken(d)
        BY <2>1, <4>1 DEF Kept, Taken, Row
      <4>2. CASE Stopped(d)
        BY <2>1, <4>2 DEF Stopped, Cancelled, Row
      <4>3. CASE Requeued(d)
        BY <2>1, <4>3 DEF Requeued, Queued, Replayed, Row
      <4>4. CASE row'[d] = Absent
        BY <4>4 DEF Absent
      <4> QED
        BY <2>2, <4>1, <4>2, <4>3, <4>4
    <3> QED
      BY <2>1, <3>1
  <2>3. ASSUME NEW w \in Worker, SettledBy(d, w)
        PROVE  Counts(d)
    <3>1. job[w] \in Job
      BY <1>1, <2>3, JobOf DEF SettledBy, Busy
    <3>2. SettledRow(w) \in Row
      BY <1>1, <3>1, SettledRowIsRow
    <3>3. row'[d].attempts = SettledRow(w).attempts /\ row'[d].lease = SettledRow(w).lease
      BY <2>3, <3>2 DEF SettledBy, Cancelled, Row
    <3>4. CASE Owns(w)
      <4>1. SettledRow(w).attempts = job[w].attempts + 1 /\ SettledRow(w).lease = Null
        BY <2>1, <2>3, <3>4 DEF SettledBy, SettledRow, Row
      <4>2. job[w].attempts = row[d].attempts /\ job[w].lease = row[d].lease
        BY <2>3, <3>4 DEF SettledBy, Owns
      <4> QED
        BY <2>1, <2>3, <3>3, <4>1, <4>2 DEF SettledBy, Busy
    <3>5. CASE ~Owns(w)
      <4>1. SettledRow(w).attempts = row[d].attempts
        BY <2>1, <2>3, <3>5 DEF SettledBy, SettledRow, Superseded, Row
      <4> QED
        BY <2>1, <3>3, <4>1
    <3> QED
      BY <3>4, <3>5
  <2> QED
    BY <2>1, <2>2, <2>3 DEF RowStep
<1>2. TypeOK /\ [Next]_vars => [\A d \in Delivery : Counts(d)]_vars
  BY <1>1
<1> QED
  BY <1>2, TypeCorrect, PTL DEF Spec, CountedOnce

-----------------------------------------------------------------------------
(* Endpoints that are off *)

(* A deleted endpoint has no deliveries left. *)
GoneIsEmpty ==
  \A d \in Delivery : mode[EndpointOf(d)] = "gone" => row[d].status = "absent"

(* No operator queues finished deliveries again. *)
NoReplay == Ops \cap {"replay", "bulk"} = {}

Emptied(e) == \A d \in Delivery : EndpointOf(d) = e => row'[d] = Absent
Drained(e) == \A d \in Delivery : EndpointOf(d) = e => row'[d].status # Pending
HasRows(e) == \E d \in Delivery : EndpointOf(d) = e /\ row[d].status # "absent"

(* What may become of one endpoint's mode, and of its rows when it does.   *)
ModeStep(e) ==
  \/ mode'[e] = mode[e]
  \/ mode'[e] = "gone" /\ Emptied(e)
  \/ mode'[e] = "active" /\ mode[e] # "gone" /\ "enable" \in Ops
  \/ mode'[e] = "disabled" /\ Drained(e) /\ (mode[e] # "gone" \/ HasRows(e))

LEMMA DrainEmpties ==
  ASSUME NEW rows, NEW e, NEW d \in Delivery, EndpointOf(d) = e
  PROVE  Drain(rows, e)[d].status # Pending
<1>1. CASE rows[d].status = Pending
  <2>1. Drain(rows, e)[d] = Cancelled(rows[d])
    BY <1>1 DEF Drain
  <2>2. Cancelled(rows[d]).status # Pending
    BY <1>1 DEF Cancelled, Pending
  <2> QED
    BY <2>1, <2>2
<1>2. CASE rows[d].status # Pending
  BY <1>2 DEF Drain
<1> QED
  BY <1>1, <1>2

LEMMA NextMode ==
  ASSUME TypeOK, [Next]_vars, NEW e \in Endpoint
  PROVE  ModeStep(e)
<1>1. CASE \E w \in Worker : WorkerStep(w)
  <2>1. PICK w \in Worker : WorkerStep(w)
    BY <1>1
  <2>2. CASE SettleFailure(w) /\ mode' # mode
    <3> DEFINE d == job[w].delivery
               settled == [row EXCEPT ![d] = SettledRow(w)]
    <3>1. /\ mode' = [mode EXCEPT ![EndpointOf(d)] = "disabled"]
          /\ row' = Drain(settled, EndpointOf(d))
          /\ row[d].status # "absent" /\ job[w].phase = "answered"
      BY <2>2 DEF SettleFailure, Record
    <3>2. d \in Delivery
      BY <3>1, JobOf DEF Busy, Job
    <3>3. Drained(EndpointOf(d)) /\ HasRows(EndpointOf(d))
      BY <3>1, <3>2, DrainEmpties DEF Drained, HasRows
    <3> QED
      BY <3>1, <3>3 DEF ModeStep, TypeOK
  <2>3. CASE UNCHANGED mode
    BY <2>3 DEF ModeStep
  <2> QED
    BY <2>1, <2>2, <2>3 DEF WorkerStep, Send, AnswerSuccess, AnswerRetryable, AnswerFatal, Finish,
       SettleSuccess, SettleFails, table
<1>2. CASE \E f \in Endpoint : EndpointStep(f)
  <2>1. PICK f \in Endpoint : EndpointStep(f)
    BY <1>2
  <2>2. CASE Disable(f)
    BY <2>2, DrainEmpties DEF Disable, ModeStep, Drained, TypeOK
  <2>3. CASE Delete(f)
    BY <2>3 DEF Delete, ModeStep, Emptied, TypeOK
  <2>4. CASE Enable(f)
    BY <2>4 DEF Enable, Serving, ModeStep, TypeOK
  <2>5. CASE BulkReplay(f) \/ Resume(f)
    BY <2>5 DEF BulkReplay, Resume, ModeStep
  <2> QED
    BY <2>1, <2>2, <2>3, <2>4, <2>5 DEF EndpointStep
<1>3. CASE UNCHANGED mode
  BY <1>3 DEF ModeStep
<1> QED
  BY <1>1, <1>2, <1>3 DEF Next, vars, table, Tick, Prune, Start, Crash, Claim, Post, Replay,
     CancelCheck, CancelWrite

(* A row that a settlement writes is pending only if it was. *)
LEMMA SettledStatus ==
  ASSUME TypeOK, NEW d \in Delivery, NEW w \in Worker, SettledBy(d, w)
  PROVE  /\ row'[d].status # "absent"
         /\ row'[d].status = Pending => row[d].status = Pending
<1>1. job[w] \in Job /\ job[w].delivery = d /\ row[d] \in Row /\ row[d].status # "absent"
  BY JobOf DEF SettledBy, Busy, TypeOK
<1>2. SettledRow(w) \in Row
  BY <1>1, SettledRowIsRow
<1>3. /\ SettledRow(w).status # "absent"
      /\ SettledRow(w).status = Pending => row[d].status = Pending
  BY <1>1 DEF SettledRow, Superseded, Owns, Row, Pending
<1> QED
  BY <1>2, <1>3 DEF SettledBy, Cancelled, Pending, Row

LEMMA GoneStaysEmpty ==
  ASSUME TypeOK, GoneIsEmpty, [Next]_vars
  PROVE  GoneIsEmpty'
<1> SUFFICES ASSUME NEW d \in Delivery, mode'[EndpointOf(d)] = "gone"
             PROVE  row'[d].status = "absent"
  BY DEF GoneIsEmpty
<1> DEFINE e == EndpointOf(d)
<1>1. e \in Endpoint /\ row[d] \in Row
  BY DEF EndpointOf, Delivery, TypeOK
<1>2. CASE Emptied(e)
  BY <1>2 DEF Emptied, Absent
<1>3. CASE mode[e] = "gone"
  <2>1. row[d].status = "absent"
    BY <1>3 DEF GoneIsEmpty
  <2>2. RowStep(d)
    BY NextRow
  <2>3. ~Due(d) /\ ~Stopped(d) /\ \A w \in Worker : ~SettledBy(d, w)
    BY <2>1 DEF Due, Pending, Stopped, SettledBy
  <2>4. CASE Kept(d)
    BY <1>1, <2>1, <2>4 DEF Kept, Row
  <2>5. CASE Requeued(d)
    BY <1>1, <1>3, <2>1, <2>5 DEF Requeued, Row
  <2> QED
    BY <2>2, <2>3, <2>4, <2>5 DEF RowStep, Taken, Absent
<1> QED
  BY <1>1, <1>2, <1>3, NextMode DEF ModeStep

LEMMA GoneStaysGone ==
  ASSUME TypeOK, GoneIsEmpty, [Next]_vars, NEW e \in Endpoint, mode[e] = "gone"
  PROVE  mode'[e] = "gone"
BY NextMode DEF ModeStep, HasRows, GoneIsEmpty

LEMMA OffStaysDrained ==
  ASSUME TypeOK, OffMeansDrained, NoReplay, [Next]_vars
  PROVE  OffMeansDrained'
<1> SUFFICES ASSUME NEW d \in Delivery, mode'[EndpointOf(d)] = "disabled"
             PROVE  row'[d].status # Pending
  BY DEF OffMeansDrained
<1> DEFINE e == EndpointOf(d)
<1>1. e \in Endpoint /\ row[d] \in Row
  BY DEF EndpointOf, Delivery, TypeOK
<1>2. CASE Drained(e)
  BY <1>2 DEF Drained
<1>3. CASE mode[e] = "disabled"
  <2>1. row[d].status # Pending /\ RowStep(d)
    BY <1>3, NextRow DEF OffMeansDrained
  <2>2. CASE Kept(d)
    BY <1>1, <2>1, <2>2 DEF Kept, Row
  <2>3. CASE Stopped(d)
    BY <1>1, <2>3 DEF Stopped, Cancelled, Pending, Row
  <2>4. CASE Requeued(d)
    BY <1>1, <1>3, <2>1, <2>4 DEF Requeued, NoReplay, Row
  <2>5. CASE Taken(d) \/ row'[d] = Absent
    BY <2>1, <2>5 DEF Taken, Due, Absent, Pending
  <2>6. CASE \E w \in Worker : SettledBy(d, w)
    BY <2>1, <2>6, SettledStatus
  <2> QED
    BY <2>1, <2>2, <2>3, <2>4, <2>5, <2>6 DEF RowStep
<1> QED
  BY <1>1, <1>2, <1>3, NextMode DEF ModeStep

(* An endpoint that is switched off has nothing pending and gets nothing:  *)
(* no retry, post or late result comes back to it, as long as nobody       *)
(* replays what is finished.                                               *)
THEOREM OffIsDrained ==
  ASSUME NoReplay
  PROVE  Spec => []OffMeansDrained
<1>1. Init => OffMeansDrained
  BY DEF Init, OffMeansDrained, Absent, Pending
<1>2. TypeOK /\ OffMeansDrained /\ [Next]_vars => OffMeansDrained'
  BY OffStaysDrained
<1> QED
  BY <1>1, <1>2, TypeCorrect, PTL DEF Spec

(* A deleted endpoint stays deleted and empty: no settlement, retry, post  *)
(* or replay writes a row of it or gives it another mode, though requests  *)
(* to it may still be open and cancels of its deliveries half done.        *)
THEOREM DeletedIsGone ==
  Spec => /\ []GoneIsEmpty
          /\ [][\A e \in Endpoint : mode[e] = "gone" => mode'[e] = "gone"]_vars
<1>1. Init => GoneIsEmpty
  BY DEF Init, GoneIsEmpty, Absent
<1>2. TypeOK /\ GoneIsEmpty /\ [Next]_vars => GoneIsEmpty'
  BY GoneStaysEmpty
<1>3. TypeOK /\ GoneIsEmpty /\ [Next]_vars
        => [\A e \in Endpoint : mode[e] = "gone" => mode'[e] = "gone"]_vars
  BY GoneStaysGone
<1> QED
  BY <1>1, <1>2, <1>3, TypeCorrect, PTL DEF Spec

-----------------------------------------------------------------------------
(* Rate limits *)

(* What may become of a worker's job.                                      *)
JobKept(w) ==
  /\ Busy(w) /\ Busy(w)'
  /\ job'[w].delivery = job[w].delivery
  /\ job'[w].attempts = job[w].attempts
  /\ job'[w].lease = job[w].lease

JobDone(w) ==
  /\ job'[w] = Idle
  /\ w \notin overtaken'
  /\ \/ "crash" \in Ops /\ UNCHANGED table
     \/ SettleSuccess(w) \/ SettleFailure(w) \/ SettleFails(w)

JobStep(w) == job'[w] = job[w] \/ JobKept(w) \/ JobDone(w)

LEMMA WorkerJob ==
  ASSUME TypeOK, NEW v \in Worker, WorkerStep(v), NEW w \in Worker
  PROVE  JobStep(w)
<1>1. CASE v # w
  BY <1>1 DEF TypeOK, WorkerStep, Send, AnswerSuccess, AnswerRetryable, AnswerFatal, Finish,
     SettleSuccess, SettleFailure, SettleFails, Release, JobStep
<1>2. CASE v = w
  <2>1. CASE Send(w)
    <3>1. job[w] \in Job
      BY <2>1, JobOf DEF Send, Busy
    <3>2. job'[w] = [job[w] EXCEPT !.phase = "sending", !.since = now]
      BY <2>1 DEF Send, TypeOK
    <3>3. /\ job'[w].phase = "sending" /\ job'[w].delivery = job[w].delivery
          /\ job'[w].attempts = job[w].attempts /\ job'[w].lease = job[w].lease
      BY <3>1, <3>2 DEF Job
    <3> QED
      BY <2>1, <3>3 DEF Send, JobStep, JobKept, Busy
  <2>2. ASSUME NEW o, NEW r, Finish(w, o, r)
        PROVE  JobKept(w)
    BY <2>2, FinishSets DEF Finish, JobKept, Busy
  <2>3. CASE SettleSuccess(w) \/ SettleFailure(w) \/ SettleFails(w)
    BY <2>3 DEF SettleSuccess, SettleFailure, SettleFails, Release, TypeOK, JobStep, JobDone
  <2> QED
    BY <1>2, <2>1, <2>2, <2>3 DEF WorkerStep, AnswerSuccess, AnswerRetryable, AnswerFatal, JobStep
<1> QED
  BY <1>1, <1>2

(* Only a claim gives a worker a job it did not have. *)
LEMMA NextJob ==
  ASSUME TypeOK, [Next]_vars, NEW w \in Worker
  PROVE  JobStep(w) \/ \E p \in Proc : Claim(p)
<1>1. CASE \E v \in Worker : WorkerStep(v)
  BY <1>1, WorkerJob
<1>2. CASE \E p \in Proc : Crash(p)
  BY <1>2 DEF Crash, TypeOK, JobStep, JobDone
<1>3. CASE \E e \in Endpoint : EndpointStep(e)
  BY <1>3 DEF EndpointStep, BulkReplay, Resume, Enable, Disable, Delete, JobStep
<1>4. CASE UNCHANGED job
  BY <1>4 DEF JobStep
<1> QED
  BY <1>1, <1>2, <1>3, <1>4 DEF Next, vars, Tick, Prune, Start, Post, Replay, CancelCheck, CancelWrite

(* The next allowed time of an endpoint lies a spacing after every claim   *)
(* a worker still works on; a deleted endpoint forgets, and needs it no    *)
(* more.                                                                   *)
AllowedAfterClaims ==
  \A w \in Worker :
    LET e == EndpointOf(job[w].delivery)
    IN  Busy(w) /\ Limited(e) =>
          mode[e] = "gone" \/ health[e].nextAllowed >= job[w].lease - Lease + Spacing(e)

RateInv == TypeOK /\ GoneIsEmpty /\ AllowedAfterClaims /\ RateSpacing

(* Nobody switches an endpoint on, which forgets its rate limit. *)
NoEnable == "enable" \notin Ops

LEMMA AllowedOnlyGrows ==
  ASSUME RateInv, [Next]_vars, NoEnable, NEW e \in Endpoint, mode'[e] # "gone"
  PROVE  health'[e].nextAllowed >= health[e].nextAllowed
<1>1. health[e] \in Health /\ now \in Nat /\ HealthStep(e)
  BY NextHealth, NowIsNat DEF RateInv, TypeOK
<1>2. CASE health'[e] \in {health[e], Recovered(health[e])}
  <2>1. health'[e].nextAllowed = health[e].nextAllowed
    BY <1>1, <1>2 DEF Recovered, Health
  <2> QED
    BY <1>1, <2>1 DEF Health
<1>3. CASE Allowed(e) /\ Limited(e) /\ health'[e] = [health[e] EXCEPT !.nextAllowed = now + Spacing(e)]
  BY <1>1, <1>3, SpacingIsPositive DEF Allowed, Health
<1>4. CASE \E w \in Worker : health'[e] = Failed(w) /\ EndpointOf(job[w].delivery) = e
  BY <1>1, <1>4 DEF Failed, Health
<1> QED
  BY <1>1, <1>2, <1>3, <1>4 DEF HealthStep, NoEnable

(* What a worker that is busy after a step is busy with. *)
LEMMA OldOrNew ==
  ASSUME RateInv, [Next]_vars, NoEnable, NEW w \in Worker, Busy(w)'
  PROVE  \/ JobKept(w) \/ job'[w] = job[w]
         \/ \E p \in Proc : Claim(p)
BY NextJob DEF RateInv, JobStep, JobDone, Busy, Idle

LEMMA ClaimSpaced ==
  ASSUME RateInv, NEW p \in Proc, Claim(p), NoEnable
  PROVE  RateInv'
<1>1. PICK n, picked, hired, takes : picked \in Picks(n) /\ Hires(picked, hired, takes)
  BY ClaimHires
<1>2. picked \subseteq {d \in Delivery : Due(d)}
  BY <1>1, PicksAreDue
<1>3. now \in Nat /\ Lease \in Nat
  BY NowIsNat, QueueAssumption DEF RateInv
<1>4. Next
  BY DEF Next
<1>5. TypeOK' /\ GoneIsEmpty'
  BY <1>4, TypeStep, GoneStaysEmpty DEF RateInv
<1>6. UNCHANGED mode
  BY DEF Claim
<1>7. \A w \in Worker : /\ w \in hired => job'[w] = Granted(takes[w])
                        /\ w \notin hired => job'[w] = job[w]
  BY <1>1 DEF Hires
<1>8. ASSUME NEW w \in hired
      PROVE  /\ job'[w].delivery = takes[w] /\ job'[w].lease = now + Lease
             /\ takes[w] \in picked /\ EndpointOf(takes[w]) \in Endpoint
             /\ mode[EndpointOf(takes[w])] = "active"
             /\ Limited(EndpointOf(takes[w])) =>
                  health'[EndpointOf(takes[w])].nextAllowed = now + Spacing(EndpointOf(takes[w]))
  <2>1. w \in Worker /\ takes[w] \in picked
    BY <1>1 DEF Hires
  <2>2. EndpointOf(takes[w]) \in Endpoint /\ mode[EndpointOf(takes[w])] = "active"
    BY <1>2, <2>1 DEF Due, EndpointOf, Delivery
  <2>3. health[EndpointOf(takes[w])] \in Health
    BY <2>2 DEF RateInv, TypeOK
  <2> QED
    BY <1>1, <1>7, <2>1, <2>2, <2>3 DEF Hires, Granted, Health
<1>9. AllowedAfterClaims'
  <2> SUFFICES ASSUME NEW w \in Worker, Busy(w)', Limited(EndpointOf(job'[w].delivery))
               PROVE  LET e == EndpointOf(job'[w].delivery)
                      IN  \/ mode'[e] = "gone"
                          \/ health'[e].nextAllowed >= job'[w].lease - Lease + Spacing(e)
    BY DEF AllowedAfterClaims, Limited, Spacing
  <2> DEFINE e == EndpointOf(job'[w].delivery)
  <2>1. CASE w \in hired
    BY <1>3, <1>8, <2>1, SpacingIsPositive
  <2>2. CASE w \notin hired
    <3>1. job'[w] = job[w] /\ Busy(w)
      BY <1>7, <2>2 DEF Busy
    <3>2. job[w] \in Job /\ e \in Endpoint
      BY <3>1, JobOf DEF RateInv, Job, EndpointOf, Delivery
    <3>3. mode[e] = "gone" \/ health[e].nextAllowed >= job[w].lease - Lease + Spacing(e)
      BY <3>1 DEF RateInv, AllowedAfterClaims
    <3>4. mode'[e] # "gone" => health'[e].nextAllowed >= health[e].nextAllowed
      BY <1>4, <3>2, AllowedOnlyGrows
    <3>5. health'[e] \in Health /\ health[e] \in Health
      BY <1>5, <3>2 DEF RateInv, TypeOK
    <3> QED
      BY <1>3, <1>6, <3>1, <3>2, <3>3, <3>4, <3>5, SpacingIsPositive DEF Health, Job
  <2> QED
    BY <2>1, <2>2
<1>10. RateSpacing'
  <2> SUFFICES ASSUME NEW v \in Worker, NEW w \in Worker, v # w, Busy(v)', Busy(w)',
                      EndpointOf(job'[v].delivery) = EndpointOf(job'[w].delivery),
                      Limited(EndpointOf(job'[v].delivery)),
                      job'[v].lease <= job'[w].lease
               PROVE  job'[w].lease - job'[v].lease >= Spacing(EndpointOf(job'[v].delivery))
    BY DEF RateSpacing, Limited, Spacing
  <2> DEFINE e == EndpointOf(job'[v].delivery)
  <2>1. ASSUME NEW u \in Worker, u \notin hired, Busy(u)', EndpointOf(job'[u].delivery) = e
        PROVE  /\ job'[u] = job[u] /\ Busy(u) /\ job[u].lease \in Nat /\ e \in Endpoint
               /\ mode[e] = "gone" \/ health[e].nextAllowed >= job[u].lease - Lease + Spacing(e)
    <3>1. job'[u] = job[u] /\ Busy(u)
      BY <1>7, <2>1 DEF Busy
    <3>2. job[u] \in Job /\ e \in Endpoint
      BY <2>1, <3>1, JobOf DEF RateInv, Job, EndpointOf, Delivery
    <3> QED
      BY <2>1, <3>1, <3>2 DEF RateInv, AllowedAfterClaims, Job
  <2>2. ASSUME NEW u \in Worker, u \in hired, EndpointOf(job'[u].delivery) = e
        PROVE  /\ job'[u].lease = now + Lease /\ mode[e] = "active" /\ e \in Endpoint
               /\ health[e].nextAllowed <= now
    <3>1. Allowed(e)
      BY <1>1, <1>8, <2>2, LimitedPicksAreSpaced
    <3> QED
      BY <1>8, <2>2, <3>1 DEF Allowed
  <2>3. CASE v \in hired /\ w \in hired
    <3>1. takes[v] = takes[w]
      BY <1>1, <1>8, <2>3, LimitedPicksAreSpaced
    <3> QED
      BY <1>1, <2>3, <3>1 DEF Hires
  <2>4. CASE v \notin hired /\ w \notin hired
    BY <2>1, <2>4 DEF RateInv, RateSpacing
  <2>5. CASE v \notin hired /\ w \in hired
    <3>1. health[e].nextAllowed \in Int /\ Spacing(e) \in Nat
      BY <2>2, <2>5, SpacingIsPositive DEF RateInv, TypeOK, Health
    <3> QED
      BY <1>3, <2>1, <2>2, <2>5, <3>1
  <2>6. CASE v \in hired /\ w \notin hired
    <3>1. health[e].nextAllowed \in Int /\ Spacing(e) \in Nat /\ Spacing(e) > 0
      BY <2>2, <2>6, SpacingIsPositive DEF RateInv, TypeOK, Health
    <3> QED
      BY <1>3, <2>1, <2>2, <2>6, <3>1
  <2> QED
    BY <2>3, <2>4, <2>5, <2>6
<1> QED
  BY <1>5, <1>9, <1>10 DEF RateInv

LEMMA RateInductive ==
  ASSUME NoEnable, RateInv, [Next]_vars
  PROVE  RateInv'
<1>1. CASE \E p \in Proc : Claim(p)
  BY <1>1, ClaimSpaced
<1>2. CASE ~\E p \in Proc : Claim(p)
  <2>1. TypeOK' /\ GoneIsEmpty'
    BY TypeStep, GoneStaysEmpty DEF RateInv
  <2>2. ASSUME NEW w \in Worker, Busy(w)'
        PROVE  /\ Busy(w) /\ job[w] \in Job
               /\ job'[w].delivery = job[w].delivery /\ job'[w].lease = job[w].lease
               /\ EndpointOf(job[w].delivery) \in Endpoint
    <3>1. Busy(w) /\ job'[w].delivery = job[w].delivery /\ job'[w].lease = job[w].lease
      BY <1>2, <2>2, OldOrNew DEF JobKept, Busy
    <3> QED
      BY <3>1, JobOf DEF RateInv, Job, EndpointOf, Delivery
  <2>3. AllowedAfterClaims'
    <3> SUFFICES ASSUME NEW w \in Worker, Busy(w)', Limited(EndpointOf(job'[w].delivery))
                 PROVE  LET e == EndpointOf(job'[w].delivery)
                        IN  \/ mode'[e] = "gone"
                            \/ health'[e].nextAllowed >= job'[w].lease - Lease + Spacing(e)
      BY DEF AllowedAfterClaims, Limited, Spacing
    <3> DEFINE e == EndpointOf(job[w].delivery)
    <3>1. mode[e] = "gone" \/ health[e].nextAllowed >= job[w].lease - Lease + Spacing(e)
      BY <2>2 DEF RateInv, AllowedAfterClaims
    <3>2. mode[e] = "gone" => mode'[e] = "gone"
      BY <2>2, GoneStaysGone DEF RateInv
    <3>3. mode'[e] # "gone" => health'[e].nextAllowed >= health[e].nextAllowed
      BY <2>2, AllowedOnlyGrows
    <3>4. health'[e] \in Health /\ health[e] \in Health /\ Lease \in Nat /\ Spacing(e) \in Nat
      BY <2>1, <2>2, QueueAssumption, SpacingIsPositive DEF RateInv, TypeOK
    <3> QED
      BY <2>2, <3>1, <3>2, <3>3, <3>4 DEF Health, Job
  <2>4. RateSpacing'
    BY <2>2 DEF RateInv, RateSpacing, Limited, Spacing
  <2> QED
    BY <2>1, <2>3, <2>4 DEF RateInv
<1> QED
  BY <1>1, <1>2

(* The claims of any two deliveries of a limited endpoint that workers     *)
(* hold at once lie a spacing apart, whatever its circuit, its retries,    *)
(* other processes and its deletion do, as long as it is not switched on   *)
(* again in between.                                                       *)
THEOREM LimitsAreSpacing ==
  ASSUME NoEnable
  PROVE  Spec => []RateSpacing
<1>1. Init => RateInv
  BY TypeInit DEF Init, RateInv, GoneIsEmpty, AllowedAfterClaims, RateSpacing, Busy, Idle, Absent
<1>2. RateInv /\ [Next]_vars => RateInv'
  BY RateInductive
<1>3. RateInv => RateSpacing
  BY DEF RateInv
<1> QED
  BY <1>1, <1>2, <1>3, PTL DEF Spec

-----------------------------------------------------------------------------
(* Leases and those who hold them *)

(* No process dies and no transaction of the database fails. *)
NoLoss == Ops \cap {"crash", "dbfail"} = {}

Holds(w, d, l) == Busy(w) /\ job[w].delivery = d /\ job[w].lease = l
WillHold(w, d, l) == Busy(w)' /\ job'[w].delivery = d /\ job'[w].lease = l

AbsentIsFree == \A d \in Delivery : row[d].status = "absent" => row[d].lease = Null

(* Every lease that has not run out is that of a worker, whatever has      *)
(* become of its delivery.                                                 *)
LiveIsHeld ==
  \A d \in Delivery : row[d].lease > now => \E w \in Worker : Holds(w, d, row[d].lease)

HeldInv == TypeOK /\ AbsentIsFree /\ LiveIsHeld

(* A worker that is done leaves no lease of its own behind. *)
LEMMA DoneFreesLease ==
  ASSUME TypeOK, AbsentIsFree, NoLoss, NEW w \in Worker, Busy(w), JobDone(w)
  PROVE  LET d == job[w].delivery
         IN  row'[d].lease # job[w].lease
<1> DEFINE d == job[w].delivery
           settled == [row EXCEPT ![d] = SettledRow(w)]
<1>1. job[w] \in Job /\ d \in Delivery /\ row[d] \in Row /\ job[w].lease \in Nat
  BY JobOf DEF Job, TypeOK
<1>2. job[w].lease # Null
  BY <1>1 DEF Null
<1>3. SettledRow(w) \in Row
  BY <1>1, SettledRowIsRow
<1>4. SettledRow(w).lease # job[w].lease
  <2>1. CASE Owns(w)
    BY <1>1, <1>2, <2>1 DEF SettledRow, Row
  <2>2. CASE ~Owns(w)
    BY <1>1, <1>2, <2>2 DEF SettledRow, Superseded, Row
  <2> QED
    BY <2>1, <2>2
<1>5. Cancelled(SettledRow(w)).lease = SettledRow(w).lease
  BY <1>3 DEF Cancelled, Row
<1>6. CASE SettleSuccess(w)
  BY <1>1, <1>4, <1>6 DEF SettleSuccess, TypeOK
<1>7. CASE SettleFailure(w)
  <2>1. row' = settled \/ row' = Drain(settled, EndpointOf(d))
    BY <1>7 DEF SettleFailure
  <2>2. settled[d] = SettledRow(w)
    BY <1>1 DEF TypeOK
  <2>3. row'[d] \in {SettledRow(w), Cancelled(SettledRow(w))}
    BY <1>1, <2>1, <2>2 DEF Drain
  <2> QED
    BY <1>4, <1>5, <2>3
<1>8. CASE SettleFails(w)
  BY <1>1, <1>2, <1>8 DEF SettleFails, table, AbsentIsFree, NoLoss
<1> QED
  BY <1>6, <1>7, <1>8 DEF JobDone, NoLoss

(* Whoever holds a lease that the row goes on carrying goes on holding it. *)
LEMMA HolderStays ==
  ASSUME TypeOK, AbsentIsFree, NoLoss, [Next]_vars, NEW w \in Worker, NEW d \in Delivery,
         Holds(w, d, row'[d].lease)
  PROVE  WillHold(w, d, row'[d].lease)
<1>1. JobStep(w) \/ \E p \in Proc : Claim(p)
  BY NextJob
<1>2. CASE \E p \in Proc : Claim(p)
  <2>1. PICK n, picked, hired, takes : Hires(picked, hired, takes)
    BY <1>2, ClaimHires
  <2>2. job'[w] = job[w]
    BY <2>1 DEF Hires, Holds
  <2> QED
    BY <2>2 DEF Holds, WillHold, Busy
<1>3. CASE JobStep(w)
  <2>1. ~JobDone(w)
    BY DoneFreesLease DEF Holds
  <2> QED
    BY <1>3, <2>1 DEF JobStep, JobKept, Holds, WillHold, Busy
<1> QED
  BY <1>1, <1>2, <1>3

(* A row that carries a lease carried it before, or was claimed with it. *)
LEMMA LeaseOfRow ==
  ASSUME TypeOK, [Next]_vars, NEW d \in Delivery
  PROVE  row'[d].lease \in {Null, row[d].lease} \/ Taken(d)
<1>1. RowStep(d) /\ row[d] \in Row
  BY NextRow DEF TypeOK
<1>2. CASE Kept(d)
  BY <1>1, <1>2 DEF Kept, Row
<1>3. CASE Stopped(d)
  BY <1>1, <1>3 DEF Stopped, Cancelled, Row
<1>4. CASE Requeued(d)
  BY <1>1, <1>4 DEF Requeued, Queued, Replayed, Row
<1>5. CASE row'[d] = Absent
  BY <1>5 DEF Absent
<1>6. ASSUME NEW w \in Worker, SettledBy(d, w)
      PROVE  row'[d].lease \in {Null, row[d].lease}
  <2>1. job[w] \in Job /\ job[w].delivery = d
    BY <1>6, JobOf DEF SettledBy, Busy
  <2>2. SettledRow(w) \in Row
    BY <2>1, SettledRowIsRow
  <2>3. SettledRow(w).lease \in {Null, row[d].lease}
    BY <1>1, <2>1 DEF SettledRow, Superseded, Row
  <2> QED
    BY <1>6, <2>2, <2>3 DEF SettledBy, Cancelled, Row
<1> QED
  BY <1>1, <1>2, <1>3, <1>4, <1>5, <1>6 DEF RowStep

LEMMA AbsentStaysFree ==
  ASSUME TypeOK, AbsentIsFree, [Next]_vars
  PROVE  AbsentIsFree'
<1> SUFFICES ASSUME NEW d \in Delivery, row'[d].status = "absent"
             PROVE  row'[d].lease = Null
  BY DEF AbsentIsFree
<1>1. RowStep(d) /\ row[d] \in Row
  BY NextRow DEF TypeOK
<1>2. CASE Kept(d)
  BY <1>1, <1>2 DEF Kept, AbsentIsFree, Row
<1>3. CASE Requeued(d)
  BY <1>1, <1>3 DEF Requeued, Queued, Replayed, AbsentIsFree, Pending, Row
<1>4. ~Taken(d) /\ ~Stopped(d)
  BY <1>1 DEF Taken, Due, Stopped, Cancelled, Pending, Row
<1>5. \A w \in Worker : ~SettledBy(d, w)
  BY SettledStatus
<1> QED
  BY <1>1, <1>2, <1>3, <1>4, <1>5 DEF RowStep, Absent

LEMMA HeldInductive ==
  ASSUME NoLoss, HeldInv, [Next]_vars
  PROVE  HeldInv'
<1>1. TypeOK' /\ AbsentIsFree'
  BY TypeStep, AbsentStaysFree DEF HeldInv
<1>2. now \in Nat /\ now' \in {now, now + 1}
  BY TimeGoesOn DEF HeldInv
<1>3. ASSUME NEW d \in Delivery, row'[d].lease > now'
      PROVE  \E w \in Worker : WillHold(w, d, row'[d].lease)
  <2>1. row'[d].lease # Null /\ row'[d].lease > now
    BY <1>1, <1>2, <1>3 DEF Null, TypeOK, Row
  <2>2. CASE Taken(d)
    <3>1. PICK w \in Worker : job'[w] = Granted(d)
      BY <2>2 DEF Taken
    <3>2. row'[d].lease = now + Lease
      BY <2>2 DEF Taken, HeldInv, TypeOK, Row
    <3> QED
      BY <3>1, <3>2 DEF Granted, WillHold, Busy
  <2>3. CASE row'[d].lease = row[d].lease
    <3>1. PICK w \in Worker : Holds(w, d, row'[d].lease)
      BY <2>1, <2>3 DEF HeldInv, LiveIsHeld
    <3> QED
      BY <3>1, HolderStays DEF HeldInv
  <2> QED
    BY <2>1, <2>2, <2>3, LeaseOfRow DEF HeldInv
<1> QED
  BY <1>1, <1>3 DEF HeldInv, LiveIsHeld, Holds, WillHold

LEMMA HeldHolds ==
  ASSUME NoLoss
  PROVE  Spec => []HeldInv
<1>1. Init => HeldInv
  BY TypeInit DEF Init, HeldInv, AbsentIsFree, LiveIsHeld, Absent, Null
<1>2. HeldInv /\ [Next]_vars => HeldInv'
  BY HeldInductive
<1> QED
  BY <1>1, <1>2, PTL DEF Spec

(* No pending delivery waits behind a lease that nobody holds, whatever is *)
(* cancelled, drained, replayed or deleted while it is being sent, as long *)
(* as no worker is lost with its lease.                                    *)
THEOREM NoLeaseIsStranded ==
  ASSUME NoLoss
  PROVE  Spec => []LeasesAreHeld
<1>1. HeldInv => LeasesAreHeld
  BY DEF HeldInv, LiveIsHeld, LeasesAreHeld, Holds
<1> QED
  BY <1>1, HeldHolds, PTL

-----------------------------------------------------------------------------
(* An operator's decisions *)

(* The row of a delivery that was decided about while a worker had it: it  *)
(* does not carry that worker's lease, or starts again from attempt zero,  *)
(* or was claimed again within the same instant.                           *)
DecidedRow(w) ==
  LET d == job[w].delivery
  IN  row[d].status = Pending /\ row[d].lease = job[w].lease =>
        \/ row[d].attempts = 0
        \/ \E v \in Worker \ {w} : Holds(v, d, row[d].lease)

OvertakenIsDecided == \A w \in overtaken : Busy(w) /\ DecidedRow(w)

DecisionInv == HeldInv /\ OvertakenIsDecided

(* Who is newly overtaken has a row that is finished or starts again. *)
LEMMA NewlyOvertaken ==
  ASSUME TypeOK, [Next]_vars, NEW w \in overtaken', w \notin overtaken
  PROVE  /\ Busy(w) /\ w \in Worker /\ job' = job
         /\ LET d == job[w].delivery
            IN  row'[d].status # Pending \/ row'[d].attempts = 0
<1> DEFINE d == job[w].delivery
<1>1. ASSUME NEW changed, Overtake(changed)
      PROVE  Busy(w) /\ w \in Worker /\ d \in changed
  BY <1>1 DEF Overtake
<1>2. ASSUME Busy(w), w \in Worker
      PROVE  d \in Delivery /\ row[d] \in Row
  BY <1>2, JobOf DEF Job, TypeOK
<1>3. CASE \E o \in Delivery : Replay(o)
  BY <1>1, <1>2, <1>3 DEF Replay, Replayed, TypeOK
<1>4. CASE \E p \in Proc, o \in Delivery : CancelWrite(p, o)
  <2>1. PICK o \in Delivery :
          /\ Overtake({o}) /\ job' = job
          /\ row' = IF row[o].status = "absent" THEN row
                    ELSE [row EXCEPT ![o] = [Cancelled(@) EXCEPT !.lease = Null]]
    BY <1>4 DEF CancelWrite
  <2>2. Busy(w) /\ w \in Worker /\ d = o /\ row[d] \in Row
    BY <1>1, <1>2, <2>1
  <2>3. row[d].status # "absent" => row'[d] = [Cancelled(row[d]) EXCEPT !.lease = Null]
    BY <1>2, <2>1, <2>2 DEF TypeOK
  <2>4. [Cancelled(row[d]) EXCEPT !.lease = Null].status # Pending
    BY <2>2 DEF Cancelled, Pending, Row
  <2> QED
    BY <2>1, <2>2, <2>3, <2>4 DEF Pending
<1>5. CASE \E e \in Endpoint : EndpointStep(e)
  <2>1. PICK e \in Endpoint : EndpointStep(e)
    BY <1>5
  <2>2. CASE BulkReplay(e)
    <3>1. PICK t \in Recent, picked \in SUBSET Delivery :
            /\ row' = BroughtForward(
                        [o \in Delivery |-> IF o \in picked THEN Replayed(row[o], t) ELSE row[o]],
                        e, t)
            /\ Overtake(picked)
      BY <2>2 DEF BulkReplay
    <3> DEFINE rows == [o \in Delivery |-> IF o \in picked THEN Replayed(row[o], t) ELSE row[o]]
    <3>2. Busy(w) /\ w \in Worker /\ d \in picked /\ row[d] \in Row /\ t \in Nat
      BY <1>1, <1>2, <3>1 DEF Recent
    <3>3. rows \in [Delivery -> Row] /\ rows[d] = Replayed(row[d], t)
      BY <3>2, RowShapes DEF TypeOK
    <3>4. row'[d] \in {Replayed(row[d], t), [Replayed(row[d], t) EXCEPT !.nextAt = t]}
      BY <3>1, <3>2, <3>3, BroughtForwardStep
    <3>5. row'[d].attempts = 0
      BY <3>2, <3>4, ReplayedIsDue DEF Replayed
    <3> QED
      BY <2>2, <3>2, <3>5 DEF BulkReplay
  <2>3. CASE Disable(e)
    <3>1. Busy(w) /\ w \in Worker /\ EndpointOf(d) = e /\ d \in Delivery
      BY <1>1, <1>2, <2>3 DEF Disable
    <3>2. row'[d].status # Pending
      BY <2>3, <3>1, DrainEmpties DEF Disable
    <3> QED
      BY <2>3, <3>1, <3>2 DEF Disable
  <2> QED
    BY <2>1, <2>2, <2>3 DEF EndpointStep, Resume, Enable, Delete
<1>6. CASE \E v \in Worker : WorkerStep(v)
  BY <1>6 DEF WorkerStep, Send, AnswerSuccess, AnswerRetryable, AnswerFatal, Finish, SettleSuccess,
     SettleFailure, SettleFails, Release
<1>7. CASE \E p \in Proc : Start(p) \/ Crash(p) \/ Claim(p)
  BY <1>7 DEF Start, Crash, Claim
<1> QED
  BY <1>3, <1>4, <1>5, <1>6, <1>7 DEF Next, vars, Tick, Prune, Post, CancelCheck

LEMMA DecidedStays ==
  ASSUME NoLoss, DecisionInv, [Next]_vars, NEW w \in overtaken, w \in overtaken'
  PROVE  Busy(w)' /\ DecidedRow(w)'
<1> DEFINE d == job[w].delivery
<1>1. w \in Worker /\ Busy(w) /\ DecidedRow(w)
  BY DEF DecisionInv, HeldInv, TypeOK, OvertakenIsDecided
<1>2. job[w] \in Job /\ d \in Delivery /\ row[d] \in Row
  BY <1>1, JobOf DEF DecisionInv, HeldInv, TypeOK, Job
<1>3. Busy(w)' /\ job'[w].delivery = d /\ job'[w].lease = job[w].lease
  <2>1. CASE \E p \in Proc : Claim(p)
    <3>1. PICK n, picked, hired, takes : Hires(picked, hired, takes)
      BY <2>1, ClaimHires
    <3>2. job'[w] = job[w]
      BY <1>1, <3>1 DEF Hires
    <3> QED
      BY <1>1, <3>2 DEF Busy
  <2>2. CASE JobStep(w)
    BY <1>1, <2>2 DEF JobStep, JobKept, JobDone, Busy
  <2> QED
    BY <1>1, <2>1, <2>2, NextJob DEF DecisionInv, HeldInv
<1>4. ASSUME row'[d].status = Pending, row'[d].lease = job[w].lease
      PROVE  \/ row'[d].attempts = 0
             \/ \E v \in Worker \ {w} : WillHold(v, d, row'[d].lease)
  <2>1. RowStep(d) /\ job[w].lease # Null
    BY <1>2, NextRow DEF DecisionInv, HeldInv, Job, Null
  <2>2. CASE row[d].status = Pending /\ row[d].lease = row'[d].lease /\ row[d].attempts = row'[d].attempts
    <3>1. CASE row[d].attempts = 0
      BY <2>2, <3>1
    <3>2. CASE row[d].attempts # 0
      <4>1. PICK v \in Worker \ {w} : Holds(v, d, row'[d].lease)
        BY <1>1, <1>4, <2>2, <3>2 DEF DecidedRow
      <4>2. WillHold(v, d, row'[d].lease)
        BY <1>2, <4>1, HolderStays DEF DecisionInv, HeldInv
      <4> QED
        BY <4>2
    <3> QED
      BY <3>1, <3>2
  <2>3. CASE Kept(d)
    BY <1>2, <1>4, <2>1, <2>2, <2>3 DEF Kept, Row
  <2>4. CASE Taken(d)
    <3>1. PICK v \in Worker : ~Busy(v) /\ job'[v] = Granted(d)
      BY <2>4 DEF Taken
    <3>2. row'[d].lease = now + Lease
      BY <1>2, <2>4 DEF Taken, Row
    <3> QED
      BY <1>1, <3>1, <3>2 DEF Granted, WillHold, Busy
  <2>5. CASE Stopped(d)
    BY <1>2, <1>4, <2>5 DEF Stopped, Cancelled, Pending, Row
  <2>6. CASE Requeued(d)
    <3>1. CASE \E t \in Recent : row'[d] = [row[d] EXCEPT !.nextAt = t]
      BY <1>2, <1>4, <2>2, <3>1 DEF Row
    <3>2. CASE \E t \in Recent : row'[d] \in {Queued(t), Replayed(row[d], t)}
      BY <3>2 DEF Queued, Replayed
    <3> QED
      BY <2>6, <3>1, <3>2 DEF Requeued
  <2>7. row'[d] # Absent
    BY <1>4 DEF Absent, Pending
  <2>8. ASSUME NEW u \in Worker, SettledBy(d, u)
        PROVE  \/ row'[d].attempts = 0
               \/ \E v \in Worker \ {w} : WillHold(v, d, row'[d].lease)
    <3>1. job[u] \in Job /\ job[u].delivery = d
      BY <2>8, JobOf DEF SettledBy, Busy, DecisionInv, HeldInv
    <3>2. SettledRow(u) \in Row
      BY <3>1, SettledRowIsRow DEF DecisionInv, HeldInv
    <3>3. row'[d] = SettledRow(u)
      BY <1>4, <2>8, <3>2 DEF SettledBy, Cancelled, Pending, Row
    <3>4. ~Owns(u)
      BY <1>2, <1>4, <2>1, <3>1, <3>3 DEF SettledRow, Row
    <3>5. row'[d] \in {row[d], [row[d] EXCEPT !.lease = Null]}
      BY <3>1, <3>3, <3>4 DEF SettledRow, Superseded
    <3> QED
      BY <2>3, <3>5 DEF Kept
  <2> QED
    BY <2>1, <2>3, <2>4, <2>5, <2>6, <2>7, <2>8 DEF RowStep
<1>5. DecidedRow(w)'
  BY <1>3, <1>4 DEF DecidedRow, Holds, WillHold
<1> QED
  BY <1>3, <1>5

LEMMA DecisionInductive ==
  ASSUME NoLoss, DecisionInv, [Next]_vars
  PROVE  DecisionInv'
<1>1. HeldInv'
  BY HeldInductive DEF DecisionInv
<1>2. ASSUME NEW w \in overtaken'
      PROVE  Busy(w)' /\ DecidedRow(w)'
  <2>1. CASE w \in overtaken
    BY <1>2, <2>1, DecidedStays
  <2>2. CASE w \notin overtaken
    <3>1. /\ Busy(w) /\ job' = job
          /\ row'[job[w].delivery].status # Pending \/ row'[job[w].delivery].attempts = 0
      BY <1>2, <2>2, NewlyOvertaken DEF DecisionInv, HeldInv
    <3> QED
      BY <3>1 DEF DecidedRow, Busy
  <2> QED
    BY <2>1, <2>2
<1> QED
  BY <1>1, <1>2 DEF DecisionInv, OvertakenIsDecided

(* What the operator decides about a delivery while it is being sent       *)
(* stands: a result claimed before the decision changes neither its status *)
(* nor its count, however requests, retries and replays interleave.        *)
THEOREM DecisionsStand ==
  ASSUME NoLoss
  PROVE  Spec => DecisionStands
<1> DEFINE Stands(w) ==
      LET d == job[w].delivery
      IN  /\ job[w].phase = "answered" /\ job'[w] = Idle
          /\ ToldApart(w) /\ ~SwitchesOff(w)
          => <<row'[d].status, row'[d].attempts>> = <<row[d].status, row[d].attempts>>
<1>1. Init => DecisionInv
  BY TypeInit DEF Init, DecisionInv, HeldInv, AbsentIsFree, LiveIsHeld, OvertakenIsDecided, Absent, Null
<1>2. DecisionInv /\ [Next]_vars => DecisionInv'
  BY DecisionInductive
<1>3. ASSUME DecisionInv, [Next]_vars, NEW w \in overtaken
      PROVE  Stands(w)
  <2> SUFFICES ASSUME job[w].phase = "answered", job'[w] = Idle, ToldApart(w), ~SwitchesOff(w)
               PROVE  LET d == job[w].delivery
                      IN  row'[d].status = row[d].status /\ row'[d].attempts = row[d].attempts
    OBVIOUS
  <2> DEFINE d == job[w].delivery
  <2>1. w \in Worker /\ TypeOK /\ DecidedRow(w)
    BY <1>3 DEF DecisionInv, HeldInv, TypeOK, OvertakenIsDecided
  <2>2. job[w] \in Job /\ d \in Delivery /\ row[d] \in Row
    BY <2>1, JobOf DEF Busy, TypeOK, Job
  <2>3. ~Owns(w)
    BY <2>1, <2>2 DEF Owns, DecidedRow, ToldApart, Holds
  <2>4. SettledRow(w).status = row[d].status /\ SettledRow(w).attempts = row[d].attempts
    BY <2>2, <2>3 DEF SettledRow, Superseded, Row
  <2>5. JobStep(w)
    <3>1. CASE \E p \in Proc : Claim(p)
      <4>1. PICK n, picked, hired, takes : Hires(picked, hired, takes)
        BY <3>1, ClaimHires
      <4> QED
        BY <2>1, <4>1 DEF Hires, Busy, JobStep
    <3> QED
      BY <1>3, <2>1, <3>1, NextJob
  <2>6. JobDone(w)
    BY <2>5 DEF JobStep, JobKept, Busy, Idle
  <2>7. CASE SettleSuccess(w)
    BY <2>2, <2>4, <2>7 DEF SettleSuccess, TypeOK
  <2>8. CASE SettleFailure(w)
    <3>1. row' = [row EXCEPT ![d] = SettledRow(w)]
      BY <2>8 DEF SettleFailure, SwitchesOff
    <3> QED
      BY <2>1, <2>2, <2>4, <3>1 DEF TypeOK
  <2>9. CASE UNCHANGED table
    BY <2>9 DEF table
  <2> QED
    BY <2>6, <2>7, <2>8, <2>9 DEF JobDone, SettleFails
<1>4. DecisionInv /\ [Next]_vars => [\A w \in overtaken : Stands(w)]_vars
  BY <1>3
<1> QED
  BY <1>1, <1>2, <1>4, PTL DEF Spec, DecisionStands
===============================================================================
