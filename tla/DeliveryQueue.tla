--------------------------- MODULE DeliveryQueue ---------------------------
(***************************************************************************)
(* The queue of webhook deliveries: a table whose rows are claimed by      *)
(* lease, the workers that send what they claimed, the circuit breaker and *)
(* the rate limit of each endpoint, and the operator who cancels, replays  *)
(* and switches endpoints off and on while requests are open.              *)
(*                                                                         *)
(* Every action that writes is one SQLite write transaction, except an     *)
(* operator's cancel, which the code does as a read and then a write.      *)
(* Time is one clock in whole units; the time at which a handler or worker *)
(* read the clock is kept apart from the time at which it writes.          *)
(***************************************************************************)
EXTENDS Integers, FiniteSets, Functions, Backoff, Breaker

CONSTANTS
  Message,      \* the messages that may be posted
  Endpoint,     \* the ids of the endpoints, numbers because claims go in id order
  Proc,         \* the server processes that share the database
  Slot,         \* the permits of one process: its concurrency
  BatchSize,    \* the most deliveries one claim takes
  Lease,        \* how long a claimed delivery stays claimed
  Timeout,      \* how long one request may take
  StartDelay,   \* the longest a claimed delivery waits for its request to start
  ClockLag,     \* the longest an API handler waits between reading the clock and writing
  RatePeriod,   \* the period a rate limit counts deliveries over
  RateLimit,    \* [Endpoint -> deliveries per period, or Null]
  Ops,          \* the operations of the environment that an instance allows
  MaxTime       \* bound on the clock

(* SQL's NULL: smaller than every instant, and no instant. *)
Null == 0 - 1

AllOps ==
  {"post", "replay", "cancel", "bulk", "resume", "disable", "enable", "delete",
   "prune", "crash", "dbfail"}

ASSUME QueueAssumption ==
  /\ Endpoint \subseteq Nat
  /\ BatchSize \in Nat
  /\ Lease \in Nat /\ Timeout \in Nat /\ StartDelay \in Nat
  /\ ClockLag \in Nat /\ RatePeriod \in Nat /\ MaxTime \in Nat
  /\ RateLimit \in [Endpoint -> Nat \cup {Null}]
  /\ Ops \subseteq AllOps

(* What the configuration refuses to start without, with the wait for the  *)
(* request to start added: a lease outlasts the attempt it was granted for.*)
ASSUME LeaseOutlastsAttempt == Lease > StartDelay + Timeout

(* A delivery is one (message, endpoint) pair. *)
Delivery == Message \X Endpoint
EndpointOf(d) == d[2]

Worker == Proc \X Slot

Pending == "pending"
Terminal == {"succeeded", "failed", "cancelled"}

VARIABLES
  now,        \* the clock
  posted,     \* the messages that have been posted
  row,        \* the deliveries table
  attemptLog, \* the attempts table: (delivery, attempt number)
  mode,       \* whether each endpoint is on, off or deleted
  health,     \* what the breaker and the rate limit know of each endpoint
  up,         \* which processes are running
  job,        \* what each worker is doing, in its process's memory
  cancels,    \* the (process, delivery) of cancel requests checked and not yet written
  overtaken   \* history: the workers whose delivery an operator changed after they claimed it

table == <<posted, row, attemptLog, mode, health>>
vars == <<now, posted, row, attemptLog, mode, health, up, job, cancels, overtaken>>
-----------------------------------------------------------------------------
(* Rows, jobs and health records. *)

Absent == [status |-> "absent", attempts |-> 0, nextAt |-> 0, lease |-> Null]
Queued(t) == [status |-> Pending, attempts |-> 0, nextAt |-> t, lease |-> Null]

Row == [status : {"absent", Pending} \cup Terminal, attempts : Nat, nextAt : Nat,
        lease : Nat \cup {Null}]

Idle == [phase |-> "idle"]
Job == [phase : {"claimed", "sending", "answered"}, delivery : Delivery, attempts : Nat,
        lease : Nat, since : Nat, outcome : {"none", "success", "failure"},
        retryAt : Nat \cup {Null}]

NoHealth == [failures |-> 0, openUntil |-> Null, nextAllowed |-> Null]
Health == [failures : Nat, openUntil : Int, nextAllowed : Int]

TypeOK ==
  /\ now \in 0..MaxTime
  /\ posted \subseteq Message
  /\ row \in [Delivery -> Row]
  /\ attemptLog \subseteq Delivery \X Nat
  /\ mode \in [Endpoint -> {"active", "disabled", "gone"}]
  /\ health \in [Endpoint -> Health]
  /\ up \in [Proc -> BOOLEAN]
  /\ job \in [Worker -> Job \cup {Idle}]
  /\ cancels \subseteq Proc \X Delivery
  /\ overtaken \subseteq Worker

Busy(w) == job[w].phase # "idle"
Open(w) == job[w].phase \in {"claimed", "sending"}

(* The instants a handler that writes now may have read from the clock. *)
Recent == {t \in 0..now : t + ClockLag >= now}
-----------------------------------------------------------------------------
(* Claiming *)

LeaseFree(d) == row[d].lease = Null \/ row[d].lease <= now

CircuitOpen(e) == health[e].openUntil > now

(* What both passes of a claim ask of a delivery. *)
Due(d) ==
  /\ row[d].status = Pending
  /\ row[d].nextAt <= now
  /\ LeaseFree(d)
  /\ mode[EndpointOf(d)] = "active"
  /\ ~CircuitOpen(EndpointOf(d))

Limited(e) == RateLimit[e] # Null

(* Mutant of Allowed: the comparison is off by one. *)
AllowedEarly(e) == health[e].nextAllowed <= now + 1

(* The endpoint's spacing has passed since its last claim. *)
Allowed(e) == health[e].nextAllowed <= now

Spacing(e) ==
  LET period == RatePeriod \div (IF RateLimit[e] > 1 THEN RateLimit[e] ELSE 1)
  IN  IF period > 1 THEN period ELSE 1

OldestFirst(picked, from) ==
  \A d \in picked, other \in from \ picked : row[d].nextAt <= row[other].nextAt

AtMost(n, S) == IF Cardinality(S) < n THEN Cardinality(S) ELSE n

(* First pass: the oldest due deliveries of endpoints without a limit. *)
UnlimitedPicks(n) ==
  LET due == {d \in Delivery : Due(d) /\ ~Limited(EndpointOf(d))}
  IN  {picked \in SUBSET due : /\ Cardinality(picked) = AtMost(n, due)
                               /\ OldestFirst(picked, due)}

(* Second pass: the oldest due delivery of each of the first limited       *)
(* endpoints, in id order, whose next allowed time has come.               *)
LimitedPicks(n) ==
  LET due == {d \in Delivery : /\ Due(d)
                               /\ Limited(EndpointOf(d))
                               /\ Allowed(EndpointOf(d))}
      ready == {EndpointOf(d) : d \in due}
      chosen == {e \in ready : Cardinality({f \in ready : f < e}) < n}
  IN  {picked \in SUBSET due :
         /\ {EndpointOf(d) : d \in picked} = chosen
         /\ \A d, o \in picked : EndpointOf(d) = EndpointOf(o) => d = o
         /\ \A d \in picked :
              OldestFirst({d}, {o \in due : EndpointOf(o) = EndpointOf(d)})}

Picks(n) ==
  UNION {{first \cup second : second \in LimitedPicks(n - Cardinality(first))} :
           first \in UnlimitedPicks(n)}

IdleWorkers(p) == {w \in Worker : w[1] = p /\ ~Busy(w)}

Granted(d) ==
  [phase |-> "claimed", delivery |-> d, attempts |-> row[d].attempts,
   lease |-> now + Lease, since |-> now, outcome |-> "none", retryAt |-> Null]

(* One pass of a process's claimer: never more than there are free permits *)
(* for, each claimed row leased and each job handed to a worker.           *)
Claim(p) ==
  /\ up[p]
  /\ \E picked \in Picks(AtMost(BatchSize, IdleWorkers(p))) :
     \E hired \in SUBSET IdleWorkers(p) : \E takes \in Bijection(hired, picked) :
       /\ picked # {}
       /\ row' = [d \in Delivery |->
                    IF d \in picked THEN [row[d] EXCEPT !.lease = now + Lease] ELSE row[d]]
       /\ job' = [w \in Worker |-> IF w \in hired THEN Granted(takes[w]) ELSE job[w]]
       /\ health' = [e \in Endpoint |->
                       IF Limited(e) /\ \E d \in picked : EndpointOf(d) = e
                       THEN [health[e] EXCEPT !.nextAllowed = now + Spacing(e)]
                       ELSE health[e]]
  /\ UNCHANGED <<now, posted, attemptLog, mode, up, cancels, overtaken>>
-----------------------------------------------------------------------------
(* Sending *)

(* A worker starts the request. *)
Send(w) ==
  /\ job[w].phase = "claimed"
  /\ job' = [job EXCEPT ![w].phase = "sending", ![w].since = now]
  /\ UNCHANGED <<now, table, up, cancels, overtaken>>

(* The answer, or the timeout, comes back: the worker reads the clock and  *)
(* draws the retry delay before it asks for the database.                  *)
Finish(w, outcome, retryAt) ==
  /\ job[w].phase = "sending"
  /\ job' = [job EXCEPT ![w].phase = "answered", ![w].since = now,
                        ![w].outcome = outcome, ![w].retryAt = retryAt]
  /\ UNCHANGED <<now, table, up, cancels, overtaken>>

(* An answer in the 200s. *)
AnswerSuccess(w) == Finish(w, "success", Null)

(* When the next attempt is due, Null when the schedule holds no other. *)
RetryTimes(w) ==
  LET delays == Delays(job[w].attempts + 1)
  IN  IF delays = {} THEN {Null} ELSE {now + delay : delay \in delays}

(* No answer, or one that is worth trying again. *)
AnswerRetryable(w) ==
  /\ job[w].phase = "sending"
  /\ \E retryAt \in RetryTimes(w) : Finish(w, "failure", retryAt)

(* An answer in the 400s, other than the two about timing. *)
AnswerFatal(w) == Finish(w, "failure", Null)
-----------------------------------------------------------------------------
(* Settling: one transaction that writes down what an attempt came to. *)

(* Mutants of Owns: each forgets one of the three columns. *)
OwnsByCount(w) ==
  LET r == row[job[w].delivery]
  IN  r.status = Pending /\ r.attempts = job[w].attempts

OwnsByLease(w) ==
  LET r == row[job[w].delivery]
  IN  r.attempts = job[w].attempts /\ r.lease = job[w].lease

(* The guard of every UPDATE of a worker: it writes only what it still owns. *)
Owns(w) ==
  LET r == row[job[w].delivery]
  IN  /\ r.status = Pending
      /\ r.attempts = job[w].attempts
      /\ r.lease = job[w].lease

(* Mutant of Recovered: only the count is reset. *)
RecoveredCount(h) == [h EXCEPT !.failures = 0]

(* A closed circuit: a success, or the operator's word that it works. *)
Recovered(h) == [h EXCEPT !.failures = 0, !.openUntil = Null]

(* The failures in a row once this one is counted. *)
Consecutive(w) == health[EndpointOf(job[w].delivery)].failures + 1

ClosedUntil(w) == job[w].since + CooldownFor(Consecutive(w))

(* The endpoint's record once this failure is in it. *)
Failed(w) ==
  LET h == health[EndpointOf(job[w].delivery)]
  IN  [h EXCEPT !.failures = Consecutive(w),
                !.openUntil = IF Opens(Consecutive(w)) THEN ClosedUntil(w) ELSE @]

(* A retry waits for its own backoff and for the circuit to close. *)
RetryTime(w) ==
  IF Opens(Consecutive(w)) /\ ClosedUntil(w) > job[w].retryAt
  THEN ClosedUntil(w) ELSE job[w].retryAt

(* Mutant of Superseded: the lease is left to run out. *)
SupersededKeepsLease(w) == row[job[w].delivery]

(* A worker that no longer owns the row releases the lease if it is still  *)
(* its own, and changes nothing else.                                      *)
Superseded(w) ==
  LET r == row[job[w].delivery]
  IN  IF r.lease = job[w].lease THEN [r EXCEPT !.lease = Null] ELSE r

(* The delivery's row afterwards. *)
SettledRow(w) ==
  LET r == row[job[w].delivery]
      counted == [r EXCEPT !.attempts = job[w].attempts + 1, !.lease = Null]
  IN  IF ~Owns(w) THEN Superseded(w)
      ELSE IF job[w].outcome = "success" THEN [counted EXCEPT !.status = "succeeded"]
      ELSE IF job[w].retryAt = Null THEN [counted EXCEPT !.status = "failed"]
      ELSE [counted EXCEPT !.nextAt = RetryTime(w)]

Cancelled(r) == [r EXCEPT !.status = "cancelled"]

(* Mutant of Drain: deliveries that are being sent are spared. *)
DrainIdle(rows, e) ==
  [d \in Delivery |->
     IF EndpointOf(d) = e /\ rows[d].status = Pending /\ rows[d].lease <= now
     THEN Cancelled(rows[d]) ELSE rows[d]]

(* What switching an endpoint off does to the deliveries queued for it. *)
Drain(rows, e) ==
  [d \in Delivery |->
     IF EndpointOf(d) = e /\ rows[d].status = Pending THEN Cancelled(rows[d]) ELSE rows[d]]

(* The worker is done with its job, whatever became of it. *)
Release(w) ==
  /\ job' = [job EXCEPT ![w] = Idle]
  /\ overtaken' = overtaken \ {w}

(* The attempt goes into the audit trail, whatever the row has become. *)
Record(w) ==
  /\ job[w].phase = "answered"
  /\ row[job[w].delivery].status # "absent"
  /\ attemptLog' = attemptLog \cup {<<job[w].delivery, job[w].attempts + 1>>}

SettleSuccess(w) ==
  /\ Record(w)
  /\ job[w].outcome = "success"
  /\ row' = [row EXCEPT ![job[w].delivery] = SettledRow(w)]
  /\ health' = [health EXCEPT ![EndpointOf(job[w].delivery)] = Recovered(@)]
  /\ Release(w)
  /\ UNCHANGED <<now, posted, mode, up, cancels>>

(* A failure counts against the endpoint even when the row has moved on,   *)
(* and may open its circuit or switch it off.                              *)
SettleFailure(w) ==
  LET d == job[w].delivery
      e == EndpointOf(d)
      settled == [row EXCEPT ![d] = SettledRow(w)]
  IN  /\ Record(w)
      /\ job[w].outcome = "failure"
      /\ health' = [health EXCEPT ![e] = Failed(w)]
      /\ IF Disables(Consecutive(w))
         THEN /\ mode' = [mode EXCEPT ![e] = "disabled"]
              /\ row' = Drain(settled, e)
         ELSE /\ row' = settled
              /\ UNCHANGED mode
      /\ Release(w)
      /\ UNCHANGED <<now, posted, up, cancels>>

(* The transaction fails - the database did, or the delivery was deleted   *)
(* and the attempt has nothing to refer to - and nothing of it remains.    *)
SettleFails(w) ==
  /\ job[w].phase = "answered"
  /\ "dbfail" \in Ops \/ row[job[w].delivery].status = "absent"
  /\ Release(w)
  /\ UNCHANGED <<now, table, up, cancels>>
-----------------------------------------------------------------------------
(* The API *)

(* A process has to be running to serve a request. *)
Serving(op) == op \in Ops /\ \E p \in Proc : up[p]

(* A message fans out to the endpoints that are on and want its type. *)
Post(m) ==
  /\ Serving("post")
  /\ m \notin posted
  /\ posted' = posted \cup {m}
  /\ \E t \in Recent, wanted \in SUBSET {e \in Endpoint : mode[e] = "active"} :
       row' = [d \in Delivery |->
                 IF d[1] = m /\ EndpointOf(d) \in wanted THEN Queued(t) ELSE row[d]]
  /\ UNCHANGED <<now, attemptLog, mode, health, up, job, cancels, overtaken>>

(* Mutants of Replayed: a live lease is cleared; the count starts below 0. *)
ReplayedFree(r, t) ==
  [status |-> Pending, attempts |-> 0, nextAt |-> t, lease |-> Null]

ReplayedBelow(r, t) ==
  [status |-> Pending, attempts |-> 0 - 1, nextAt |-> t,
   lease |-> IF r.lease > t THEN r.lease ELSE Null]

(* Queue a delivery again from attempt zero.  A lease that is still live   *)
(* is left alone.                                                          *)
Replayed(r, t) ==
  [status |-> Pending, attempts |-> 0, nextAt |-> t,
   lease |-> IF r.lease > t THEN r.lease ELSE Null]

BroughtForward(rows, e, t) ==
  [d \in Delivery |->
     IF EndpointOf(d) = e /\ rows[d].status = Pending /\ rows[d].nextAt > t
     THEN [rows[d] EXCEPT !.nextAt = t] ELSE rows[d]]

CloseCircuit(e) == health' = [health EXCEPT ![e] = Recovered(@)]

Overtake(changed) ==
  overtaken' = overtaken \cup {w \in Worker : Busy(w) /\ job[w].delivery \in changed}

Replay(d) ==
  /\ Serving("replay")
  /\ row[d].status # "absent"
  /\ \E t \in Recent : row' = [row EXCEPT ![d] = Replayed(row[d], t)]
  /\ CloseCircuit(EndpointOf(d))
  /\ Overtake({d})
  /\ UNCHANGED <<now, posted, attemptLog, mode, up, job, cancels>>

(* Replay part of an endpoint's history, and resume the endpoint.  Which   *)
(* part is the caller's: a status, a period and a limit.                   *)
BulkReplay(e) ==
  /\ Serving("bulk")
  /\ mode[e] # "gone"
  /\ \E t \in Recent, status \in Terminal \cup {Pending} :
     \E picked \in SUBSET {d \in Delivery : EndpointOf(d) = e /\ row[d].status = status} :
       /\ row' = BroughtForward(
                   [d \in Delivery |-> IF d \in picked THEN Replayed(row[d], t) ELSE row[d]],
                   e, t)
       /\ Overtake(picked)
  /\ CloseCircuit(e)
  /\ UNCHANGED <<now, posted, attemptLog, mode, up, job, cancels>>

(* The operator says the endpoint works: close its circuit and make what   *)
(* is queued for it due now.                                               *)
Resume(e) ==
  /\ Serving("resume")
  /\ mode[e] # "gone"
  /\ \E t \in Recent : row' = BroughtForward(row, e, t)
  /\ CloseCircuit(e)
  /\ UNCHANGED <<now, posted, attemptLog, mode, up, job, cancels, overtaken>>

(* Switch an endpoint on: a clean breaker, a forgotten rate limit, resumed. *)
Enable(e) ==
  /\ Serving("enable")
  /\ mode[e] # "gone"
  /\ mode' = [mode EXCEPT ![e] = "active"]
  /\ health' = [health EXCEPT ![e] = NoHealth]
  /\ \E t \in Recent : row' = BroughtForward(row, e, t)
  /\ UNCHANGED <<now, posted, attemptLog, up, job, cancels, overtaken>>

(* Switch an endpoint off.  The leases of what it cancels stay. *)
Disable(e) ==
  /\ Serving("disable")
  /\ mode[e] # "gone"
  /\ mode' = [mode EXCEPT ![e] = "disabled"]
  /\ row' = Drain(row, e)
  /\ Overtake({d \in Delivery : EndpointOf(d) = e /\ row[d].status = Pending})
  /\ UNCHANGED <<now, posted, attemptLog, health, up, job, cancels>>

(* Delete an endpoint and, by cascade, everything that refers to it. *)
Delete(e) ==
  /\ Serving("delete")
  /\ mode[e] # "gone"
  /\ mode' = [mode EXCEPT ![e] = "gone"]
  /\ row' = [d \in Delivery |-> IF EndpointOf(d) = e THEN Absent ELSE row[d]]
  /\ attemptLog' = {a \in attemptLog : EndpointOf(a[1]) # e}
  /\ health' = [health EXCEPT ![e] = NoHealth]
  /\ UNCHANGED <<now, posted, up, job, cancels, overtaken>>

(* A cancel reads the delivery, and refuses one that is already finished... *)
CancelCheck(p, d) ==
  /\ Serving("cancel")
  /\ up[p]
  /\ row[d].status = Pending
  /\ cancels' = cancels \cup {<<p, d>>}
  /\ UNCHANGED <<now, table, up, job, overtaken>>

(* ...and then writes, whatever the row has become in between. *)
CancelWrite(p, d) ==
  /\ <<p, d>> \in cancels
  /\ cancels' = cancels \ {<<p, d>>}
  /\ row' = IF row[d].status = "absent" THEN row
            ELSE [row EXCEPT ![d] = [Cancelled(@) EXCEPT !.lease = Null]]
  /\ Overtake({d})
  /\ UNCHANGED <<now, posted, attemptLog, mode, health, up, job>>

(* Housekeeping deletes old attempts; an attempt's age is left out. *)
Prune ==
  /\ Serving("prune")
  /\ \E kept \in SUBSET attemptLog : kept # attemptLog /\ attemptLog' = kept
  /\ UNCHANGED <<now, posted, row, mode, health, up, job, cancels, overtaken>>
-----------------------------------------------------------------------------
(* Processes and time *)

(* A process dies with its workers and the requests it was serving. *)
Crash(p) ==
  /\ "crash" \in Ops
  /\ up[p]
  /\ up' = [up EXCEPT ![p] = FALSE]
  /\ job' = [w \in Worker |-> IF w[1] = p THEN Idle ELSE job[w]]
  /\ cancels' = {c \in cancels : c[1] # p}
  /\ overtaken' = {w \in overtaken : w[1] # p}
  /\ UNCHANGED <<now, table>>

Reclaimed ==
  [d \in Delivery |->
     IF row[d].status = Pending THEN [row[d] EXCEPT !.lease = Null] ELSE row[d]]

(* A process starts, and puts every lease of a pending delivery back; if   *)
(* it cannot, it says so and goes on.                                      *)
Start(p) ==
  /\ ~up[p]
  /\ up' = [up EXCEPT ![p] = TRUE]
  /\ row' \in {Reclaimed} \cup {row : op \in Ops \cap {"dbfail"}}
  /\ UNCHANGED <<now, posted, attemptLog, mode, health, job, cancels, overtaken>>

(* Time passes, though not past the instant by which a claimed delivery    *)
(* has been started or an open request has timed out.                      *)
Tick ==
  /\ now < MaxTime
  /\ \A w \in Worker :
       /\ job[w].phase = "claimed" => now < job[w].since + StartDelay
       /\ job[w].phase = "sending" => now < job[w].since + Timeout
  /\ now' = now + 1
  /\ UNCHANGED <<table, up, job, cancels, overtaken>>

Init ==
  /\ now = 0
  /\ posted = {}
  /\ row = [d \in Delivery |-> Absent]
  /\ attemptLog = {}
  /\ mode = [e \in Endpoint |-> "active"]
  /\ health = [e \in Endpoint |-> NoHealth]
  /\ up = [p \in Proc |-> FALSE]
  /\ job = [w \in Worker |-> Idle]
  /\ cancels = {}
  /\ overtaken = {}

WorkerStep(w) ==
  \/ Send(w)
  \/ AnswerSuccess(w)
  \/ AnswerRetryable(w)
  \/ AnswerFatal(w)
  \/ SettleSuccess(w)
  \/ SettleFailure(w)
  \/ SettleFails(w)

EndpointStep(e) ==
  \/ BulkReplay(e)
  \/ Resume(e)
  \/ Enable(e)
  \/ Disable(e)
  \/ Delete(e)

Next ==
  \/ Tick
  \/ Prune
  \/ \E p \in Proc : Start(p) \/ Crash(p) \/ Claim(p)
  \/ \E w \in Worker : WorkerStep(w)
  \/ \E m \in Message : Post(m)
  \/ \E d \in Delivery : Replay(d)
  \/ \E e \in Endpoint : EndpointStep(e)
  \/ \E p \in Proc, d \in Delivery : CancelCheck(p, d) \/ CancelWrite(p, d)

Spec == Init /\ [][Next]_vars
-----------------------------------------------------------------------------
(* Properties *)

(* The consumer never gets two copies of one delivery at the same moment:  *)
(* no two requests for it are open at once (the lease of claim, settle,    *)
(* replay and the restart).                                                *)
OneInFlight ==
  \A v, w \in Worker :
    /\ v # w
    /\ job[v].phase = "sending" /\ job[w].phase = "sending"
    => job[v].delivery # job[w].delivery

(* A delivery's attempts go up only by one, for a worker that holds the    *)
(* lease the row carries and gives it up in that step: of several workers  *)
(* that claimed one delivery, at most one result counts (settle's WHERE).  *)
CountedOnce ==
  [][\A d \in Delivery : row'[d].attempts > row[d].attempts =>
       /\ row'[d].attempts = row[d].attempts + 1
       /\ row'[d].lease = Null
       /\ \E w \in Worker : /\ Busy(w) /\ job'[w] = Idle
                            /\ job[w].delivery = d
                            /\ job[w].lease = row[d].lease]_vars

(* No wait is longer than the policies allow: whatever was retried, cooled *)
(* down, replayed or superseded, a pending delivery is due within the      *)
(* longest delay or the longest cooldown, and no lease or circuit reaches  *)
(* further than it may (settle's next_at, cooldown_for, claim).            *)
WaitIsBounded ==
  /\ \A d \in Delivery : row[d].status = Pending =>
       row[d].nextAt <= now + MaxDelay \/ row[d].nextAt <= now + MaxCooldown
  /\ \A d \in Delivery : row[d].lease <= now + Lease
  /\ \A e \in Endpoint : health[e].openUntil <= now + MaxCooldown

(* An open circuit has the failures that opened it behind it: the two      *)
(* columns are set and cleared together by every operation that touches    *)
(* either (record_success, record_failure, close_circuit, enable).         *)
CircuitHasCause ==
  \A e \in Endpoint : health[e].openUntil # Null => health[e].failures >= FailuresToOpen

(* Pending deliveries of an endpoint that is switched off are cancelled,   *)
(* and none comes back while it is off: not from a worker's retry, a post  *)
(* or a stale result (disable, settle, the fan-out).                       *)
OffMeansDrained ==
  \A d \in Delivery : mode[EndpointOf(d)] = "disabled" => row[d].status # Pending

(* A rate limit is spacing: whatever two deliveries of a limited endpoint  *)
(* workers hold, their claims (a lease before their expiry) are apart.     *)
RateSpacing ==
  \A v, w \in Worker :
    /\ v # w /\ Busy(v) /\ Busy(w)
    /\ EndpointOf(job[v].delivery) = EndpointOf(job[w].delivery)
    /\ Limited(EndpointOf(job[v].delivery))
    /\ job[v].lease <= job[w].lease
    => job[w].lease - job[v].lease >= Spacing(EndpointOf(job[v].delivery))

(* No pending delivery waits behind a lease that nobody holds: when what   *)
(* was being sent is cancelled, drained or replayed, the lease goes back   *)
(* with the attempt that held it, and the replay goes out at once          *)
(* (superseded, replay).  Only a crash or a failed transaction strands a   *)
(* lease, until it expires.                                                *)
LeasesAreHeld ==
  \A d \in Delivery : row[d].status = Pending /\ row[d].lease > now =>
    \E w \in Worker : Busy(w) /\ job[w].delivery = d /\ job[w].lease = row[d].lease

(* Count and lease are what tell one attempt from another.  They do not    *)
(* when a delivery is replayed during its first attempt, which leaves a    *)
(* live lease alone and finds the count at zero, and when it is claimed    *)
(* twice within the clock's unit.                                          *)
ToldApart(w) ==
  LET d == job[w].delivery
  IN  /\ job[w].attempts # 0 \/ row[d].status # Pending
      /\ \A v \in Worker \ {w} :
           Busy(v) /\ job[v].delivery = d => job[v].lease # job[w].lease

(* A failure that switches the whole endpoint off, whoever has decided     *)
(* what about its deliveries.                                              *)
SwitchesOff(w) == job[w].outcome = "failure" /\ Disables(Consecutive(w))

(* An operator's decision on a delivery that is being sent is what the     *)
(* delivery ends up in: the result of a request that was claimed before    *)
(* the decision changes neither its status nor its attempts (settle's      *)
(* WHERE, replay, cancel, disable), unless it is the failure that switches *)
(* the whole endpoint off.                                                 *)
DecisionStands ==
  [][\A w \in overtaken :
       LET d == job[w].delivery
       IN  /\ job[w].phase = "answered" /\ job'[w] = Idle
           /\ ToldApart(w) /\ ~SwitchesOff(w)
           => <<row'[d].status, row'[d].attempts>> = <<row[d].status, row[d].attempts>>]_vars

(* The rows, seen without clock, leases, workers and endpoints, follow the *)
(* abstract life cycle of a delivery.                                      *)
Lifecycle ==
  INSTANCE DeliveryLifecycle WITH
    status <- [d \in Delivery |-> row[d].status],
    attempts <- [d \in Delivery |-> row[d].attempts]

FollowsLifecycle == Lifecycle!Spec
=============================================================================
