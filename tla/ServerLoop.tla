----------------------------- MODULE ServerLoop -----------------------------
(***************************************************************************)
(* The running server: the claimer's loop with its wake, its poll and its  *)
(* permits, the tasks that send, the requests that post, the pool through  *)
(* which all of them reach the database, and an orderly shutdown.  Time is *)
(* left out: a retry comes due, a lease lapses and the poll fires          *)
(* eventually.  When a delivery may be claimed at all is the business of   *)
(* DeliveryQueue; here everything that is due may.                         *)
(***************************************************************************)
EXTENDS Naturals, FiniteSets, Sequences

CONSTANTS
  Delivery,     \* the deliveries, each posted by a request of its own
  Concurrency,  \* deliveries in flight
  BatchSize,    \* deliveries claimed per pass
  Connections,  \* database connections
  MaxAttempts,  \* attempts of the retry schedule
  MaxFaults     \* bound on the database's failures

ASSUME LoopAssumption ==
  /\ IsFiniteSet(Delivery)
  /\ Concurrency \in Nat \ {0}
  /\ BatchSize \in Nat \ {0}
  /\ Connections \in Nat \ {0}
  /\ MaxAttempts \in Nat \ {0}
  /\ MaxFaults \in Nat

(* One attempt at one delivery, by the number of attempts before it: the   *)
(* task that makes it may still be on its way out when the next begins.    *)
Attempt == Delivery \X (0..(MaxAttempts - 1))

Claimer == <<"claim">>
Poster(d) == <<"post", d>>
Settler(a) == <<"settle", a>>
Caller == {Claimer} \cup {Poster(d) : d \in Delivery} \cup {Settler(a) : a \in Attempt}

VARIABLES
  call, line, permits, idle,   \* the database pool
  row,        \* the deliveries table
  attempts,   \* attempts counted per delivery
  request,    \* what each posting request is doing
  task,       \* what each sending task is doing
  loop,       \* where the claimer's loop is
  batch,      \* the deliveries this pass may claim
  jobs,       \* what it claimed and has not handed out yet
  wake,       \* whether a wake is stored
  stage,      \* where the server is in its life
  faults,     \* how often the database has failed
  stranded    \* history: deliveries whose result could not be stored

Pool == INSTANCE DbPool

pool == <<call, line, permits, idle>>
table == <<row, attempts>>
claimer == <<loop, batch, jobs>>
vars == <<call, line, permits, idle, row, attempts, request, task, loop, batch, jobs,
          wake, stage, faults, stranded>>

TypeOK ==
  /\ Pool!PoolTypeOK
  /\ row \in [Delivery -> {"absent", "due", "later", "leased", "done"}]
  /\ attempts \in [Delivery -> 0..MaxAttempts]
  /\ request \in [Delivery -> {"new", "calling", "ended"}]
  /\ task \in [Attempt -> {"none", "sending", "success", "failure"}]
  /\ loop \in {"top", "claiming", "handing", "waiting", "draining", "stopped"}
  /\ batch \in 0..BatchSize
  /\ jobs \subseteq Delivery
  /\ wake \in BOOLEAN
  /\ stage \in {"serving", "closing", "told", "stopped"}
  /\ faults \in 0..MaxFaults
  /\ stranded \subseteq Delivery

InFlight == {a \in Attempt : task[a] # "none"}

(* The attempt that is next for a delivery, or being made. *)
Current(d) == <<d, attempts[d]>>

FreePermits == Concurrency - Cardinality(InFlight)

DueNow == {d \in Delivery : row[d] = "due"}

Least(m, n) == IF m < n THEN m ELSE n

(* The database fails, and nothing of the closure's transaction remains. *)
Fault ==
  /\ faults < MaxFaults
  /\ faults' = faults + 1
  /\ UNCHANGED table
-----------------------------------------------------------------------------
(* The claimer's loop *)

(* Mutant of Batch: a whole batch, whatever room there is. *)
BatchFull == BatchSize

(* Never more than there is room to start. *)
Batch == Least(FreePermits, BatchSize)

(* The top of the loop: stop, claim, or wait when there is no room. *)
Top ==
  /\ loop = "top"
  /\ \/ /\ stage = "told"
        /\ loop' = "draining"
        /\ UNCHANGED <<batch, pool>>
     \/ /\ stage # "told" /\ Batch = 0
        /\ loop' = "waiting"
        /\ UNCHANGED <<batch, pool>>
     \/ /\ stage # "told" /\ Batch > 0
        /\ loop' = "claiming"
        /\ batch' = Batch
        /\ Pool!Ask(Claimer)
  /\ UNCHANGED <<table, request, task, jobs, wake, stage, faults, stranded>>

(* The claim's transaction. *)
ClaimDue ==
  /\ Pool!RunClosure(Claimer)
  /\ \/ /\ \E taken \in SUBSET DueNow :
             /\ Cardinality(taken) = Least(batch, Cardinality(DueNow))
             /\ row' = [d \in Delivery |-> IF d \in taken THEN "leased" ELSE row[d]]
             /\ jobs' = taken
        /\ UNCHANGED <<attempts, faults>>
     \/ Fault /\ UNCHANGED jobs
  /\ UNCHANGED <<request, task, loop, batch, wake, stage, stranded>>

(* What came back is handed out; nothing, or an error, and the loop waits. *)
Claimed ==
  /\ loop = "claiming"
  /\ Pool!Return(Claimer)
  /\ loop' = IF jobs = {} THEN "waiting" ELSE "handing"
  /\ UNCHANGED <<table, request, task, batch, jobs, wake, stage, faults, stranded>>

(* A job waits for a permit and is sent by a task of its own. *)
HandOut(d) ==
  /\ loop = "handing"
  /\ d \in jobs
  /\ FreePermits > 0
  /\ task' = [task EXCEPT ![Current(d)] = "sending"]
  /\ jobs' = jobs \ {d}
  /\ loop' = IF jobs' = {} THEN "top" ELSE loop
  /\ UNCHANGED <<pool, table, request, batch, wake, stage, faults, stranded>>

(* A stored wake is used up. *)
Woken ==
  /\ loop = "waiting"
  /\ wake
  /\ wake' = FALSE
  /\ loop' = "top"
  /\ UNCHANGED <<pool, table, request, task, batch, jobs, stage, faults, stranded>>

(* Mutant of PollFires: the loop lives by its wakes alone. *)
PollFiresOnWake == loop = "waiting" /\ wake

PollFires == loop = "waiting"

(* The poll interval is up. *)
Poll ==
  /\ PollFires
  /\ loop' = "top"
  /\ UNCHANGED <<pool, table, request, task, batch, jobs, wake, stage, faults, stranded>>

(* The server is told to stop while the loop waits. *)
Told ==
  /\ loop = "waiting"
  /\ stage = "told"
  /\ loop' = "top"
  /\ UNCHANGED <<pool, table, request, task, batch, jobs, wake, stage, faults, stranded>>

(* Mutant of Drained: what is in flight is not waited for. *)
DrainedAtOnce == TRUE

(* Every permit is back. *)
Drained == InFlight = {}

Drain ==
  /\ loop = "draining"
  /\ Drained
  /\ loop' = "stopped"
  /\ UNCHANGED <<pool, table, request, task, batch, jobs, wake, stage, faults, stranded>>
-----------------------------------------------------------------------------
(* Sending *)

(* The endpoint answers, or the request times out. *)
Answered(a) ==
  /\ task[a] = "sending"
  /\ task' \in {[task EXCEPT ![a] = "success"], [task EXCEPT ![a] = "failure"]}
  /\ Pool!Ask(Settler(a))
  /\ UNCHANGED <<table, request, claimer, wake, stage, faults, stranded>>

(* A failure that the schedule has another attempt for. *)
Retried(a) == task[a] = "failure" /\ a[2] + 1 < MaxAttempts

Settle(a) ==
  /\ Pool!RunClosure(Settler(a))
  /\ \/ /\ attempts' = [attempts EXCEPT ![a[1]] = a[2] + 1]
        /\ row' = [row EXCEPT ![a[1]] = IF Retried(a) THEN "later" ELSE "done"]
        /\ UNCHANGED <<faults, stranded>>
     \/ Fault /\ stranded' = stranded \cup {a[1]}
  /\ UNCHANGED <<request, task, claimer, wake, stage>>

(* Mutant of Released: a task whose result could not be stored stays. *)
ReleasedUnlessFault(a) == IF a[1] \in stranded THEN task ELSE [task EXCEPT ![a] = "none"]

(* The permit goes back whatever came of the attempt. *)
Released(a) == [task EXCEPT ![a] = "none"]

Settled(a) ==
  /\ task[a] \in {"success", "failure"}
  /\ Pool!Return(Settler(a))
  /\ task' = Released(a)
  /\ UNCHANGED <<table, request, claimer, wake, stage, faults, stranded>>

(* A retry comes due. *)
Ripen(d) ==
  /\ row[d] = "later"
  /\ row' = [row EXCEPT ![d] = "due"]
  /\ UNCHANGED <<pool, attempts, request, task, claimer, wake, stage, faults, stranded>>

(* The lease of a delivery whose result was lost lapses. *)
Lapse(d) ==
  /\ row[d] = "leased"
  /\ d \in stranded
  /\ task[Current(d)] = "none"
  /\ row' = [row EXCEPT ![d] = "due"]
  /\ stranded' = stranded \ {d}
  /\ UNCHANGED <<pool, attempts, request, task, claimer, wake, stage, faults>>
-----------------------------------------------------------------------------
(* Posting *)

Post(d) ==
  /\ stage = "serving"
  /\ request[d] = "new"
  /\ request' = [request EXCEPT ![d] = "calling"]
  /\ Pool!Ask(Poster(d))
  /\ UNCHANGED <<table, task, claimer, wake, stage, faults, stranded>>

Create(d) ==
  /\ Pool!RunClosure(Poster(d))
  /\ \/ /\ row' = [row EXCEPT ![d] = "due"]
        /\ UNCHANGED <<attempts, faults>>
     \/ Fault
  /\ UNCHANGED <<request, task, claimer, wake, stage, stranded>>

(* The answer goes out, and the claimer is told if there is work. *)
Poke(d) ==
  /\ Pool!Return(Poster(d))
  /\ request' = [request EXCEPT ![d] = "ended"]
  /\ wake' = (wake \/ (request[d] = "calling" /\ row[d] # "absent"))
  /\ UNCHANGED <<table, task, claimer, stage, faults, stranded>>

(* The client hangs up: the request is dropped, what it began in the       *)
(* database is not, and nobody will poke.                                  *)
HangUp(d) ==
  /\ request[d] = "calling"
  /\ request' = [request EXCEPT ![d] = "ended"]
  /\ Pool!Abandon(Poster(d))
  /\ UNCHANGED <<table, task, claimer, wake, stage, faults, stranded>>

(* One connection and permit of the pool move on. *)
PoolStep(c) ==
  /\ Pool!TakeConnection(c) \/ Pool!GiveBack(c)
  /\ UNCHANGED <<table, request, task, claimer, wake, stage, faults, stranded>>
-----------------------------------------------------------------------------
(* The server's life *)

(* The process is asked to stop: nothing new is accepted. *)
Signal ==
  /\ stage = "serving"
  /\ stage' = "closing"
  /\ UNCHANGED <<pool, table, request, task, claimer, wake, faults, stranded>>

(* The last request has been answered, and the workers are told. *)
TellWorkers ==
  /\ stage = "closing"
  /\ \A d \in Delivery : request[d] # "calling"
  /\ stage' = "told"
  /\ UNCHANGED <<pool, table, request, task, claimer, wake, faults, stranded>>

Exit ==
  /\ stage = "told"
  /\ loop = "stopped"
  /\ stage' = "stopped"
  /\ UNCHANGED <<pool, table, request, task, claimer, wake, faults, stranded>>

Init ==
  /\ Pool!PoolInit
  /\ row = [d \in Delivery |-> "absent"]
  /\ attempts = [d \in Delivery |-> 0]
  /\ request = [d \in Delivery |-> "new"]
  /\ task = [a \in Attempt |-> "none"]
  /\ loop = "top"
  /\ batch = 0
  /\ jobs = {}
  /\ wake = FALSE
  /\ stage = "serving"
  /\ faults = 0
  /\ stranded = {}

(* The steps of the claimer, of one attempt's task and of one request, the *)
(* database's work for them included.                                      *)
LoopStep ==
  \/ Top \/ ClaimDue \/ Claimed \/ Poll \/ Told \/ Drain
  \/ \E d \in Delivery : HandOut(d)
  \/ PoolStep(Claimer)

TaskStep(a) == Answered(a) \/ Settle(a) \/ Settled(a) \/ PoolStep(Settler(a))

RequestStep(d) == Create(d) \/ Poke(d) \/ PoolStep(Poster(d))

(* What the clock brings about. *)
DueStep(d) == Ripen(d) \/ Lapse(d)

Next ==
  \/ LoopStep \/ Woken
  \/ \E a \in Attempt : TaskStep(a)
  \/ \E d \in Delivery : RequestStep(d) \/ DueStep(d) \/ Post(d) \/ HangUp(d)
  \/ Signal \/ TellWorkers \/ Exit

(* The runtime runs every task that can run, the clock fires the poll and  *)
(* brings retries and leases due, requests end by their timeout.  Nobody   *)
(* has to post, hang up or ask the server to stop.                         *)
Fairness ==
  /\ WF_vars(LoopStep)
  /\ \A a \in Attempt : WF_vars(TaskStep(a))
  /\ \A d \in Delivery : WF_vars(RequestStep(d)) /\ WF_vars(DueStep(d))
  /\ WF_vars(TellWorkers) /\ WF_vars(Exit)

Spec == Init /\ [][Next]_vars /\ Fairness
-----------------------------------------------------------------------------
(* The pool never hands out a permit without a connection behind it,       *)
(* whatever callers hang up (DbPool).                                      *)
PermitFindsConnection == Pool!PermitFindsConnection

(* The claimer never holds a delivery it cannot start: what it has claimed *)
(* fits the free permits, although they were counted before the claim      *)
(* (run's `free', acquire_owned).                                          *)
ClaimHasRoom == Cardinality(jobs) <= FreePermits

(* A leased delivery is in somebody's hands - the claim's, the loop's or   *)
(* those of the task that makes its current attempt - unless its result    *)
(* was lost.  A server that stopped leaves no other lease to run out       *)
(* behind it (run's drain).                                                *)
LeasesAreCarried ==
  /\ \A d \in Delivery : row[d] = "leased" =>
       d \in jobs \cup stranded \/ Current(d) \in InFlight
  /\ stage = "stopped" => \A d \in Delivery : row[d] = "leased" => d \in stranded

(* What is due is delivered or given up, even when the wake was lost to a  *)
(* full house, a client that hung up or a failed claim: the poll sees to   *)
(* it.  A shutdown may leave it for the next start.                        *)
DueIsSettled ==
  \A d \in Delivery : row[d] = "due" ~> row[d] = "done" \/ stage # "serving"

(* A server that is asked to stop stops: every request is answered and     *)
(* every delivery in flight written down first, faults or not.             *)
StopsWhenAsked == stage = "closing" ~> stage = "stopped"
=============================================================================
