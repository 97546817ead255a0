------------------------------ MODULE Backoff ------------------------------
(***************************************************************************)
(* The retry schedule: how long a delivery waits before its next attempt,  *)
(* and when it is given up.  Delays are whole units of the model's clock.  *)
(***************************************************************************)
EXTENDS Integers

CONSTANTS
  BaseDelay,      \* delay before the second attempt
  Factor,         \* multiplier applied per attempt
  MaxDelay,       \* ceiling on a single delay, before jitter
  MaxAttempts,    \* total attempts, the first included
  JitterPercent   \* share of the delay that is drawn at random, in percent

ASSUME BackoffAssumption ==
  /\ BaseDelay \in Nat
  /\ Factor \in Nat \ {0}
  /\ MaxDelay \in Nat
  /\ MaxAttempts \in Nat
  /\ JitterPercent \in 0..100

(* The delay before jitter: exponential growth under a ceiling. *)
Backoff(attempt) ==
  LET grown == BaseDelay * Factor ^ (attempt - 1)
  IN  IF grown < MaxDelay THEN grown ELSE MaxDelay

(* What is left of the delay when the draw comes out at zero. *)
JitterFloor(attempt) ==
  Backoff(attempt) - (Backoff(attempt) * JitterPercent) \div 100

(* Mutant of Delays: one attempt too many. *)
DelaysOneMore(attempt) ==
  IF attempt = 0 THEN {0}
  ELSE IF attempt > MaxAttempts THEN {}
  ELSE {t \in 0..MaxDelay : JitterFloor(attempt) <= t /\ t <= Backoff(attempt)}

(* Every delay the schedule may draw before attempt number `attempt'; none *)
(* at all once the schedule is exhausted, which ends the delivery.         *)
Delays(attempt) ==
  IF attempt = 0 THEN {0}
  ELSE IF attempt >= MaxAttempts THEN {}
  ELSE {t \in 0..MaxDelay : JitterFloor(attempt) <= t /\ t <= Backoff(attempt)}
=============================================================================
