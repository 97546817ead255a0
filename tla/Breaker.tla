------------------------------ MODULE Breaker ------------------------------
(***************************************************************************)
(* The circuit breaker's policy: what one more failure of an endpoint      *)
(* means, given how many have now happened in a row.                       *)
(***************************************************************************)
EXTENDS Integers

CONSTANTS
  FailuresToOpen,     \* consecutive failures before the circuit opens
  Cooldown,           \* how long it stays open the first time
  MaxCooldown,        \* ceiling on the doubled cooldown
  FailuresToDisable   \* failures that switch the endpoint off; Never: it stays on

(* The policy's `None': no number of failures disables the endpoint. *)
Never == 0 - 1

ASSUME BreakerAssumption ==
  /\ FailuresToOpen \in Nat
  /\ Cooldown \in Nat
  /\ MaxCooldown \in Nat
  /\ FailuresToDisable \in Nat \cup {Never}

(* Mutant of CooldownFor: the ceiling is forgotten. *)
CooldownUncapped(consecutive) ==
  Cooldown * 2 ^ (IF consecutive > FailuresToOpen THEN consecutive - FailuresToOpen ELSE 0)

(* The cooldown doubles with each failure past the threshold, the exponent *)
(* being capped before the product can leave 64 bits.                      *)
CooldownFor(consecutive) ==
  LET past == IF consecutive > FailuresToOpen THEN consecutive - FailuresToOpen ELSE 0
      grown == Cooldown * 2 ^ (IF past < 32 THEN past ELSE 32)
  IN  IF grown < MaxCooldown THEN grown ELSE MaxCooldown

Disables(consecutive) ==
  FailuresToDisable # Never /\ consecutive >= FailuresToDisable

Opens(consecutive) ==
  ~Disables(consecutive) /\ consecutive >= FailuresToOpen
=============================================================================
