------------------------------- MODULE DbPool -------------------------------
(***************************************************************************)
(* The pool of database connections.  A caller takes a permit, in turn, a  *)
(* blocking task takes a connection, runs the caller's closure and puts    *)
(* the connection back before it drops the permit.  The task outlives a    *)
(* caller that goes away once it has its permit.                           *)
(***************************************************************************)
EXTENDS Naturals, Sequences, FiniteSets

CONSTANTS
  Caller,       \* those that call the database
  Connections   \* size of the pool

VARIABLES
  call,       \* where each caller's call stands
  line,       \* the callers that wait for a permit, in order
  permits,    \* free permits
  idle        \* connections nobody uses

pool == <<call, line, permits, idle>>

(* offered: a permit is put aside for a caller that stood in line, and its *)
(* task may not have begun; granted: the blocking task has begun.          *)
Stage == {"none", "waiting", "offered", "granted", "running", "done", "returned"}

PoolTypeOK ==
  /\ call \in [Caller -> Stage]
  /\ line \in Seq(Caller)
  /\ permits \in 0..Connections
  /\ idle \in 0..Connections

PoolInit ==
  /\ call = [c \in Caller |-> "none"]
  /\ line = <<>>
  /\ permits = Connections
  /\ idle = Connections

(* Ask for a permit, and stand in line while there is none. *)
Ask(c) ==
  /\ call[c] = "none"
  /\ IF permits > 0
     THEN /\ permits' = permits - 1
          /\ call' = [call EXCEPT ![c] = "granted"]
          /\ UNCHANGED line
     ELSE /\ line' = Append(line, c)
          /\ call' = [call EXCEPT ![c] = "waiting"]
          /\ UNCHANGED permits
  /\ UNCHANGED idle

(* The blocking task takes a connection; that there is one is the pool's   *)
(* promise.                                                                *)
TakeConnection(c) ==
  /\ call[c] \in {"offered", "granted"}
  /\ idle > 0
  /\ idle' = idle - 1
  /\ call' = [call EXCEPT ![c] = "running"]
  /\ UNCHANGED <<line, permits>>

(* The closure ends; what it writes is the caller's. *)
RunClosure(c) ==
  /\ call[c] = "running"
  /\ call' = [call EXCEPT ![c] = "done"]
  /\ UNCHANGED <<line, permits, idle>>

GiveBack(c) ==
  /\ call[c] = "done"
  /\ idle' = idle + 1
  /\ call' = [call EXCEPT ![c] = "returned"]
  /\ UNCHANGED <<line, permits>>

(* A permit that is dropped goes to whoever is first in line. *)
DropPermit(c) ==
  IF line = <<>>
  THEN /\ permits' = permits + 1
       /\ call' = [call EXCEPT ![c] = "none"]
       /\ UNCHANGED line
  ELSE /\ line' = Tail(line)
       /\ call' = [call EXCEPT ![c] = "none", ![Head(line)] = "offered"]
       /\ UNCHANGED permits

(* The task ends, and its caller has the answer. *)
Return(c) ==
  /\ call[c] = "returned"
  /\ DropPermit(c)
  /\ UNCHANGED idle

LeaveLine(c) ==
  /\ \E i \in 1..Len(line) :
       /\ line[i] = c
       /\ line' = SubSeq(line, 1, i - 1) \o SubSeq(line, i + 1, Len(line))
  /\ call' = [call EXCEPT ![c] = "none"]
  /\ UNCHANGED <<permits, idle>>

(* Mutant of Abandon: the permit is the caller's, and goes with it. *)
AbandonWithPermit(c) ==
  \/ call[c] = "waiting" /\ LeaveLine(c)
  \/ call[c] \in Stage \ {"none", "waiting"} /\ DropPermit(c) /\ UNCHANGED idle

(* The caller goes away.  It leaves the line or declines what is put       *)
(* aside for it; a task that has begun goes on to its end.                 *)
Abandon(c) ==
  \/ call[c] = "waiting" /\ LeaveLine(c)
  \/ call[c] = "offered" /\ DropPermit(c) /\ UNCHANGED idle
  \/ call[c] # "waiting" /\ UNCHANGED <<call, line, permits, idle>>

(* Whoever has a permit finds a connection: the permits that are out are   *)
(* the connections that are in use or about to be (call's order of push    *)
(* and drop, and the permit that travels with the blocking task).          *)
PermitFindsConnection ==
  Cardinality({c \in Caller : call[c] \in {"offered", "granted"}}) <= idle
=============================================================================
