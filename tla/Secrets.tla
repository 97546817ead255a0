------------------------------ MODULE Secrets ------------------------------
(***************************************************************************)
(* The signing secrets of one endpoint.  A rotation adds a secret and      *)
(* gives the permanent one a deadline, a revoke expires one at once, and   *)
(* every request is signed with the secrets that were active when its      *)
(* delivery was claimed - which is not when it arrives.                    *)
(***************************************************************************)
EXTENDS Integers, FiniteSets

CONSTANTS
  Secret,       \* the ids of the secrets the endpoint may ever have
  First,        \* the one it was created with
  Handler,      \* the revoke requests that may be served at once
  Sender,       \* the deliveries that may be claimed at once
  Grace,        \* the grace periods a rotation may ask for
  Flight,       \* the longest time from a claim to the consumer's answer
  ClockLag,     \* the longest a handler waits between reading the clock and writing
  Ops,          \* the operations an instance allows
  MaxTime       \* bound on the clock

ASSUME SecretsAssumption ==
  /\ First \in Secret
  /\ Grace \subseteq Nat
  /\ Flight \in Nat /\ ClockLag \in Nat /\ MaxTime \in Nat
  /\ Ops \subseteq {"rotate", "revoke"}

Absent == 0 - 2
Never == 0 - 1

VARIABLES
  now,        \* the clock
  expires,    \* the secrets table: when each expires, Never, or Absent
  revoking,   \* what each revoke request has checked and not yet written
  sent,       \* the requests claimed and not yet answered, by sender
  granted,    \* history: until when each secret was promised to sign
  revoked     \* history: the secrets an operator has revoked

vars == <<now, expires, revoking, sent, granted, revoked>>

NoRevoke == [phase |-> "idle"]
Revoke == [phase : {"checked"}, secret : Secret, at : Nat]

Free == [phase |-> "idle"]
Request == [phase : {"open"}, signatures : SUBSET Secret, since : Nat, silent : SUBSET Secret]

TypeOK ==
  /\ now \in 0..MaxTime
  /\ expires \in [Secret -> Nat \cup {Never, Absent}]
  /\ revoking \in [Handler -> Revoke \cup {NoRevoke}]
  /\ sent \in [Sender -> Request \cup {Free}]
  /\ granted \in [Secret -> Nat \cup {Never, Absent}]
  /\ revoked \subseteq Secret

Checked(h) == revoking[h].phase = "checked"

Open(w) == sent[w].phase = "open"

Permanent == {s \in Secret : expires[s] = Never}

(* Mutant of Active: a secret still signs at the instant it expires. *)
ActiveAtExpiry == {s \in Secret : expires[s] = Never \/ expires[s] >= now}

(* The secrets a request is signed with right now. *)
Active == {s \in Secret : expires[s] = Never \/ expires[s] > now}

Recent == {t \in 0..now : t + ClockLag >= now}
-----------------------------------------------------------------------------
(* Mutant of Deadlines: the deadlines of earlier rotations are overwritten. *)
DeadlinesForAll(until) ==
  [s \in Secret |-> IF expires[s] = Absent THEN Absent ELSE until]

(* A rotation gives every secret without a deadline one. *)
Deadlines(until) ==
  [s \in Secret |-> IF expires[s] = Never THEN until ELSE expires[s]]

(* Add a secret and give the existing ones a deadline, in one transaction. *)
Rotate(fresh) ==
  /\ "rotate" \in Ops
  /\ expires[fresh] = Absent
  /\ \E t \in Recent, grace \in Grace :
       /\ expires' = [Deadlines(t + grace) EXCEPT ![fresh] = Never]
       /\ granted' = [s \in Secret |->
                        IF s = fresh THEN Never
                        ELSE IF granted[s] = Never THEN t + grace ELSE granted[s]]
  /\ UNCHANGED <<now, revoking, sent, revoked>>

(* Mutant of Revocable: that something else signs today is taken to be enough. *)
RevocableNow(s) == Active \ {s} # {}

(* A revoke is refused unless another secret has no expiry... *)
Revocable(s) == Permanent \ {s} # {}

RevokeCheck(h, s) ==
  /\ "revoke" \in Ops
  /\ ~Checked(h)
  /\ expires[s] # Absent
  /\ Revocable(s)
  /\ \E t \in Recent :
       revoking' = [revoking EXCEPT ![h] = [phase |-> "checked", secret |-> s, at |-> t]]
  /\ UNCHANGED <<now, expires, sent, granted, revoked>>

(* ...and is written by another statement, with no transaction around both. *)
RevokeWrite(h) ==
  /\ Checked(h)
  /\ expires' = [expires EXCEPT ![revoking[h].secret] = revoking[h].at]
  /\ revoked' = revoked \cup {revoking[h].secret}
  /\ revoking' = [revoking EXCEPT ![h] = NoRevoke]
  /\ UNCHANGED <<now, sent, granted>>

(* A delivery is claimed, and with it the secrets its request will carry. *)
Claim(w) ==
  /\ ~Open(w)
  /\ sent' = [sent EXCEPT ![w] = [phase |-> "open", signatures |-> Active, since |-> now,
                                  silent |-> revoked]]
  /\ UNCHANGED <<now, expires, revoking, granted, revoked>>

(* The consumer answers. *)
Answer(w) ==
  /\ Open(w)
  /\ sent' = [sent EXCEPT ![w] = Free]
  /\ UNCHANGED <<now, expires, revoking, granted, revoked>>

(* Time passes, though a request does not stay open longer than it may.    *)
Tick ==
  /\ now < MaxTime
  /\ \A w \in Sender : Open(w) => now < sent[w].since + Flight
  /\ now' = now + 1
  /\ UNCHANGED <<expires, revoking, sent, granted, revoked>>

Init ==
  /\ now = 0
  /\ expires = [s \in Secret |-> IF s = First THEN Never ELSE Absent]
  /\ revoking = [h \in Handler |-> NoRevoke]
  /\ sent = [w \in Sender |-> Free]
  /\ granted = [s \in Secret |-> IF s = First THEN Never ELSE Absent]
  /\ revoked = {}

Next ==
  \/ Tick
  \/ \E s \in Secret : Rotate(s)
  \/ \E h \in Handler, s \in Secret : RevokeCheck(h, s)
  \/ \E h \in Handler : RevokeWrite(h)
  \/ \E w \in Sender : Claim(w) \/ Answer(w)

Spec == Init /\ [][Next]_vars
-----------------------------------------------------------------------------
(* An endpoint is never left without a secret that outlives the rotation   *)
(* window: whatever rotations and revokes are served at once, exactly one  *)
(* secret has no expiry (revoke's check of the others, made apart from     *)
(* its write).                                                             *)
OnePermanent == \E s \in Secret : Permanent = {s}

(* A secret that was rotated out goes on signing until its own grace has   *)
(* passed, whatever is rotated after it, unless an operator revokes it     *)
(* (rotate's WHERE expires_at IS NULL).                                    *)
GraceIsKept ==
  \A s \in Secret \ revoked : granted[s] = Never \/ granted[s] > now => s \in Active

(* No delivery claimed after a revoke is signed with what was revoked, and *)
(* none is ever sent without a signature (active, revoke).                 *)
RevokedIsSilent ==
  \A w \in Sender : Open(w) =>
    sent[w].signatures # {} /\ sent[w].signatures \cap sent[w].silent = {}
=============================================================================
