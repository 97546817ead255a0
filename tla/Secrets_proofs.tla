-------------------------- MODULE Secrets_proofs --------------------------
(***************************************************************************)
(* What rotations and revokes keep true of an endpoint's signing secrets,  *)
(* for any number of secrets, requests and concurrent revokes.             *)
(***************************************************************************)
EXTENDS Secrets, TLAPS

(* A revoke that has passed its check names a secret that has a deadline:  *)
(* the only permanent one never passes it, and no secret ever becomes      *)
(* permanent again.                                                        *)
RevokesSparePermanent ==
  \A h \in Handler : Checked(h) =>
    expires[revoking[h].secret] \in Nat /\ revoking[h].at <= now

(* Until it is revoked a secret expires when it was promised to.           *)
ExpiresAsGranted == \A s \in Secret \ revoked : expires[s] = granted[s]

(* What has been revoked has expired.                                      *)
RevokedIsExpired == \A s \in revoked : expires[s] \in Nat /\ expires[s] <= now

Inv ==
  /\ TypeOK
  /\ OnePermanent
  /\ RevokesSparePermanent
  /\ ExpiresAsGranted
  /\ RevokedIsExpired
  /\ RevokedIsSilent

LEMMA RecentIsPast == \A t \in Recent : t \in Nat /\ t <= now
  BY DEF Recent

LEMMA InitInv == Init => Inv
<1> SUFFICES ASSUME Init PROVE Inv
  OBVIOUS
<1>1. TypeOK
  BY SecretsAssumption DEF Init, TypeOK, Never, Absent, NoRevoke, Free, Checked, Open
<1>2. OnePermanent
  <2>1. Permanent = {First}
    BY SecretsAssumption DEF Init, Permanent, Never, Absent
  <2> QED
    BY <2>1, SecretsAssumption DEF OnePermanent
<1>3. RevokesSparePermanent /\ RevokedIsSilent
  BY DEF Init, RevokesSparePermanent, RevokedIsSilent, NoRevoke, Free, Checked, Open
<1>4. ExpiresAsGranted /\ RevokedIsExpired
  BY DEF Init, ExpiresAsGranted, RevokedIsExpired
<1> QED
  BY <1>1, <1>2, <1>3, <1>4 DEF Inv

LEMMA RotateKeeps ==
  ASSUME Inv, NEW fresh \in Secret, Rotate(fresh)
  PROVE  Inv'
<1>1. PICK t \in Recent, grace \in Grace :
        /\ expires' = [Deadlines(t + grace) EXCEPT ![fresh] = Never]
        /\ granted' = [s \in Secret |->
                         IF s = fresh THEN Never
                         ELSE IF granted[s] = Never THEN t + grace ELSE granted[s]]
  BY DEF Rotate
<1>2. t + grace \in Nat
  BY RecentIsPast, SecretsAssumption
<1>3. \A s \in Secret : expires'[s] = IF s = fresh THEN Never
                                      ELSE IF expires[s] = Never THEN t + grace ELSE expires[s]
  BY <1>1 DEF Deadlines
<1>4. expires' \in [Secret -> Nat \cup {Never, Absent}]
  BY <1>1, <1>2 DEF Inv, TypeOK, Deadlines
<1>5. granted' \in [Secret -> Nat \cup {Never, Absent}]
  BY <1>1, <1>2 DEF Inv, TypeOK
<1>6. TypeOK'
  BY <1>4, <1>5 DEF Inv, TypeOK, Rotate
<1>7. OnePermanent'
  <2>1. Permanent' = {fresh}
    BY <1>2, <1>3 DEF Permanent, Never
  <2> QED
    BY <2>1 DEF OnePermanent
<1>8. RevokesSparePermanent'
  <2> SUFFICES ASSUME NEW g \in Handler, Checked(g)
               PROVE  expires'[revoking[g].secret] \in Nat /\ revoking[g].at <= now
    BY DEF RevokesSparePermanent, Rotate, Checked
  <2>1. revoking[g].secret \in Secret
    BY DEF Inv, TypeOK, Revoke, NoRevoke, Checked
  <2>2. expires[revoking[g].secret] \in Nat /\ revoking[g].at <= now
    BY DEF Inv, RevokesSparePermanent, Checked
  <2>3. revoking[g].secret # fresh /\ expires[revoking[g].secret] # Never
    BY <2>2 DEF Rotate, Absent, Never
  <2> QED
    BY <1>3, <2>1, <2>2, <2>3
<1>9. ExpiresAsGranted'
  BY <1>1, <1>3 DEF Inv, ExpiresAsGranted, Rotate
<1>10. RevokedIsExpired'
  BY <1>3 DEF Inv, TypeOK, RevokedIsExpired, Rotate, Absent, Never
<1>11. RevokedIsSilent'
  BY DEF Inv, RevokedIsSilent, Rotate, Open
<1> QED
  BY <1>6, <1>7, <1>8, <1>9, <1>10, <1>11 DEF Inv

LEMMA RevokeCheckKeeps ==
  ASSUME Inv, NEW h \in Handler, NEW s \in Secret, RevokeCheck(h, s)
  PROVE  Inv'
<1>1. PICK t \in Recent :
        revoking' = [revoking EXCEPT ![h] = [phase |-> "checked", secret |-> s, at |-> t]]
  BY DEF RevokeCheck, Checked
<1>2. t \in Nat /\ t <= now
  BY RecentIsPast
<1>3. expires[s] # Never
  BY DEF Inv, OnePermanent, Permanent, RevokeCheck, Revocable, Checked
<1>4. expires[s] \in Nat
  BY <1>3 DEF Inv, TypeOK, RevokeCheck, Checked
<1>5. TypeOK'
  BY <1>1, <1>2 DEF Inv, TypeOK, RevokeCheck, Revoke, Checked
<1>6. OnePermanent'
  BY DEF Inv, OnePermanent, Permanent, RevokeCheck, Checked
<1>7. RevokesSparePermanent'
  <2> SUFFICES ASSUME NEW g \in Handler, Checked(g)'
               PROVE  expires[revoking'[g].secret] \in Nat /\ revoking'[g].at <= now
    BY DEF RevokesSparePermanent, RevokeCheck, Checked
  <2>1. CASE g = h
    BY <1>1, <1>2, <1>4, <2>1 DEF Inv, TypeOK
  <2>2. CASE g # h
    BY <1>1, <2>2 DEF Inv, TypeOK, RevokesSparePermanent, Checked
  <2> QED
    BY <2>1, <2>2
<1>8. ExpiresAsGranted' /\ RevokedIsExpired' /\ RevokedIsSilent'
  BY DEF Inv, ExpiresAsGranted, RevokedIsExpired, RevokedIsSilent, RevokeCheck, Checked, Open
<1> QED
  BY <1>5, <1>6, <1>7, <1>8 DEF Inv

LEMMA RevokeWriteKeeps ==
  ASSUME Inv, NEW h \in Handler, RevokeWrite(h)
  PROVE  Inv'
<1> DEFINE s == revoking[h].secret
           at == revoking[h].at
<1>1. s \in Secret /\ at \in Nat /\ at <= now /\ expires[s] \in Nat
  BY DEF Inv, TypeOK, RevokesSparePermanent, RevokeWrite, Revoke, NoRevoke, Checked
<1>2. \A o \in Secret : expires'[o] = IF o = s THEN at ELSE expires[o]
  BY <1>1 DEF Inv, TypeOK, RevokeWrite, Checked
<1>3. TypeOK'
  BY <1>1 DEF Inv, TypeOK, RevokeWrite, NoRevoke, Checked
<1>4. OnePermanent'
  <2>1. Permanent' = Permanent
    BY <1>1, <1>2 DEF Permanent, Never
  <2> QED
    BY <2>1 DEF Inv, OnePermanent
<1>5. RevokesSparePermanent'
  <2> SUFFICES ASSUME NEW g \in Handler, Checked(g)'
               PROVE  expires'[revoking'[g].secret] \in Nat /\ revoking'[g].at <= now'
    BY DEF RevokesSparePermanent, Checked
  <2>1. g # h
    <3>1. revoking'[h] = NoRevoke
      BY DEF Inv, TypeOK, RevokeWrite, Checked
    <3> QED
      BY <3>1 DEF NoRevoke, Checked
  <2>2. revoking'[g] = revoking[g] /\ now' = now
    BY <2>1 DEF Inv, TypeOK, RevokeWrite, Checked
  <2>3. revoking[g].secret \in Secret
    BY <2>2 DEF Inv, TypeOK, Revoke, NoRevoke, Checked
  <2> QED
    BY <1>1, <1>2, <2>2, <2>3 DEF Inv, RevokesSparePermanent, Checked
<1>6. ExpiresAsGranted'
  BY <1>2 DEF Inv, ExpiresAsGranted, RevokeWrite, Checked
<1>7. RevokedIsExpired'
  BY <1>1, <1>2 DEF Inv, TypeOK, RevokedIsExpired, RevokeWrite, Checked
<1>8. RevokedIsSilent'
  BY DEF Inv, RevokedIsSilent, RevokeWrite, Checked, Open
<1> QED
  BY <1>3, <1>4, <1>5, <1>6, <1>7, <1>8 DEF Inv

LEMMA ClaimKeeps ==
  ASSUME Inv, NEW w \in Sender, Claim(w)
  PROVE  Inv'
<1>1. Active # {} /\ Active \cap revoked = {}
  BY DEF Inv, TypeOK, OnePermanent, Permanent, Active, RevokedIsExpired, Never
<1>2. TypeOK'
  BY DEF Inv, TypeOK, Claim, Request, Active, Open
<1>3. RevokedIsSilent'
  BY <1>1 DEF Inv, TypeOK, RevokedIsSilent, Claim, Open
<1> QED
  BY <1>2, <1>3 DEF Inv, OnePermanent, Permanent, RevokesSparePermanent, ExpiresAsGranted, Checked,
                    RevokedIsExpired, Claim

LEMMA RestKeeps ==
  ASSUME Inv, Tick \/ (\E w \in Sender : Answer(w)) \/ UNCHANGED vars
  PROVE  Inv'
<1> USE DEF Inv, TypeOK, OnePermanent, Permanent, RevokesSparePermanent, ExpiresAsGranted,
            RevokedIsExpired, RevokedIsSilent, Checked, Open
<1>1. CASE Tick
  <2>1. TypeOK' /\ OnePermanent' /\ ExpiresAsGranted' /\ RevokedIsSilent'
    BY <1>1, SecretsAssumption DEF Tick
  <2>2. RevokesSparePermanent'
    <3>1. \A h \in Handler : Checked(h) => revoking[h].at \in Nat
      BY DEF Revoke, NoRevoke
    <3> QED
      BY <1>1, <3>1 DEF Tick
  <2>3. RevokedIsExpired'
    BY <1>1 DEF Tick
  <2> QED
    BY <2>1, <2>2, <2>3
<1>2. CASE \E w \in Sender : Answer(w)
  BY <1>2 DEF Answer, Free
<1>3. CASE UNCHANGED vars
  BY <1>3 DEF vars
<1> QED
  BY <1>1, <1>2, <1>3

LEMMA InvInductive == Inv /\ [Next]_vars => Inv'
<1> SUFFICES ASSUME Inv, [Next]_vars PROVE Inv'
  OBVIOUS
<1> QED
  BY RestKeeps, RotateKeeps, RevokeCheckKeeps, RevokeWriteKeeps, ClaimKeeps DEF Next

LEMMA InvHolds == Spec => []Inv
  BY InitInv, InvInductive, PTL DEF Spec

(* Deadlines, requests and promises keep their types: what is revoked is   *)
(* a secret, what is granted a time, whatever order requests come in.      *)
THEOREM SecretsTypes == Spec => []TypeOK
<1>1. Inv => TypeOK
  BY DEF Inv
<1> QED
  BY <1>1, InvHolds, PTL

(* However many rotations and revokes are served at once, an endpoint has  *)
(* exactly one secret without an expiry.                                   *)
THEOREM KeepsOnePermanent == Spec => []OnePermanent
<1>1. Inv => OnePermanent
  BY DEF Inv
<1> QED
  BY <1>1, InvHolds, PTL

(* Until its grace has passed or it is revoked, a secret signs.            *)
THEOREM KeepsGrace == Spec => []GraceIsKept
<1>1. Inv => GraceIsKept
  BY DEF Inv, TypeOK, ExpiresAsGranted, GraceIsKept, Active, Never, Absent
<1> QED
  BY <1>1, InvHolds, PTL

(* Every request is signed, and with nothing that was revoked before its   *)
(* delivery was claimed.                                                   *)
THEOREM SignsWithoutRevoked == Spec => []RevokedIsSilent
<1>1. Inv => RevokedIsSilent
  BY DEF Inv
<1> QED
  BY <1>1, InvHolds, PTL
=============================================================================
