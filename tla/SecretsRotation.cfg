\* Rotations and two concurrent revokes around two open requests.
SPECIFICATION Spec
CONSTANTS
  Secret = {k1, k2, k3}
  First = k1
  Handler = {h1, h2}
  Sender = {w1, w2}
  Grace = {0, 2}
  Flight = 1
  ClockLag = 1
  Ops = {"rotate", "revoke"}
  MaxTime = 3
INVARIANTS OnePermanent GraceIsKept RevokedIsSilent
SYMMETRY Symmetry
CHECK_DEADLOCK FALSE
