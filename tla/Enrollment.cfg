SPECIFICATION Spec
CONSTANTS
  Endpoints = {e1, e2}
  Tokens = {t1, t2}
  NoToken = NoToken
  Validity = 1
  MaxTime = 2
  MaxBoots = 3
  MaxAttempts = 3
SYMMETRY Symmetric
INVARIANTS
  OneFate
  PinKept
  EnrolledIsServed
CHECK_DEADLOCK FALSE
