SPECIFICATION Spec
CONSTANTS
  u1 = u1
  u2 = u2
  s1 = s1
  None = None
  Users = {u1, u2}
  Requests = {r1, r2}
  Tokens = {t1, t2}
  Creds = {c1, c2}
  Subs = {s1}
  FrejaUsers <- MCFrejaUsers
  Calls = {p1, p2}
SYMMETRY MCSymmetry
INVARIANTS
  TypeOK
  PasskeyNeedsApproval
  CompletedAfterCredential
  SessionAfterCompletion
PROPERTIES
  DecisionIsFinal
  FollowsResetLifecycle
CHECK_DEADLOCK FALSE
