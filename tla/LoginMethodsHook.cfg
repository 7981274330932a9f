SPECIFICATION Spec
CONSTANTS
  s1 = s1
  s2 = s2
  e1 = e1
  e2 = e2
  None = None
  Users = {u1, u2}
  Creds = {c1, c2}
  Subs = {s1, s2}
  Emails = {e1, e2}
  Asserted <- MCAsserted
  LinkTokens = {t1}
  Calls = {p1, p2}
PROPERTY LinkedHookMeansLinked
CHECK_DEADLOCK FALSE
