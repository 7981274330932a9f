SPECIFICATION Spec
CONSTANTS
  Users = {u1, u2}
  Mailboxes = {m1, m2}
  Links = {l1, l2}
  Subs = {s1, s2}
  Calls = {p1, p2}
  None = None
  Typed = {"mixed"}
SYMMETRY Symmetry
INVARIANTS
  TypeOK
  UsernameIsProven
  IdentityInStep
  HostHasAddress
PROPERTIES
  FollowsOneTimeLink
CHECK_DEADLOCK FALSE
