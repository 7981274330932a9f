SPECIFICATION Spec
CONSTANTS
  ann = ann
  Ann = Ann
  bob = bob
  None = None
  Addresses <- MCAddresses
  Emails = {ann, Ann}
  Lower <- MCLower
  AdminEmails = {}
  Creds = {c1, c2}
  Subs = {s1}
  FrejaEmails <- MCFrejaEmails
  Calls = {p1, p2}
INVARIANT UsernamesIgnoreCase
CHECK_DEADLOCK FALSE
