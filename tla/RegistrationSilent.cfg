SPECIFICATION Spec
CONSTANTS
  ann = ann
  Ann = Ann
  bob = bob
  None = None
  Addresses <- MCAddresses
  Emails = {Ann, bob}
  Lower <- MCLower
  AdminEmails = {ann}
  Creds = {c1, c2}
  Subs = {s1}
  FrejaEmails <- MCFrejaEmails
  Calls = {p1, p2}
PROPERTY SilentOnlyForPending
CHECK_DEADLOCK FALSE
