SPECIFICATION Spec
CONSTANTS
  alice = alice
  bob = bob
  Users <- MCUsers
  Admins <- MCAdmins
  PasskeyUsers <- MCPasskeyUsers
  FrejaUsers <- MCFrejaUsers
  Sids = {s1, s2}
  Challenges = {c1, c2}
  Calls = {p1, p2}
  Changes <- MCChanges
  MaxChanges = 2
  MaxCount = 2
  None = None
SYMMETRY Symmetry
INVARIANTS
  TypeOK
  ActsOnWhatHolds
  LastAdminLostOnlyBySelfOrRace
  HostPictureLostOnlyByRace
  AssertionSignsInOnce
  CountBehindOnlyByCrossing
PROPERTIES
  SessionsEndForGood
CHECK_DEADLOCK FALSE
