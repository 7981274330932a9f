--------------------------- MODULE MCRegistration ---------------------------
(* Registration on a small instance.  Ann signs up with a capital letter; her
   address is a bootstrap administrator's in the other spelling.  The Freja
   subject asserts bob at first and ann later. *)
EXTENDS Registration, TLC

CONSTANTS ann, Ann, bob

MCAddresses == {ann, Ann, bob}

MCLower == [a \in MCAddresses |-> IF a = bob THEN bob ELSE ann]

MCFrejaEmails == [s \in Subs |-> {ann, bob}]

MCSymmetry == Permutations(Calls) \cup Permutations(Creds)
=============================================================================
