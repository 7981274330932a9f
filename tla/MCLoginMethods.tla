--------------------------- MODULE MCLoginMethods ---------------------------
(* LoginMethods on a small instance: one Freja user whose subject is rotated,
   and whose two subjects assert the same address. *)
EXTENDS LoginMethods, TLC

CONSTANTS s1, s2, e1, e2

MCAsserted == {[sub |-> s1, email |-> e1], [sub |-> s2, email |-> e1], [sub |-> s2, email |-> e2]}

MCSymmetry ==
  Permutations(Calls) \cup Permutations(Creds) \cup Permutations(LinkTokens) \cup Permutations(Users)
=============================================================================
