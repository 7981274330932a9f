---------------------------- MODULE MCSessions ----------------------------
(* Small instance of Sessions. *)
EXTENDS Sessions, TLC

CONSTANTS alice, bob

MCUsers == {alice, bob}
MCAdmins == {alice, bob}

MCPasskeyUsers == {bob}
MCFrejaUsers == {alice}

MCChanges == [field: {"banned"}, to: BOOLEAN] \cup [field: {"role"}, to: {"active"}]

Symmetry == Permutations(Sids) \cup Permutations(Challenges) \cup Permutations(Calls)

=============================================================================
