------------------------- MODULE MCCredentialReset -------------------------
(* CredentialReset on a small instance: two users, of whom the first has the
   address that Freja asserts for the subject. *)
EXTENDS CredentialReset, TLC

CONSTANTS u1, u2, s1

MCFrejaUsers == [s \in {s1} |-> {u1}]

MCSymmetry ==
  Permutations(Calls) \cup Permutations(Creds) \cup Permutations(Requests) \cup Permutations(Tokens)
=============================================================================
