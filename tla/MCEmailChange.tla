-------------------------- MODULE MCEmailChange --------------------------
(* Small instance of EmailChange. *)
EXTENDS EmailChange, TLC

Symmetry ==
  Permutations(Users) \cup Permutations(Mailboxes) \cup Permutations(Links)
    \cup Permutations(Subs) \cup Permutations(Calls)

=============================================================================
