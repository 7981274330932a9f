-------------------------- MODULE AccountLifecycle --------------------------
(***************************************************************************)
(* What the registration flow promises about one e-mail address, without   *)
(* statements, handlers or tokens: an address asks, proves it can read its *)
(* mail, submits a credential, and is then decided upon.  An approval has  *)
(* two ends: it begins while the request is undecided, and it either takes *)
(* effect or is given up.  A rejection may fall between the two ends, and  *)
(* the approval that began before it still wins; that is the only way out  *)
(* of a rejection, and nothing leads out of an account.  The host          *)
(* application is told of every account at most once, after it exists.     *)
(***************************************************************************)

CONSTANT Emails          \* the addresses that may ask for an account

VARIABLES stage,         \* how far the request of each address has come
          approving,     \* the addresses an approval has begun for
          announced      \* the accounts the host application was told of

vars == <<stage, approving, announced>>

Stages == {"none", "requested", "verified", "submitted", "rejected", "account"}

Undecided == {"requested", "verified", "submitted"}

Init ==
  /\ stage = [e \in Emails |-> "none"]
  /\ approving = {}
  /\ announced = {}

Become(e, from, to) ==
  /\ stage[e] \in from
  /\ stage' = [stage EXCEPT ![e] = to]

Request(e) == Become(e, {"none"}, "requested") /\ UNCHANGED <<approving, announced>>

Verify(e) == Become(e, {"requested"}, "verified") /\ UNCHANGED <<approving, announced>>

Submit(e) == Become(e, {"verified"}, "submitted") /\ UNCHANGED <<approving, announced>>

Reject(e) == Become(e, Undecided, "rejected") /\ UNCHANGED <<approving, announced>>

BeginApproval(e) ==
  /\ stage[e] = "submitted"
  /\ approving' = approving \cup {e}
  /\ UNCHANGED <<stage, announced>>

\* Other approvals of the same address may still be under way afterwards.
Approve(e) ==
  /\ e \in approving
  /\ Become(e, {"submitted", "rejected"}, "account")
  /\ approving' \in {approving, approving \ {e}}
  /\ UNCHANGED announced

\* One approval fails, or the process that runs many of them stops.
GiveUp ==
  /\ \E S \in SUBSET approving : approving' = approving \ S
  /\ UNCHANGED <<stage, announced>>

Announce(e) ==
  /\ stage[e] = "account"
  /\ e \notin announced
  /\ announced' = announced \cup {e}
  /\ UNCHANGED <<stage, approving>>

Next ==
  \/ GiveUp
  \/ \E e \in Emails :
       Request(e) \/ Verify(e) \/ Submit(e) \/ Reject(e)
         \/ BeginApproval(e) \/ Approve(e) \/ Announce(e)

Spec == Init /\ [][Next]_vars

=============================================================================
