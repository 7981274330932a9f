--------------------------- MODULE ResetLifecycle ---------------------------
(***************************************************************************)
(* What the way back into an account promises about one request for it,    *)
(* without statements, tokens or ceremonies.  An administrator decides on  *)
(* it once.  Only an approved request whose link was delivered is opened,  *)
(* only a use that opened it grants what was asked for, and only one that  *)
(* granted it completes the request, after which no use opens it again.    *)
(* Uses that opened it before that may still grant: the link is not spent  *)
(* before the end of the first of them.                                    *)
(***************************************************************************)

CONSTANT Requests

VARIABLES stage,         \* how far each request has come
          delivered,     \* the requests whose link reached the user
          opened,        \* those with a use of the link under way
          granted,       \* those with a use that has granted, and not completed
          stored         \* those that a passkey was stored for

vars == <<stage, delivered, opened, granted, stored>>

Init ==
  /\ stage = [r \in Requests |-> "none"]
  /\ delivered = {} /\ opened = {} /\ granted = {} /\ stored = {}

Become(r, from, to) ==
  /\ stage[r] \in from
  /\ stage' = [stage EXCEPT ![r] = to]

Ask(r) ==
  /\ Become(r, {"none"}, "pending")
  /\ UNCHANGED <<delivered, opened, granted, stored>>

Decide(r) ==
  /\ \E decision \in {"approved", "rejected"} : Become(r, {"pending"}, decision)
  /\ UNCHANGED <<delivered, opened, granted, stored>>

Deliver(r) ==
  /\ stage[r] \in {"approved", "completed"}
  /\ delivered' = delivered \cup {r}
  /\ UNCHANGED <<stage, opened, granted, stored>>

Open(r) ==
  /\ stage[r] = "approved" /\ r \in delivered
  /\ opened' = opened \cup {r}
  /\ UNCHANGED <<stage, delivered, granted, stored>>

\* Other uses of the same link may still be under way afterwards.  A Freja
\* identity may have been there before, and is not remembered.
Grant(r) ==
  /\ r \in opened
  /\ opened' \in {opened, opened \ {r}}
  /\ granted' = granted \cup {r}
  /\ stored' \in {stored, stored \cup {r}}
  /\ UNCHANGED <<stage, delivered>>

Complete(r) ==
  /\ r \in granted
  /\ Become(r, {"approved", "completed"}, "completed")
  /\ granted' \in {granted, granted \ {r}}
  /\ UNCHANGED <<delivered, opened, stored>>

\* One use fails, or the process that serves many of them stops.
GiveUp ==
  /\ \E S \in SUBSET opened : opened' = opened \ S
  /\ \E S \in SUBSET granted : granted' = granted \ S
  /\ UNCHANGED <<stage, delivered, stored>>

Next ==
  \/ GiveUp
  \/ \E r \in Requests :
       Ask(r) \/ Decide(r) \/ Deliver(r) \/ Open(r) \/ Grant(r) \/ Complete(r)

Spec == Init /\ [][Next]_vars

=============================================================================
