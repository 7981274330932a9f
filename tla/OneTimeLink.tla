---------------------------- MODULE OneTimeLink ----------------------------
(***************************************************************************)
(* What a mailed link promises, without statements or requests: it is      *)
(* issued once, redeemed at most once and only while it is open, and what  *)
(* it was redeemed for happens at most once, or is given up for good.      *)
(***************************************************************************)

CONSTANT Links

VARIABLE link            \* how far each link has come

Init == link = [l \in Links |-> "unused"]

Become(l, from, to) ==
  /\ link[l] = from
  /\ link' = [link EXCEPT ![l] = to]

Issue(l) == Become(l, "unused", "open")

Expire(l) == Become(l, "open", "void")

Redeem(l) == Become(l, "open", "redeemed")

Apply(l) == Become(l, "redeemed", "applied")

\* One use fails, or the process that serves many of them stops.
GiveUp ==
  \E S \in SUBSET {l \in Links : link[l] = "redeemed"} :
    link' = [l \in Links |-> IF l \in S THEN "void" ELSE link[l]]

Next ==
  \/ GiveUp
  \/ \E l \in Links : Issue(l) \/ Expire(l) \/ Redeem(l) \/ Apply(l)

Spec == Init /\ [][Next]_link

=============================================================================
