-------------------- MODULE RegistrationRefinement_proofs --------------------
(***************************************************************************)
(* Registration implements AccountLifecycle, for any addresses, passkeys,  *)
(* subjects and number of concurrent requests.  Most statements only let   *)
(* an approval go or change nothing the abstract specification sees, which *)
(* is its GiveUp; eight of them are one of its other steps.                *)
(***************************************************************************)
EXTENDS Registration_proofs

-----------------------------------------------------------------------------
(* The three abstract variables, address by address. *)

InFlight(e) == \E p \in Calls : Approving(p) /\ call[p].req = e

\* The actions of AccountLifecycle in these words.
StageStays(e) == Stage(e)' = Stage(e)

FlightStays == \A e \in Emails : InFlight(e)' <=> InFlight(e)

LEMMA StageByRow ==
  ASSUME NEW e, reg'[e].status = reg[e].status,
         reg'[e].verified = reg[e].verified, reg'[e].submitted = reg[e].submitted
  PROVE  StageStays(e)
  BY DEF StageStays, Stage

LEMMA BecomeMaps ==
  ASSUME NEW e \in Emails, NEW from, NEW to, Stage(e) \in from, Stage(e)' = to,
         \A x \in Emails \ {e} : StageStays(x)
  PROVE  Lifecycle!Become(e, from, to)
  BY DEF Lifecycle!Become, StageStays

LEMMA FlightMaps ==
  ASSUME FlightStays
  PROVE  UNCHANGED {e \in Emails : \E p \in Calls : Approving(p) /\ call[p].req = e}
  BY DEF FlightStays, InFlight

LEMMA AnnouncedMaps ==
  ASSUME UNCHANGED created
  PROVE  UNCHANGED {e \in Emails : created[e] > 0}
  OBVIOUS

LEMMA StagesMap ==
  ASSUME \A e \in Emails : StageStays(e)
  PROVE  UNCHANGED [e \in Emails |-> Stage(e)]
  BY DEF StageStays

LEMMA GiveUpMaps ==
  ASSUME \A e \in Emails : StageStays(e), UNCHANGED created,
         \A e \in Emails : InFlight(e)' => InFlight(e)
  PROVE  Lifecycle!Next
  <1> DEFINE A == {e \in Emails : \E p \in Calls : Approving(p) /\ call[p].req = e}
             S == {e \in Emails : InFlight(e) /\ ~InFlight(e)'}
  <1>1. S \in SUBSET A /\ A' = A \ S
    BY DEF InFlight
  <1>2. UNCHANGED <<[e \in Emails |-> Stage(e)], {e \in Emails : created[e] > 0}>>
    BY StagesMap, AnnouncedMaps
  <1> HIDE DEF S
  <1> QED
    BY <1>1, <1>2 DEF Lifecycle!Next, Lifecycle!GiveUp

-----------------------------------------------------------------------------
(* What one request does to the approvals under way. *)

\* A request that is no approval afterwards begins none.
LEMMA FlightShrinks ==
  ASSUME NEW p \in Calls, OthersKeep(p), ~Approving(p)'
  PROVE  \A e \in Emails : InFlight(e)' => InFlight(e)
  BY DEF InFlight, OthersKeep, Approving, At

\* A request that is none before or afterwards changes none.
LEMMA FlightKept ==
  ASSUME NEW p \in Calls, OthersKeep(p), ~Approving(p), ~Approving(p)'
  PROVE  FlightStays
  BY DEF FlightStays, InFlight, OthersKeep, Approving, At

LEMMA FlightKeptByAll ==
  ASSUME UNCHANGED call
  PROVE  FlightStays
  BY DEF FlightStays, InFlight, Approving, At

\* A statement that leaves the rows alone and is not the start of an approval.
LEMMA QuietStep ==
  ASSUME UNCHANGED <<reg, created>>, NEW p \in Calls, OthersKeep(p), ~Approving(p)'
  PROVE  Lifecycle!Next
  BY FlightShrinks, GiveUpMaps, StageByRow

\* SendApprovalEmail has read a pending row: an approval begins when there is a
\* credential, which only a submitted row has.
LEMMA BeginMaps ==
  ASSUME IInv, UNCHANGED <<reg, created>>, NEW p \in Calls, NEW e \in Emails,
         NEW by \in {"admin", "passkey", "freja"}, Approve(p, e, by), ~Approving(p)
  PROVE  Lifecycle!Next
  <1>1. /\ OthersKeep(p)
        /\ call'[p] = [pc |-> "tx", req |-> e, cred |-> reg[e].credential,
                       sub |-> reg[e].sub, provider |-> reg[e].provider, by |-> by]
    BY ApproveEffect DEF IInv
  <1>2. CASE ~Approving(p)'
    BY <1>1, <1>2, QuietStep
  <1>3. CASE Approving(p)'
    <2>1. call'[p].req = e /\ (call'[p].provider = "freja" \/ call'[p].cred # None)
      BY <1>1, <1>3 DEF Approving
    <2>2. reg[e].submitted /\ reg[e].status = "pending"
      BY <1>1, <2>1 DEF Approve, IInv, RowInv, RowOK
    <2>3. Stage(e) = "submitted"
      BY <2>2 DEF Stage
    <2>4. \A x \in Emails : InFlight(x)' <=> InFlight(x) \/ x = e
      BY <1>1, <1>3, <2>1 DEF InFlight, OthersKeep, Approving, At
    <2>5. {x \in Emails : \E q \in Calls : Approving(q) /\ call[q].req = x}'
            = {x \in Emails : \E q \in Calls : Approving(q) /\ call[q].req = x} \cup {e}
      BY <2>4 DEF InFlight
    <2>6. UNCHANGED <<[x \in Emails |-> Stage(x)], {x \in Emails : created[x] > 0}>>
      BY StagesMap, AnnouncedMaps, StageByRow
    <2> QED
      BY <2>3, <2>5, <2>6 DEF Lifecycle!Next, Lifecycle!BeginApproval
  <1> QED
    BY <1>2, <1>3

\* The row of one request passes from a stage to a later one.
LEMMA RowMaps ==
  ASSUME NEW e \in Emails, UNCHANGED created, FlightStays,
         \A x \in Emails \ {e} : StageStays(x),
         \/ Stage(e) = "none" /\ Stage(e)' = "requested"
         \/ Stage(e) = "requested" /\ Stage(e)' = "verified"
         \/ Stage(e) = "verified" /\ Stage(e)' = "submitted"
         \/ Stage(e) \in {"requested", "verified", "submitted"} /\ Stage(e)' = "rejected"
  PROVE  Lifecycle!Next
  <1>1. UNCHANGED <<{x \in Emails : \E p \in Calls : Approving(p) /\ call[p].req = x},
                    {x \in Emails : created[x] > 0}>>
    BY FlightMaps, AnnouncedMaps
  <1>2. \/ Lifecycle!Become(e, {"none"}, "requested")
        \/ Lifecycle!Become(e, {"requested"}, "verified")
        \/ Lifecycle!Become(e, {"verified"}, "submitted")
        \/ Lifecycle!Become(e, Lifecycle!Undecided, "rejected")
    BY BecomeMaps DEF Lifecycle!Undecided
  <1> QED
    BY <1>1, <1>2
       DEF Lifecycle!Next, Lifecycle!Request, Lifecycle!Verify, Lifecycle!Submit, Lifecycle!Reject

\* A credential is written into a row that was verified, whatever its status.
LEMMA SubmissionMaps ==
  ASSUME NEW e \in Emails, TypeOK, UNCHANGED created, FlightStays, reg[e].verified,
         \A x \in Emails \ {e} : reg'[x] = reg[x],
         reg'[e].status = reg[e].status, reg'[e].verified, reg'[e].submitted
  PROVE  Lifecycle!Next
  <1>1. \A x \in Emails \ {e} : StageStays(x)
    BY StageByRow
  <1>2. CASE reg[e].submitted \/ reg[e].status # "pending"
    <2>1. StageStays(e)
      BY <1>2 DEF StageStays, Stage, TypeOK, Row
    <2> QED
      BY <1>1, <2>1, GiveUpMaps DEF FlightStays
  <1>3. CASE ~reg[e].submitted /\ reg[e].status = "pending"
    <2>1. Stage(e) = "verified" /\ Stage(e)' = "submitted"
      BY <1>3 DEF Stage
    <2> QED
      BY <1>1, <2>1, RowMaps
  <1> QED
    BY <1>2, <1>3

-----------------------------------------------------------------------------

LEMMA LifecycleStep ==
  ASSUME IInv, Next
  PROVE  Lifecycle!Next
  <1>0. /\ TypeOK /\ CallsServe /\ RowInv /\ CallInv /\ Safety
        /\ \A p \in Calls : call[p] \in Call
        /\ \A e \in Emails : reg[e] \in Row
    BY DEF IInv, TypeOK
  <1>1. ASSUME Crash PROVE Lifecycle!Next
    <2>1. \A e \in Emails : StageStays(e)
      BY <1>1, StageByRow DEF Crash
    <2>2. \A e \in Emails : ~InFlight(e)'
      BY <1>1 DEF Crash, InFlight, Approving, At, NoCall
    <2> QED
      BY <1>1, <2>1, <2>2, GiveUpMaps DEF Crash
  <1>2. ASSUME NEW p \in Calls, CheckExisting(p) PROVE Lifecycle!Next
    BY <1>0, <1>2, ReturnEffect, GotoEffect, QuietStep
       DEF CheckExisting, Approving, At, Idle, Pcs
  <1>3. ASSUME NEW p \in Calls, InsertRequest(p) PROVE Lifecycle!Next
    <2> PICK e : e = call[p].req
      OBVIOUS
    <2>0. e \in Emails /\ ~Idle(p) /\ ~Approving(p)
      BY <1>0, <1>3 DEF InsertRequest, CallsServe, At, Idle, Approving
    <2>1. CASE reg[e].status # "none"
      BY <1>0, <1>3, <2>0, <2>1, ReturnEffect, QuietStep DEF InsertRequest, Approving, At
    <2>2. CASE reg[e].status = "none"
      <3>1. reg' = [reg EXCEPT ![e] = NewRow] /\ Goto(p, "mail")
        BY <1>3, <2>2 DEF InsertRequest
      <3>2. FlightStays
        BY <1>0, <2>0, <3>1, GotoEffect, FlightKept DEF Approving, At, Pcs
      <3>3. Stage(e) = "none" /\ Stage(e)' = "requested"
        BY <1>0, <2>0, <2>2, <3>1 DEF Stage, NewRow, NoRow, TypeOK
      <3>4. \A x \in Emails \ {e} : StageStays(x)
        BY <1>0, <3>1, StageByRow DEF TypeOK
      <3> QED
        BY <1>3, <2>0, <3>2, <3>3, <3>4, RowMaps DEF InsertRequest
    <2> QED
      BY <2>1, <2>2
  <1>4. ASSUME NEW p \in Calls, SendVerification(p) PROVE Lifecycle!Next
    BY <1>0, <1>4, ReturnEffect, QuietStep DEF SendVerification, Approving, At
  <1>5. ASSUME NEW p \in Calls, StoreChallenge(p) PROVE Lifecycle!Next
    <2>1. OthersKeep(p) /\ ~Approving(p)'
      BY <1>0, <1>5, ReturnEffect DEF StoreChallenge, Approving, At
    <2>2. \A x \in Emails : StageStays(x)
      BY <1>0, <1>5, StageByRow DEF StoreChallenge, TypeOK, Row
    <2> QED
      BY <1>5, <2>1, <2>2, FlightShrinks, GiveUpMaps DEF StoreChallenge
  <1>6. ASSUME NEW p \in Calls, StoreCredential(p) PROVE Lifecycle!Next
    <2> PICK e : e = call[p].req
      OBVIOUS
    <2>1. e \in Emails /\ reg[e].verified /\ ~Idle(p) /\ ~Approving(p)
      BY <1>0, <1>6
         DEF StoreCredential, CallsServe, CallInv, CallOK, At, Idle, Approving
    <2>2. FlightStays
      BY <1>0, <1>6, <2>1, AutoApproveEffect, FlightKept DEF StoreCredential, Approving, At
    <2>3. /\ \A x \in Emails \ {e} : reg'[x] = reg[x]
          /\ reg'[e].status = reg[e].status /\ reg'[e].verified /\ reg'[e].submitted
      BY <1>0, <1>6, <2>1 DEF StoreCredential, TypeOK, Row
    <2> QED
      BY <1>0, <1>6, <2>1, <2>2, <2>3, SubmissionMaps DEF StoreCredential
  <1>7. ASSUME NEW p \in Calls, StoreFreja(p) PROVE Lifecycle!Next
    <2> PICK e : e = call[p].req
      OBVIOUS
    <2>1. e \in Emails /\ reg[e].verified /\ ~Idle(p) /\ ~Approving(p)
      BY <1>0, <1>7 DEF StoreFreja, CallsServe, CallInv, CallOK, At, Idle, Approving
    <2>2. FlightStays
      BY <1>0, <1>7, <2>1, AutoApproveEffect, FlightKept DEF StoreFreja, Approving, At
    <2>3. /\ \A x \in Emails \ {e} : reg'[x] = reg[x]
          /\ reg'[e].status = reg[e].status /\ reg'[e].verified /\ reg'[e].submitted
      BY <1>0, <1>7, <2>1 DEF StoreFreja, TypeOK, Row
    <2> QED
      BY <1>0, <1>7, <2>1, <2>2, <2>3, SubmissionMaps DEF StoreFreja
  <1>8. ASSUME NEW p \in Calls, ReadPending(p) PROVE Lifecycle!Next
    <2>1. /\ call[p].req \in Emails /\ call[p].by \in {"admin", "passkey", "freja"}
          /\ ~Approving(p)
      BY <1>0, <1>8, CallFields DEF ReadPending, CallsServe, At, Idle, Approving
    <2>2. CASE Return(p)
      BY <1>0, <1>8, <2>2, ReturnEffect, QuietStep DEF ReadPending, Approving, At
    <2>3. CASE Approve(p, call[p].req, call[p].by)
      BY <1>8, <2>1, <2>3, BeginMaps DEF ReadPending
    <2> QED
      BY <1>8, <2>2, <2>3 DEF ReadPending
  <1>9. ASSUME NEW p \in Calls, Commit(p) PROVE Lifecycle!Next
    <2> PICK e : e = call[p].req
      OBVIOUS
    <2>1. /\ e \in Emails /\ ~Idle(p) /\ Approving(p) /\ ~Exists(e)
          /\ reg' = [reg EXCEPT ![e].status = "completed"]
          /\ Goto(p, "notify") /\ UNCHANGED created
      BY <1>0, <1>9
         DEF Commit, SendApprovalPasskey, SendApprovalFreja, InsertableUser, MarkCompleted,
             CallsServe, At, Idle, Approving
    <2>2. reg[e].submitted /\ reg[e].verified /\ reg[e].status \in {"pending", "rejected"}
      BY <1>0, <2>1
         DEF CallInv, CallOK, Approving, At, RowInv, RowOK, Safety, CompletedIffAccount, Row
    <2>3. Stage(e) \in {"submitted", "rejected"} /\ Stage(e)' = "account"
      BY <1>0, <2>1, <2>2 DEF Stage, TypeOK, Row
    <2>4. \A x \in Emails \ {e} : StageStays(x)
      BY <1>0, <2>1, StageByRow DEF TypeOK
    <2>5. OthersKeep(p) /\ ~Approving(p)'
      BY <1>0, <2>1, GotoEffect DEF Approving, At, Pcs
    <2>6. /\ InFlight(e) /\ \A x \in Emails : InFlight(x)' => InFlight(x)
          /\ \A x \in Emails \ {e} : InFlight(x) => InFlight(x)'
      BY <2>1, <2>5 DEF InFlight, OthersKeep, Approving, At
    <2>7. Lifecycle!Become(e, {"submitted", "rejected"}, "account")
      BY <2>1, <2>3, <2>4, BecomeMaps
    <2> DEFINE A == {x \in Emails : \E q \in Calls : Approving(q) /\ call[q].req = x}
    <2>8. e \in A /\ A' \in {A, A \ {e}}
      BY <2>1, <2>6 DEF InFlight
    <2> QED
      BY <2>1, <2>7, <2>8, AnnouncedMaps DEF Lifecycle!Next, Lifecycle!Approve
  <1>10. ASSUME NEW p \in Calls, Rollback(p) PROVE Lifecycle!Next
    BY <1>0, <1>10, ReturnEffect, QuietStep DEF Rollback, Approving, At
  <1>11. ASSUME NEW p \in Calls, Notify(p) PROVE Lifecycle!Next
    <2> PICK e : e = call[p].req
      OBVIOUS
    <2>1. /\ e \in Emails /\ ~Idle(p) /\ ~Approving(p)
          /\ Exists(e) /\ created[e] = 0
      BY <1>0, <1>11 DEF Notify, CallsServe, CallInv, CallOK, At, Idle, Approving
    <2>2. FlightStays
      BY <1>0, <1>11, <2>1, ReturnEffect, GotoEffect, FlightKept
         DEF Notify, Approving, At, Pcs
    <2>3. Stage(e) = "account"
      BY <1>0, <2>1 DEF Safety, CompletedIffAccount, Stage
    <2>4. {x \in Emails : created[x] > 0}' = {x \in Emails : created[x] > 0} \cup {e}
      BY <1>0, <1>11, <2>1 DEF Notify, TypeOK
    <2>5. e \notin {x \in Emails : created[x] > 0}
      BY <2>1
    <2>6. UNCHANGED [x \in Emails |-> Stage(x)]
      BY <1>11, StageByRow, StagesMap DEF Notify
    <2> QED
      BY <2>1, <2>2, <2>3, <2>4, <2>5, <2>6, FlightMaps DEF Lifecycle!Next, Lifecycle!Announce
  <1>12. ASSUME NEW p \in Calls, Promote(p) PROVE Lifecycle!Next
    BY <1>0, <1>12, ReturnEffect, GotoEffect, QuietStep DEF Promote, Approving, At, Idle, Pcs
  <1>13. ASSUME NEW p \in Calls, CreateSession(p) PROVE Lifecycle!Next
    BY <1>0, <1>13, ReturnEffect, QuietStep DEF CreateSession, Approving, At
  <1>14. ASSUME NEW p \in Calls, Disconnect(p) PROVE Lifecycle!Next
    BY <1>0, <1>14, ReturnEffect, QuietStep DEF Disconnect, Approving, At
  <1>15. ASSUME NEW p \in Calls, NEW e \in Emails,
                \/ SubmitRequest(p, e)
                \/ FinishRegisterPasskey(p, e)
                \/ \E c \in Creds : BeginRegisterPasskey(p, e, c)
                \/ \E s \in Subs : FrejaRegister(p, e, s)
         PROVE  Lifecycle!Next
    <2>1. OthersKeep(p) /\ ~Approving(p)'
      BY <1>0, <1>15, StartEffect DEF Approving, At
    <2>2. UNCHANGED <<reg, created>>
      BY <1>15 DEF SubmitRequest, FinishRegisterPasskey, BeginRegisterPasskey, FrejaRegister
    <2> QED
      BY <2>1, <2>2, QuietStep
  <1>16. ASSUME NEW p \in Calls, NEW e \in Emails, ApproveRegistration(p, e)
         PROVE  Lifecycle!Next
    BY <1>16, BeginMaps DEF ApproveRegistration, Approving, At, Idle
  <1>17. ASSUME NEW e \in Emails, VerifyEmail(e) PROVE Lifecycle!Next
    <2>1. /\ ~reg[e].submitted /\ ~reg[e].verified /\ reg[e].status # "none"
          /\ UNCHANGED <<call, created>>
          /\ \A x \in Emails \ {e} : reg'[x] = reg[x]
          /\ reg'[e].status = reg[e].status /\ ~reg'[e].submitted /\ reg'[e].verified
      BY <1>0, <1>17 DEF VerifyEmail, RowInv, RowOK, TypeOK, Row
    <2>2. FlightStays /\ \A x \in Emails \ {e} : StageStays(x)
      BY <2>1, FlightKeptByAll, StageByRow
    <2>3. CASE reg[e].status = "pending"
      <3>1. Stage(e) = "requested" /\ Stage(e)' = "verified"
        BY <2>1, <2>3 DEF Stage
      <3> QED
        BY <2>1, <2>2, <3>1, RowMaps
    <2>4. CASE reg[e].status # "pending"
      <3>1. StageStays(e)
        BY <1>0, <2>1, <2>4 DEF StageStays, Stage, Row
      <3> QED
        BY <2>1, <2>2, <3>1, GiveUpMaps DEF FlightStays
    <2> QED
      BY <2>3, <2>4
  <1>18. ASSUME NEW e \in Emails, RejectRegistration(e) PROVE Lifecycle!Next
    <2>1. FlightStays /\ \A x \in Emails \ {e} : StageStays(x)
      BY <1>0, <1>18, FlightKeptByAll, StageByRow DEF RejectRegistration, TypeOK
    <2>2. /\ Stage(e) \in {"requested", "verified", "submitted"}
          /\ Stage(e)' = "rejected"
      BY <1>0, <1>18 DEF RejectRegistration, Stage, TypeOK, Row
    <2> QED
      BY <1>18, <2>1, <2>2, RowMaps DEF RejectRegistration
  <1>19. ASSUME NEW e \in Emails, ExpireEmailToken(e) \/ ExpireSetupToken(e)
         PROVE  Lifecycle!Next
    <2>1. \A x \in Emails : StageStays(x)
      BY <1>0, <1>19, StageByRow DEF ExpireEmailToken, ExpireSetupToken, TypeOK, Row
    <2> QED
      BY <1>19, <2>1, FlightKeptByAll, GiveUpMaps
         DEF ExpireEmailToken, ExpireSetupToken, FlightStays
  <1>20. ASSUME NEW e \in Emails, NEW a \in Addresses, ChangeUsername(e, a)
         PROVE  Lifecycle!Next
    BY <1>20, FlightKeptByAll, GiveUpMaps, StageByRow DEF ChangeUsername, FlightStays
  <1> QED
    BY <1>1, <1>2, <1>3, <1>4, <1>5, <1>6, <1>7, <1>8, <1>9, <1>10, <1>11, <1>12, <1>13,
       <1>14, <1>15, <1>16, <1>17, <1>18, <1>19, <1>20 DEF Next, Handle

\* Stages are passed in order, an approval begins on a submitted and undecided
\* request only, nothing leads out of an account, and it is announced after it
\* exists: the handlers implement AccountLifecycle.
THEOREM FlowFollowsLifecycle == Spec => FollowsLifecycle
  <1>1. Init => Lifecycle!Init
    BY DEF Init, Lifecycle!Init, Stage, Approving, At, NoRow, NoCall
  <1>2. UNCHANGED vars
          => UNCHANGED <<[e \in Emails |-> Stage(e)],
                         {e \in Emails : \E p \in Calls : Approving(p) /\ call[p].req = e},
                         {e \in Emails : created[e] > 0}>>
    BY FlightKeptByAll, FlightMaps, StageByRow, StagesMap DEF vars
  <1>3. IInv /\ [Next]_vars => [Lifecycle!Next]_(Lifecycle!vars)
    BY <1>2, LifecycleStep DEF Lifecycle!vars
  <1> QED
    BY <1>1, <1>3, Invariant, PTL DEF Spec, FollowsLifecycle, Lifecycle!Spec

==============================================================================
