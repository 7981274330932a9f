------------------------- MODULE Registration_proofs -------------------------
(***************************************************************************)
(* Theorems about Registration, for any addresses, passkeys, subjects and  *)
(* number of concurrent requests.                                          *)
(***************************************************************************)
EXTENDS Registration, TLAPS

-----------------------------------------------------------------------------
(* What the helpers of Registration do to the record of one request. *)

\* A request being served is about some address.
CallsServe == \A p \in Calls : ~Idle(p) => call[p].req \in Emails

OthersKeep(p) == \A q \in Calls \ {p} : call'[q] = call[q]

LEMMA Constructors ==
  /\ NoRow \in Row /\ NewRow \in Row
  /\ NoUser \in User
  /\ NoCall \in Call
  BY DEF NoRow, NewRow, Row, NoUser, User, NoCall, Call, Pcs

LEMMA RowUpdates ==
  ASSUME NEW r \in Row, NEW c \in Creds \cup {None}, NEW s \in Subs \cup {None}
  PROVE  /\ [r EXCEPT !.verified = TRUE, !.setup = TRUE] \in Row
         /\ [r EXCEPT !.challenge = c] \in Row
         /\ [r EXCEPT !.credential = c, !.submitted = TRUE] \in Row
         /\ [r EXCEPT !.provider = "freja", !.sub = s, !.submitted = TRUE] \in Row
         /\ [r EXCEPT !.status = "completed"] \in Row
         /\ [r EXCEPT !.status = "rejected"] \in Row
         /\ [r EXCEPT !.fresh = FALSE] \in Row
         /\ [r EXCEPT !.setup = FALSE] \in Row
  BY DEF Row

LEMMA CallFields ==
  ASSUME NEW c \in Call
  PROVE  /\ c.req \in Emails \cup {None}
         /\ c.cred \in Creds \cup {None}
         /\ c.sub \in Subs \cup {None}
         /\ c.provider \in {"passkey", "freja"}
         /\ c.by \in {"admin", "passkey", "freja"}
  BY DEF Call

LEMMA ServeEffect ==
  ASSUME TypeOK, CallsServe, NEW p \in Calls,
         NEW c \in Call, c.req \in Emails, Serve(p, c)
  PROVE  /\ call' \in [Calls -> Call] /\ CallsServe'
         /\ call'[p] = c /\ OthersKeep(p)
  BY DEF TypeOK, CallsServe, Idle, Serve, OthersKeep

LEMMA ReturnEffect ==
  ASSUME TypeOK, CallsServe, NEW p \in Calls, Return(p)
  PROVE  /\ call' \in [Calls -> Call] /\ CallsServe'
         /\ call'[p] = NoCall /\ call'[p].pc = "idle" /\ OthersKeep(p)
  BY Constructors DEF TypeOK, CallsServe, Idle, Return, OthersKeep, NoCall

LEMMA GotoEffect ==
  ASSUME TypeOK, CallsServe, NEW p \in Calls, ~Idle(p),
         NEW pc \in Pcs, Goto(p, pc)
  PROVE  /\ call' \in [Calls -> Call] /\ CallsServe'
         /\ call'[p] = [call[p] EXCEPT !.pc = pc]
         /\ call'[p].pc = pc /\ call'[p].req = call[p].req
         /\ OthersKeep(p)
  <1>1. call[p] \in Call /\ [call[p] EXCEPT !.pc = pc] \in Call
    BY DEF TypeOK, Call
  <1>2. call' = [call EXCEPT ![p] = [call[p] EXCEPT !.pc = pc]]
    BY DEF Goto
  <1>3. /\ [call[p] EXCEPT !.pc = pc].req = call[p].req
        /\ [call[p] EXCEPT !.pc = pc].pc = pc
    BY <1>1 DEF Call
  <1> QED
    BY <1>1, <1>2, <1>3 DEF TypeOK, CallsServe, Idle, OthersKeep

\* A request begins with its first look-up.
LEMMA StartEffect ==
  ASSUME TypeOK, NEW p \in Calls, NEW e \in Emails,
         \/ SubmitRequest(p, e)
         \/ FinishRegisterPasskey(p, e)
         \/ \E c \in Creds : BeginRegisterPasskey(p, e, c)
         \/ \E s \in Subs : FrejaRegister(p, e, s)
  PROVE  /\ call'[p].pc \in {"exists", "credential", "challenge", "provider"}
         /\ OthersKeep(p)
  BY DEF TypeOK, Serve, OthersKeep, NoCall, SubmitRequest, FinishRegisterPasskey,
         BeginRegisterPasskey, FrejaRegister

\* The record of an automatic approval about to begin.
LEMMA AutoApproveEffect ==
  ASSUME TypeOK, CallsServe, NEW p \in Calls, ~Idle(p),
         NEW by \in {"passkey", "freja"}, AutoApprove(p, by)
  PROVE  /\ call' \in [Calls -> Call] /\ CallsServe'
         /\ call'[p].pc \in {"approve", "idle"} /\ OthersKeep(p)
  <1> DEFINE c == [NoCall EXCEPT !.pc = "approve", !.req = call[p].req, !.by = by]
  <1>1. c \in Call /\ c.pc = "approve" /\ c.req \in Emails
    BY DEF CallsServe, NoCall, Call, Pcs
  <1>2. CASE Serve(p, c)
    <2> HIDE DEF c
    <2> QED BY <1>1, <1>2, ServeEffect
  <1>3. CASE Return(p)
    BY <1>3, ReturnEffect DEF NoCall
  <1> QED
    BY <1>2, <1>3 DEF AutoApprove

\* An approval keeps what it read of the row.
LEMMA ApproveEffect ==
  ASSUME TypeOK, CallsServe, NEW p \in Calls, NEW e \in Emails,
         NEW by \in {"admin", "passkey", "freja"}, Approve(p, e, by)
  PROVE  /\ call' \in [Calls -> Call] /\ CallsServe'
         /\ call'[p] = [pc |-> "tx", req |-> e, cred |-> reg[e].credential,
                        sub |-> reg[e].sub, provider |-> reg[e].provider, by |-> by]
         /\ OthersKeep(p)
  <1> DEFINE c == [pc |-> "tx", req |-> e, cred |-> reg[e].credential,
                   sub |-> reg[e].sub, provider |-> reg[e].provider, by |-> by]
  <1>1. c \in Call /\ c.req \in Emails
    BY DEF TypeOK, Row, Call, Pcs
  <1> HIDE DEF c
  <1>2. Serve(p, c)
    BY DEF c, Approve
  <1> QED
    BY <1>1, <1>2, ServeEffect DEF c

LEMMA ApprovalServes ==
  ASSUME TypeOK, NEW p \in Calls, NEW e \in Emails,
         NEW by \in {"admin", "passkey", "freja"}, Approve(p, e, by)
  PROVE  OthersKeep(p) /\ call'[p].req = e
  BY DEF TypeOK, Approve, Serve, OthersKeep

LEMMA TypeInit == Init => TypeOK /\ CallsServe
  BY Constructors DEF Init, TypeOK, CallsServe, Idle, NoCall

LEMMA TypeStep == TypeOK /\ CallsServe /\ [Next]_vars => (TypeOK /\ CallsServe)'
  <1> SUFFICES ASSUME TypeOK, CallsServe, [Next]_vars PROVE (TypeOK /\ CallsServe)'
    OBVIOUS
  <1>0. \A p \in Calls : call[p] \in Call /\ (~Idle(p) => call[p].req \in Emails)
    BY DEF TypeOK, CallsServe
  <1>1. ASSUME Crash
       PROVE  (TypeOK /\ CallsServe)'
    BY <1>0, <1>1, Constructors
       DEF TypeOK, CallsServe, Idle, Crash, NoCall
  <1>2. ASSUME NEW p \in Calls, CheckExisting(p)
       PROVE  (TypeOK /\ CallsServe)'
    BY <1>0, <1>2, ReturnEffect, GotoEffect
       DEF TypeOK, CallsServe, Idle, CheckExisting, Pcs, At
  <1>3. ASSUME NEW p \in Calls, InsertRequest(p)
       PROVE  (TypeOK /\ CallsServe)'
    BY <1>0, <1>3, ReturnEffect, GotoEffect, Constructors
       DEF TypeOK, CallsServe, Idle, InsertRequest, Pcs, At
  <1>4. ASSUME NEW p \in Calls, SendVerification(p)
       PROVE  (TypeOK /\ CallsServe)'
    BY <1>0, <1>4, ReturnEffect
       DEF TypeOK, CallsServe, Idle, SendVerification, At
  <1>5. ASSUME NEW p \in Calls, StoreChallenge(p)
       PROVE  (TypeOK /\ CallsServe)'
    BY <1>0, <1>5, ReturnEffect, RowUpdates, CallFields
       DEF TypeOK, CallsServe, Idle, StoreChallenge, At
  <1>6. ASSUME NEW p \in Calls, StoreCredential(p)
       PROVE  (TypeOK /\ CallsServe)'
    BY <1>0, <1>6, AutoApproveEffect, RowUpdates, CallFields
       DEF TypeOK, CallsServe, Idle, StoreCredential, At
  <1>7. ASSUME NEW p \in Calls, StoreFreja(p)
       PROVE  (TypeOK /\ CallsServe)'
    BY <1>0, <1>7, AutoApproveEffect, RowUpdates, CallFields
       DEF TypeOK, CallsServe, Idle, StoreFreja, At
  <1>8. ASSUME NEW p \in Calls, ReadPending(p)
       PROVE  (TypeOK /\ CallsServe)'
    BY <1>0, <1>8, ReturnEffect, ApproveEffect, CallFields
       DEF TypeOK, CallsServe, Idle, ReadPending, At
  <1>9. ASSUME NEW p \in Calls, Commit(p)
       PROVE  (TypeOK /\ CallsServe)'
    <2>1. call[p] \in Call /\ call[p].req \in Emails
      BY <1>0, <1>9 DEF Commit, At, Idle
    <2>2. call' \in [Calls -> Call] /\ CallsServe'
      BY <1>9, GotoEffect DEF Commit, At, Idle, Pcs
    <2>3. reg' \in [Emails -> Row]
      <3>1. MarkCompleted(call[p].req)
        BY <1>9 DEF Commit, SendApprovalPasskey, SendApprovalFreja
      <3> QED
        BY <2>1, <3>1, RowUpdates DEF TypeOK, MarkCompleted
    <2>4. users' \in [Emails -> User]
      BY <1>9, <2>1, EmailsAssumption
         DEF TypeOK, Commit, SendApprovalPasskey, SendApprovalFreja, InsertUser, User
    <2>5. /\ creds' \subseteq [user: Emails, cred: Creds]
          /\ identities' \subseteq [user: Emails, sub: Subs \cup {None}]
      BY <1>9, <2>1, CallFields DEF TypeOK, Commit, SendApprovalPasskey, SendApprovalFreja
    <2> QED
      BY <1>9, <2>2, <2>3, <2>4, <2>5 DEF TypeOK, Commit
  <1>10. ASSUME NEW p \in Calls, Rollback(p)
       PROVE  (TypeOK /\ CallsServe)'
    BY <1>0, <1>10, ReturnEffect
       DEF TypeOK, CallsServe, Idle, Rollback, At
  <1>11. ASSUME NEW p \in Calls, Notify(p)
       PROVE  (TypeOK /\ CallsServe)'
    <2>1. call' \in [Calls -> Call] /\ CallsServe'
      BY <1>11, ReturnEffect, GotoEffect DEF Notify, At, Idle, Pcs
    <2>2. created' \in [Emails -> Nat]
      BY <1>0, <1>11 DEF TypeOK, Notify, At, Idle
    <2> QED
      BY <1>11, <2>1, <2>2 DEF TypeOK, Notify
  <1>12. ASSUME NEW p \in Calls, Promote(p)
       PROVE  (TypeOK /\ CallsServe)'
    BY <1>0, <1>12, ReturnEffect, GotoEffect
       DEF TypeOK, CallsServe, Idle, Promote, At, Pcs, User
  <1>13. ASSUME NEW p \in Calls, CreateSession(p)
       PROVE  (TypeOK /\ CallsServe)'
    BY <1>0, <1>13, ReturnEffect
       DEF TypeOK, CallsServe, Idle, CreateSession, At
  <1>14. ASSUME NEW p \in Calls, Disconnect(p)
       PROVE  (TypeOK /\ CallsServe)'
    BY <1>0, <1>14, ReturnEffect
       DEF TypeOK, CallsServe, Idle, Disconnect
  <1>15. ASSUME NEW p \in Calls, NEW e \in Emails, SubmitRequest(p, e)
       PROVE  (TypeOK /\ CallsServe)'
    BY <1>0, <1>15, ServeEffect
       DEF TypeOK, CallsServe, Idle, SubmitRequest, NoCall, Call, Pcs
  <1>16. ASSUME NEW p \in Calls, NEW e \in Emails, FinishRegisterPasskey(p, e)
       PROVE  (TypeOK /\ CallsServe)'
    BY <1>0, <1>16, ServeEffect
       DEF TypeOK, CallsServe, Idle, FinishRegisterPasskey, NoCall, Call, Pcs, Row
  <1>17. ASSUME NEW p \in Calls, NEW e \in Emails, ApproveRegistration(p, e)
       PROVE  (TypeOK /\ CallsServe)'
    BY <1>0, <1>17, ApproveEffect
       DEF TypeOK, CallsServe, Idle, ApproveRegistration
  <1>18. ASSUME NEW p \in Calls, NEW e \in Emails, NEW c \in Creds, BeginRegisterPasskey(p, e, c)
       PROVE  (TypeOK /\ CallsServe)'
    BY <1>0, <1>18, ServeEffect
       DEF TypeOK, CallsServe, Idle, BeginRegisterPasskey, NoCall, Call, Pcs
  <1>19. ASSUME NEW p \in Calls, NEW e \in Emails, NEW s \in Subs, FrejaRegister(p, e, s)
       PROVE  (TypeOK /\ CallsServe)'
    BY <1>0, <1>19, ServeEffect
       DEF TypeOK, CallsServe, Idle, FrejaRegister, NoCall, Call, Pcs
  <1>20. ASSUME NEW e \in Emails, VerifyEmail(e)
       PROVE  (TypeOK /\ CallsServe)'
    BY <1>0, <1>20, RowUpdates
       DEF TypeOK, CallsServe, Idle, VerifyEmail
  <1>21. ASSUME NEW e \in Emails, RejectRegistration(e)
       PROVE  (TypeOK /\ CallsServe)'
    BY <1>0, <1>21, RowUpdates
       DEF TypeOK, CallsServe, Idle, RejectRegistration
  <1>22. ASSUME NEW e \in Emails, ExpireEmailToken(e)
       PROVE  (TypeOK /\ CallsServe)'
    BY <1>0, <1>22, RowUpdates
       DEF TypeOK, CallsServe, Idle, ExpireEmailToken
  <1>23. ASSUME NEW e \in Emails, ExpireSetupToken(e)
       PROVE  (TypeOK /\ CallsServe)'
    BY <1>0, <1>23, RowUpdates
       DEF TypeOK, CallsServe, Idle, ExpireSetupToken
  <1>24. ASSUME NEW e \in Emails, NEW a \in Addresses, ChangeUsername(e, a)
       PROVE  (TypeOK /\ CallsServe)'
    BY <1>0, <1>24
       DEF TypeOK, CallsServe, Idle, ChangeUsername, User
  <1>25. CASE UNCHANGED vars
    BY <1>25 DEF vars, TypeOK, CallsServe, Idle
  <1> QED
    BY <1>1, <1>2, <1>3, <1>4, <1>5, <1>6, <1>7, <1>8, <1>9, <1>10, <1>11, <1>12, <1>13, <1>14, <1>15, <1>16, <1>17, <1>18, <1>19, <1>20, <1>21, <1>22, <1>23, <1>24, <1>25 DEF Next, Handle

-----------------------------------------------------------------------------
(* The invariant.  The properties relate the tables to each other, but what
   keeps them true is in the requests: between two statements a request carries
   what it has read, and the invariant says how much of it still holds. *)

\* The Freja subject asserts the address, without regard to case.
Matches(s, e) == s \in Subs /\ \E f \in FrejaEmails[s] : Lower[f] = Lower[e]

RowOK(e) ==
  /\ reg[e].fresh \/ reg[e].verified => reg[e].status # "none"
  /\ reg[e].submitted => reg[e].verified /\ e \in linked
  /\ reg[e].submitted <=> reg[e].credential # None \/ reg[e].provider = "freja"
  /\ reg[e].provider = "freja" => Matches(reg[e].sub, e)

RowInv == \A e \in Emails : RowOK(e)

\* What the record of a request says of the tables.
CallOK(c) ==
  /\ c.pc \in {"challenge", "credential", "provider"} =>
       reg[c.req].verified /\ c.req \in linked
  /\ c.pc = "credential" => c.cred # None
  /\ c.pc = "provider" => Matches(c.sub, c.req)
  /\ c.pc = "tx" /\ c.provider = "freja" => reg[c.req].submitted /\ Matches(c.sub, c.req)
  /\ c.pc = "tx" /\ c.cred # None => reg[c.req].submitted
  /\ c.pc = "notify" => Exists(c.req) /\ created[c.req] = 0
  /\ c.pc \in {"promote", "session"} => Exists(c.req)
  /\ c.pc = "session" => users[c.req].role = "admin"

CallInv == \A p \in Calls : CallOK(call[p])

\* Two approvals of one request are never both about to announce the account.
OneNotifies ==
  \A p, q \in Calls :
    At(p, "notify") /\ At(q, "notify") /\ call[p].req = call[q].req => p = q

UserInv ==
  \A u \in Emails :
    /\ Exists(u) => reg[u].submitted
    /\ users[u].role = "admin" => Exists(u)

Safety ==
  /\ CompletedIffAccount
  /\ AnnouncedOnce
  /\ LoginMissingOnlyByConflict
  /\ SignedInIsAdmin

IInv == TypeOK /\ CallsServe /\ RowInv /\ CallInv /\ OneNotifies /\ UserInv /\ Safety

\* No statement takes back a verification or a submission.
RowsGrow ==
  \A e \in Emails :
    /\ reg[e].verified => reg'[e].verified
    /\ reg[e].submitted => reg'[e].submitted

\* Nor do the tables a request depends on lose anything.
TablesGrow ==
  /\ RowsGrow
  /\ linked \subseteq linked'
  /\ \A u \in Emails : /\ Exists(u) => Exists(u)'
                       /\ users[u].role = "admin" => users'[u].role = "admin"
                       /\ created'[u] = created[u]

\* A request that stands still keeps its invariant while the tables grow.
LEMMA CallKept ==
  ASSUME TypeOK, CallsServe, CallInv, TablesGrow,
         NEW q \in Calls, call'[q] = call[q]
  PROVE  CallOK(call[q])'
  BY DEF TypeOK, CallsServe, CallInv, CallOK, TablesGrow, RowsGrow, Exists, Idle, Call, Pcs

\* One request moves, the others stand still.
LEMMA CallInvKept ==
  ASSUME TypeOK, CallsServe, CallInv, TablesGrow,
         NEW p \in Calls, OthersKeep(p), CallOK(call[p])'
  PROVE  CallInv'
  BY CallKept DEF CallInv, OthersKeep

\* Only a transaction that commits brings a request to its announcement.
LEMMA OneNotifiesKept ==
  ASSUME OneNotifies, NEW p \in Calls, OthersKeep(p), ~At(p, "notify")'
  PROVE  OneNotifies'
  BY DEF OneNotifies, OthersKeep, At

\* A statement that writes none of the tables the properties speak of.
LEMMA TablesKept ==
  ASSUME RowInv, UserInv, Safety,
         UNCHANGED <<reg, users, creds, identities, sessions, linked, created>>
  PROVE  TablesGrow /\ RowInv' /\ UserInv' /\ Safety'
  BY DEF TablesGrow, RowsGrow, RowInv, RowOK, UserInv, Safety, CompletedIffAccount,
         AnnouncedOnce, LoginMissingOnlyByConflict, HasLogin, SignedInIsAdmin, Exists

\* A statement on one registration row that leaves its status alone.
LEMMA RowWrittenKept ==
  ASSUME UserInv, Safety, RowsGrow, linked \subseteq linked',
         \A e \in Emails : reg'[e].status = reg[e].status,
         UNCHANGED <<users, creds, identities, sessions, created>>
  PROVE  TablesGrow /\ UserInv' /\ Safety'
  BY DEF TablesGrow, RowsGrow, UserInv, Safety, CompletedIffAccount,
         AnnouncedOnce, LoginMissingOnlyByConflict, HasLogin, SignedInIsAdmin, Exists

LEMMA InvInit == Init => IInv
  <1> SUFFICES ASSUME Init PROVE IInv
    OBVIOUS
  <1>1. TypeOK /\ CallsServe
    BY TypeInit
  <1>2. RowInv /\ UserInv
    BY DEF Init, RowInv, RowOK, UserInv, Exists, NoRow, NoUser
  <1>3. CallInv /\ OneNotifies
    BY DEF Init, CallInv, CallOK, OneNotifies, At, NoCall
  <1>4. CompletedIffAccount /\ LoginMissingOnlyByConflict
    BY DEF Init, CompletedIffAccount, LoginMissingOnlyByConflict, Exists, NoRow, NoUser
  <1>5. AnnouncedOnce /\ SignedInIsAdmin
    BY DEF Init, AnnouncedOnce, SignedInIsAdmin
  <1> QED
    BY <1>1, <1>2, <1>3, <1>4, <1>5 DEF IInv, Safety

LEMMA InvStep == IInv /\ [Next]_vars => IInv'
  <1> SUFFICES ASSUME IInv, [Next]_vars PROVE IInv'
    OBVIOUS
  <1>0. /\ TypeOK /\ CallsServe /\ RowInv /\ CallInv /\ OneNotifies /\ UserInv /\ Safety
        /\ (TypeOK /\ CallsServe)'
    BY TypeStep DEF IInv
  <1>1. ASSUME Crash
       PROVE  IInv'
    <2>1. TablesGrow /\ RowInv' /\ UserInv' /\ Safety'
      BY <1>0, <1>1, TablesKept DEF Crash
    <2>2. CallInv' /\ OneNotifies'
      BY <1>1 DEF Crash, CallInv, CallOK, OneNotifies, At, NoCall
    <2> QED
      BY <1>0, <2>1, <2>2 DEF IInv
  <1>2. ASSUME NEW p \in Calls, CheckExisting(p)
       PROVE  IInv'
    <2>1. TablesGrow /\ RowInv' /\ UserInv' /\ Safety'
      BY <1>0, <1>2, TablesKept DEF CheckExisting
    <2>2. OthersKeep(p) /\ ~At(p, "notify")' /\ CallOK(call[p])'
      BY <1>0, <1>2, ReturnEffect, GotoEffect
         DEF CheckExisting, CallOK, At, Idle, NoCall, Call, Pcs, TypeOK
    <2> QED
      BY <1>0, <2>1, <2>2, CallInvKept, OneNotifiesKept DEF IInv
  <1>3. ASSUME NEW p \in Calls, InsertRequest(p)
       PROVE  IInv'
    <2> DEFINE e == call[p].req
    <2>1. CASE reg[e].status # "none"
      <3>1. TablesGrow /\ RowInv' /\ UserInv' /\ Safety'
        BY <1>0, <1>3, <2>1, TablesKept DEF InsertRequest
      <3>2. OthersKeep(p) /\ ~At(p, "notify")' /\ CallOK(call[p])'
        BY <1>0, <1>3, <2>1, ReturnEffect DEF InsertRequest, CallOK, At, NoCall
      <3> QED
        BY <1>0, <3>1, <3>2, CallInvKept, OneNotifiesKept DEF IInv
    <2>2. CASE reg[e].status = "none"
      <3>1. e \in Emails /\ reg' = [reg EXCEPT ![e] = NewRow] /\ Goto(p, "mail") /\ ~Idle(p)
        BY <1>0, <1>3, <2>2 DEF InsertRequest, CallsServe, At, Idle
      <3>2. ~reg[e].verified /\ ~reg[e].submitted /\ ~Exists(e)
        BY <1>0, <2>2, <3>1
           DEF RowInv, RowOK, Safety, CompletedIffAccount
      <3>3. RowInv' /\ TablesGrow
        BY <1>0, <1>3, <3>1, <3>2
           DEF InsertRequest, RowInv, RowOK, TablesGrow, RowsGrow, TypeOK, NewRow, NoRow, Exists
      <3>4. CompletedIffAccount'
        BY <1>0, <1>3, <3>1, <3>2
           DEF InsertRequest, Safety, CompletedIffAccount, TypeOK, NewRow, NoRow, Exists
      <3>5. UserInv' /\ Safety'
        BY <1>0, <1>3, <3>3, <3>4
           DEF InsertRequest, UserInv, TablesGrow, RowsGrow, Safety, AnnouncedOnce,
               LoginMissingOnlyByConflict, HasLogin, SignedInIsAdmin, Exists
      <3>6. OthersKeep(p) /\ call'[p] = [call[p] EXCEPT !.pc = "mail"] /\ call[p] \in Call
        BY <1>0, <3>1, GotoEffect DEF Pcs, TypeOK
      <3>7. ~At(p, "notify")' /\ CallOK(call[p])'
        BY <3>6 DEF CallOK, At, Call
      <3> QED
        BY <1>0, <3>3, <3>5, <3>6, <3>7, CallInvKept, OneNotifiesKept DEF IInv
    <2> QED
      BY <2>1, <2>2
  <1>4. ASSUME NEW p \in Calls, SendVerification(p)
       PROVE  IInv'
    <2>1. TablesGrow /\ RowInv' /\ UserInv' /\ Safety'
      BY <1>0, <1>4, TablesKept DEF SendVerification
    <2>2. OthersKeep(p) /\ ~At(p, "notify")' /\ CallOK(call[p])'
      BY <1>0, <1>4, ReturnEffect
         DEF SendVerification, CallOK, At, NoCall
    <2> QED
      BY <1>0, <2>1, <2>2, CallInvKept, OneNotifiesKept DEF IInv
  <1>5. ASSUME NEW p \in Calls, StoreChallenge(p)
       PROVE  IInv'
    <2> PICK e : e = call[p].req
      OBVIOUS
    <2>1. e \in Emails /\ reg[e].verified /\ e \in linked
      BY <1>0, <1>5 DEF StoreChallenge, CallsServe, CallInv, CallOK, At, Idle
    <2>2. /\ \A x \in Emails : /\ x # e => reg'[x] = reg[x]
                               /\ reg'[x].status = reg[x].status
                               /\ reg'[x].fresh = reg[x].fresh
                               /\ reg'[x].verified = reg[x].verified
          /\ reg'[e] = [reg[e] EXCEPT !.challenge = call[p].cred]
      BY <1>0, <1>5, <2>1 DEF StoreChallenge, TypeOK, Row
    <2>3. RowInv' /\ RowsGrow
      BY <1>0, <1>5, <2>1, <2>2 DEF StoreChallenge, RowInv, RowOK, RowsGrow, Matches, TypeOK, Row
    <2>4. TablesGrow /\ UserInv' /\ Safety'
      BY <1>0, <1>5, <2>2, <2>3, RowWrittenKept DEF StoreChallenge
    <2>5. OthersKeep(p) /\ call'[p].pc \in {"approve", "idle"}
      BY <1>0, <1>5, ReturnEffect DEF StoreChallenge, NoCall
    <2>6. ~At(p, "notify")' /\ CallOK(call[p])'
      BY <2>5 DEF CallOK, At
    <2> QED
      BY <1>0, <2>3, <2>4, <2>5, <2>6, CallInvKept, OneNotifiesKept DEF IInv
  <1>6. ASSUME NEW p \in Calls, StoreCredential(p)
       PROVE  IInv'
    <2> PICK e : e = call[p].req
      OBVIOUS
    <2>1. e \in Emails /\ reg[e].verified /\ e \in linked /\ call[p].cred # None
      BY <1>0, <1>6 DEF StoreCredential, CallsServe, CallInv, CallOK, At, Idle
    <2>2. /\ \A x \in Emails : /\ x # e => reg'[x] = reg[x]
                               /\ reg'[x].status = reg[x].status
                               /\ reg'[x].fresh = reg[x].fresh
                               /\ reg'[x].verified = reg[x].verified
          /\ reg'[e] = [reg[e] EXCEPT !.credential = call[p].cred, !.submitted = TRUE]
      BY <1>0, <1>6, <2>1 DEF StoreCredential, TypeOK, Row
    <2>3. RowInv' /\ RowsGrow
      <3>0. linked' = linked
        BY <1>6 DEF StoreCredential
      <3>1. /\ reg'[e].submitted
            /\ reg'[e].credential = call[p].cred /\ reg'[e].provider = reg[e].provider
            /\ reg'[e].sub = reg[e].sub
        BY <1>0, <2>1, <2>2 DEF TypeOK, Row
      <3>2. RowOK(e)'
        BY <1>0, <2>1, <2>2, <3>0, <3>1 DEF RowInv, RowOK, Matches
      <3>3. \A x \in Emails : x # e => RowOK(x)'
        BY <1>0, <2>2, <3>0 DEF RowInv, RowOK, Matches
      <3> QED
        BY <2>2, <3>1, <3>2, <3>3 DEF RowInv, RowsGrow
    <2>4. TablesGrow /\ UserInv' /\ Safety'
      BY <1>0, <1>6, <2>2, <2>3, RowWrittenKept DEF StoreCredential
    <2>5. OthersKeep(p) /\ call'[p].pc \in {"approve", "idle"}
      BY <1>0, <1>6, AutoApproveEffect DEF StoreCredential, At, Idle
    <2>6. ~At(p, "notify")' /\ CallOK(call[p])'
      BY <2>5 DEF CallOK, At
    <2> QED
      BY <1>0, <2>3, <2>4, <2>5, <2>6, CallInvKept, OneNotifiesKept DEF IInv
  <1>7. ASSUME NEW p \in Calls, StoreFreja(p)
       PROVE  IInv'
    <2> PICK e : e = call[p].req
      OBVIOUS
    <2>1. e \in Emails /\ reg[e].verified /\ e \in linked /\ Matches(call[p].sub, e)
      BY <1>0, <1>7 DEF StoreFreja, CallsServe, CallInv, CallOK, At, Idle
    <2>2. /\ \A x \in Emails : /\ x # e => reg'[x] = reg[x]
                               /\ reg'[x].status = reg[x].status
                               /\ reg'[x].fresh = reg[x].fresh
                               /\ reg'[x].verified = reg[x].verified
          /\ reg'[e] = [reg[e] EXCEPT !.provider = "freja", !.sub = call[p].sub, !.submitted = TRUE]
      BY <1>0, <1>7, <2>1 DEF StoreFreja, TypeOK, Row
    <2>3. RowInv' /\ RowsGrow
      <3>0. linked' = linked
        BY <1>7 DEF StoreFreja
      <3>1. /\ reg'[e].submitted
            /\ Matches(reg'[e].sub, e) /\ reg'[e].provider = "freja"
        BY <1>0, <2>1, <2>2 DEF TypeOK, Row
      <3>2. RowOK(e)'
        BY <1>0, <2>1, <2>2, <3>0, <3>1 DEF RowInv, RowOK, Matches
      <3>3. \A x \in Emails : x # e => RowOK(x)'
        BY <1>0, <2>2, <3>0 DEF RowInv, RowOK, Matches
      <3> QED
        BY <2>2, <3>1, <3>2, <3>3 DEF RowInv, RowsGrow
    <2>4. TablesGrow /\ UserInv' /\ Safety'
      BY <1>0, <1>7, <2>2, <2>3, RowWrittenKept DEF StoreFreja
    <2>5. OthersKeep(p) /\ call'[p].pc \in {"approve", "idle"}
      BY <1>0, <1>7, AutoApproveEffect DEF StoreFreja, At, Idle
    <2>6. ~At(p, "notify")' /\ CallOK(call[p])'
      BY <2>5 DEF CallOK, At
    <2> QED
      BY <1>0, <2>3, <2>4, <2>5, <2>6, CallInvKept, OneNotifiesKept DEF IInv
  <1>8. ASSUME NEW p \in Calls, ReadPending(p)
       PROVE  IInv'
    <2>1. TablesGrow /\ RowInv' /\ UserInv' /\ Safety'
      BY <1>0, <1>8, TablesKept DEF ReadPending
    <2>2. OthersKeep(p) /\ ~At(p, "notify")' /\ CallOK(call[p])'
      BY <1>0, <1>8, ReturnEffect, ApproveEffect
         DEF ReadPending, CallOK, At, Idle, NoCall, RowInv, RowOK, CallsServe, TypeOK, Call
    <2> QED
      BY <1>0, <2>1, <2>2, CallInvKept, OneNotifiesKept DEF IInv
  <1>9. ASSUME NEW p \in Calls, Commit(p)
       PROVE  IInv'
    <2>0. call[p].req \in Emails /\ call[p] \in Call /\ ~Idle(p) /\ call[p].pc = "tx"
      BY <1>0, <1>9 DEF Commit, CallsServe, TypeOK, At, Idle
    <2> PICK e \in Emails : e = call[p].req
      BY <2>0
    <2> PICK s : s = call[p].sub
      OBVIOUS
    <2>1. e \in Emails /\ call[p] \in Call /\ ~Idle(p) /\ call[p].pc = "tx"
      BY <2>0
    <2>2. /\ ~Exists(e)
          /\ reg' = [reg EXCEPT ![e].status = "completed"]
          /\ users' = [users EXCEPT ![e] = [username |-> e, role |-> "passive"]]
      BY <1>9 DEF Commit, SendApprovalPasskey, SendApprovalFreja,
                  InsertableUser, InsertUser, MarkCompleted
    <2>3. created[e] = 0 /\ e \notin sessions /\ users[e].role # "admin"
      BY <1>0, <2>1, <2>2 DEF Safety, AnnouncedOnce, SignedInIsAdmin, UserInv, TypeOK
    <2>4. reg[e].submitted
      BY <1>0, <1>9, <2>1
         DEF Commit, SendApprovalPasskey, SendApprovalFreja, CallInv, CallOK
    <2>5. /\ Exists(e)' /\ users'[e].role = "passive" /\ reg'[e].status = "completed"
          /\ \A x \in Emails : x # e => users'[x] = users[x] /\ reg'[x] = reg[x]
          /\ \A x \in Emails : /\ reg'[x].verified = reg[x].verified
                               /\ reg'[x].submitted = reg[x].submitted
                               /\ reg'[x].fresh = reg[x].fresh
                               /\ reg'[x].credential = reg[x].credential
                               /\ reg'[x].provider = reg[x].provider
                               /\ reg'[x].sub = reg[x].sub
      BY <1>0, <2>1, <2>2, EmailsAssumption, NoneAssumption DEF TypeOK, Row, Exists
    <2>6. TablesGrow
      BY <1>0, <1>9, <2>1, <2>3, <2>5 DEF Commit, TablesGrow, RowsGrow, Exists
    <2>7. RowInv' /\ UserInv'
      BY <1>0, <1>9, <2>1, <2>4, <2>5 DEF Commit, RowInv, RowOK, UserInv, Exists
    <2>8. CompletedIffAccount' /\ AnnouncedOnce' /\ SignedInIsAdmin'
      BY <1>0, <1>9, <2>1, <2>3, <2>5
         DEF Commit, Safety, CompletedIffAccount, AnnouncedOnce, SignedInIsAdmin, TypeOK, Exists
    <2>9. LoginMissingOnlyByConflict'
      <3>1. creds \subseteq creds' /\ identities \subseteq identities'
        BY <1>9 DEF Commit, SendApprovalPasskey, SendApprovalFreja
      <3>2. HasLogin(e)' \/ \E i \in identities : i.user # e /\ Matches(i.sub, e)
        <4>1. CASE SendApprovalPasskey(p)
          <5>1. [user |-> e, cred |-> call[p].cred] \in creds'
            BY <4>1 DEF SendApprovalPasskey
          <5> QED
            BY <5>1 DEF HasLogin
        <4>2. CASE SendApprovalFreja(p) /\ \A i \in identities : i.sub # s
          <5>1. [user |-> e, sub |-> s] \in identities'
            BY <4>2 DEF SendApprovalFreja
          <5> QED
            BY <5>1 DEF HasLogin
        <4>3. CASE SendApprovalFreja(p) /\ \E i \in identities : i.sub = s
          <5>1. Matches(s, e)
            BY <1>0, <2>1, <4>3 DEF SendApprovalFreja, CallInv, CallOK
          <5>2. PICK i \in identities : i.sub = s
            BY <4>3
          <5>3. CASE i.user = e
            BY <3>1, <5>2, <5>3 DEF HasLogin
          <5>4. CASE i.user # e
            BY <5>1, <5>2, <5>4
          <5> QED
            BY <5>3, <5>4
        <4> QED
          BY <1>9, <4>1, <4>2, <4>3 DEF Commit
      <3> QED
        BY <1>0, <2>1, <2>5, <3>1, <3>2
           DEF Safety, LoginMissingOnlyByConflict, HasLogin, Matches, Exists
    <2>10. OthersKeep(p) /\ call'[p] = [call[p] EXCEPT !.pc = "notify"]
      BY <1>0, <1>9, <2>1, GotoEffect DEF Commit, Pcs
    <2>11. CallOK(call[p])'
      BY <1>9, <2>1, <2>3, <2>5, <2>10 DEF Commit, CallOK, Call
    <2>12. \A q \in Calls \ {p} : call[q].pc = "notify" => call[q].req # e
      BY <1>0, <2>2 DEF CallInv, CallOK
    <2>13. OneNotifies'
      BY <1>0, <2>1, <2>10, <2>12 DEF OneNotifies, OthersKeep, At, Call
    <2> QED
      BY <1>0, <2>6, <2>7, <2>8, <2>9, <2>10, <2>11, <2>13, CallInvKept DEF IInv, Safety
  <1>10. ASSUME NEW p \in Calls, Rollback(p)
       PROVE  IInv'
    <2>1. TablesGrow /\ RowInv' /\ UserInv' /\ Safety'
      BY <1>0, <1>10, TablesKept DEF Rollback
    <2>2. OthersKeep(p) /\ ~At(p, "notify")' /\ CallOK(call[p])'
      BY <1>0, <1>10, ReturnEffect
         DEF Rollback, CallOK, At, NoCall
    <2> QED
      BY <1>0, <2>1, <2>2, CallInvKept, OneNotifiesKept DEF IInv
  <1>11. ASSUME NEW p \in Calls, Notify(p)
       PROVE  IInv'
    <2> PICK e : e = call[p].req
      OBVIOUS
    <2>1. /\ e \in Emails /\ call[p] \in Call /\ ~Idle(p) /\ call[p].pc = "notify"
          /\ Exists(e) /\ created[e] = 0
      BY <1>0, <1>11 DEF Notify, CallsServe, CallInv, CallOK, TypeOK, At, Idle
    <2>2. created' = [created EXCEPT ![e] = 1]
      BY <1>11, <2>1 DEF Notify
    <2>3. OthersKeep(p) /\ call'[p] \in {NoCall, [call[p] EXCEPT !.pc = "promote"]}
      BY <1>0, <1>11, <2>1, ReturnEffect, GotoEffect DEF Notify, Pcs
    <2>4. \A q \in Calls \ {p} : call[q].pc = "notify" => call[q].req # e
      BY <1>0, <2>1 DEF OneNotifies, At
    <2>5. CallInv' /\ OneNotifies'
      <3>1. \A q \in Calls \ {p} : CallOK(call[q])'
        BY <1>0, <1>11, <2>1, <2>2, <2>3, <2>4
           DEF Notify, CallInv, CallOK, OthersKeep, CallsServe, Idle, TypeOK, Exists
      <3>2. CallOK(call[p])' /\ ~At(p, "notify")'
        BY <1>11, <2>1, <2>3 DEF Notify, CallOK, At, NoCall, Call, Exists
      <3> QED
        BY <1>0, <2>3, <3>1, <3>2, OneNotifiesKept DEF CallInv
    <2>6. RowInv' /\ UserInv'
      BY <1>0, <1>11 DEF Notify, RowInv, RowOK, UserInv, Exists
    <2>7. AnnouncedOnce'
      BY <1>0, <1>11, <2>1, <2>2 DEF Notify, Safety, AnnouncedOnce, TypeOK, Exists
    <2>8. Safety'
      BY <1>0, <1>11, <2>7
         DEF Notify, Safety, CompletedIffAccount, LoginMissingOnlyByConflict, HasLogin,
             SignedInIsAdmin, Exists
    <2> QED
      BY <1>0, <2>5, <2>6, <2>8 DEF IInv
  <1>12. ASSUME NEW p \in Calls, Promote(p)
       PROVE  IInv'
    <2> PICK e : e = call[p].req
      OBVIOUS
    <2>1. e \in Emails /\ call[p] \in Call /\ ~Idle(p) /\ call[p].pc = "promote" /\ Exists(e)
      BY <1>0, <1>12 DEF Promote, CallsServe, CallInv, CallOK, TypeOK, At, Idle
    <2>2. /\ users'[e].role = "admin"
          /\ \A x \in Emails : /\ users'[x].username = users[x].username
                               /\ x # e => users'[x] = users[x]
      BY <1>0, <1>12, <2>1 DEF Promote, TypeOK, User
    <2>3. TablesGrow /\ RowInv' /\ UserInv'
      BY <1>0, <1>12, <2>1, <2>2
         DEF Promote, TablesGrow, RowsGrow, RowInv, RowOK, UserInv, Exists
    <2>4. Safety'
      BY <1>0, <1>12, <2>2
         DEF Promote, Safety, CompletedIffAccount, AnnouncedOnce,
             LoginMissingOnlyByConflict, HasLogin, SignedInIsAdmin, Exists, TypeOK
    <2>5. OthersKeep(p) /\ call'[p] \in {NoCall, [call[p] EXCEPT !.pc = "session"]}
      BY <1>0, <1>12, <2>1, ReturnEffect, GotoEffect DEF Promote, Pcs
    <2>6. /\ call'[p].pc \in {"idle", "session"}
          /\ call'[p].pc = "session" => call'[p].req = e
      BY <2>1, <2>5 DEF NoCall, Call
    <2>7. users'[e].username # None /\ users'[e].role = "admin"
      BY <2>1, <2>2 DEF Exists
    <2>8. ~At(p, "notify")' /\ CallOK(call[p])'
      BY <2>6, <2>7 DEF CallOK, At, Exists
    <2> QED
      BY <1>0, <2>3, <2>4, <2>5, <2>8, CallInvKept, OneNotifiesKept DEF IInv
  <1>13. ASSUME NEW p \in Calls, CreateSession(p)
       PROVE  IInv'
    <2>1. TablesGrow /\ RowInv' /\ UserInv'
      BY <1>0, <1>13 DEF CreateSession, TablesGrow, RowsGrow, RowInv, RowOK, UserInv, Exists
    <2>2. Safety'
      BY <1>0, <1>13
         DEF CreateSession, At, CallInv, CallOK, Safety, CompletedIffAccount, AnnouncedOnce,
             LoginMissingOnlyByConflict, HasLogin, SignedInIsAdmin, Exists
    <2>3. OthersKeep(p) /\ ~At(p, "notify")' /\ CallOK(call[p])'
      BY <1>0, <1>13, ReturnEffect DEF CreateSession, CallOK, At, NoCall
    <2> QED
      BY <1>0, <2>1, <2>2, <2>3, CallInvKept, OneNotifiesKept DEF IInv
  <1>14. ASSUME NEW p \in Calls, Disconnect(p)
       PROVE  IInv'
    <2>1. TablesGrow /\ RowInv' /\ UserInv' /\ Safety'
      BY <1>0, <1>14, TablesKept DEF Disconnect
    <2>2. OthersKeep(p) /\ ~At(p, "notify")' /\ CallOK(call[p])'
      BY <1>0, <1>14, ReturnEffect
         DEF Disconnect, CallOK, At, NoCall
    <2> QED
      BY <1>0, <2>1, <2>2, CallInvKept, OneNotifiesKept DEF IInv
  <1>15. ASSUME NEW p \in Calls, NEW e \in Emails, SubmitRequest(p, e)
       PROVE  IInv'
    <2> DEFINE c == [NoCall EXCEPT !.pc = "exists", !.req = e]
    <2>1. TablesGrow /\ RowInv' /\ UserInv' /\ Safety'
      BY <1>0, <1>15, TablesKept DEF SubmitRequest
    <2>2. c \in Call /\ CallOK(c) /\ c.pc # "notify" /\ c.req \in Emails
      BY <1>0, <1>15 DEF SubmitRequest, CallOK, NoCall, Call, Pcs
    <2>3. Serve(p, c)
      BY <1>15 DEF SubmitRequest
    <2> HIDE DEF c
    <2>4. OthersKeep(p) /\ call'[p] = c
      BY <1>0, <2>2, <2>3, ServeEffect
    <2>5. CallOK(call[p])' /\ ~At(p, "notify")'
      BY <1>15, <2>2, <2>4 DEF SubmitRequest, CallOK, At, Exists
    <2> QED
      BY <1>0, <2>1, <2>4, <2>5, CallInvKept, OneNotifiesKept DEF IInv
  <1>16. ASSUME NEW p \in Calls, NEW e \in Emails, FinishRegisterPasskey(p, e)
       PROVE  IInv'
    <2> DEFINE c == [NoCall EXCEPT !.pc = "credential", !.req = e, !.cred = reg[e].challenge]
    <2>1. TablesGrow /\ RowInv' /\ UserInv' /\ Safety'
      BY <1>0, <1>16, TablesKept DEF FinishRegisterPasskey
    <2>2. c \in Call /\ CallOK(c) /\ c.pc # "notify" /\ c.req \in Emails
      BY <1>0, <1>16 DEF FinishRegisterPasskey, CallOK, NoCall, Call, Pcs, SetupOpen, TypeOK, Row
    <2>3. Serve(p, c)
      BY <1>16 DEF FinishRegisterPasskey
    <2> HIDE DEF c
    <2>4. OthersKeep(p) /\ call'[p] = c
      BY <1>0, <2>2, <2>3, ServeEffect
    <2>5. CallOK(call[p])' /\ ~At(p, "notify")'
      BY <1>16, <2>2, <2>4 DEF FinishRegisterPasskey, CallOK, At, Exists
    <2> QED
      BY <1>0, <2>1, <2>4, <2>5, CallInvKept, OneNotifiesKept DEF IInv
  <1>17. ASSUME NEW p \in Calls, NEW e \in Emails, ApproveRegistration(p, e)
       PROVE  IInv'
    <2>1. TablesGrow /\ RowInv' /\ UserInv' /\ Safety'
      BY <1>0, <1>17, TablesKept DEF ApproveRegistration
    <2>2. /\ OthersKeep(p)
          /\ call'[p] = [pc |-> "tx", req |-> e, cred |-> reg[e].credential,
                         sub |-> reg[e].sub, provider |-> reg[e].provider, by |-> "admin"]
      BY <1>0, <1>17, ApproveEffect DEF ApproveRegistration
    <2>3. ~At(p, "notify")' /\ CallOK(call[p])'
      BY <1>0, <1>17, <2>2 DEF ApproveRegistration, CallOK, At, RowInv, RowOK, Matches
    <2> QED
      BY <1>0, <2>1, <2>2, <2>3, CallInvKept, OneNotifiesKept DEF IInv
  <1>18. ASSUME NEW p \in Calls, NEW e \in Emails, NEW k \in Creds, BeginRegisterPasskey(p, e, k)
       PROVE  IInv'
    <2> DEFINE c == [NoCall EXCEPT !.pc = "challenge", !.req = e, !.cred = k]
    <2>1. TablesGrow /\ RowInv' /\ UserInv' /\ Safety'
      BY <1>0, <1>18, TablesKept DEF BeginRegisterPasskey
    <2>2. c \in Call /\ CallOK(c) /\ c.pc # "notify" /\ c.req \in Emails
      BY <1>0, <1>18 DEF BeginRegisterPasskey, CallOK, NoCall, Call, Pcs, SetupOpen
    <2>3. Serve(p, c)
      BY <1>18 DEF BeginRegisterPasskey
    <2> HIDE DEF c
    <2>4. OthersKeep(p) /\ call'[p] = c
      BY <1>0, <2>2, <2>3, ServeEffect
    <2>5. CallOK(call[p])' /\ ~At(p, "notify")'
      BY <1>18, <2>2, <2>4 DEF BeginRegisterPasskey, CallOK, At, Exists
    <2> QED
      BY <1>0, <2>1, <2>4, <2>5, CallInvKept, OneNotifiesKept DEF IInv
  <1>19. ASSUME NEW p \in Calls, NEW e \in Emails, NEW s \in Subs, FrejaRegister(p, e, s)
       PROVE  IInv'
    <2> DEFINE c == [NoCall EXCEPT !.pc = "provider", !.req = e, !.sub = s]
    <2>1. TablesGrow /\ RowInv' /\ UserInv' /\ Safety'
      BY <1>0, <1>19, TablesKept DEF FrejaRegister
    <2>2. c \in Call /\ CallOK(c) /\ c.pc # "notify" /\ c.req \in Emails
      BY <1>0, <1>19 DEF FrejaRegister, CallOK, NoCall, Call, Pcs, SetupOpen, Matches
    <2>3. Serve(p, c)
      BY <1>19 DEF FrejaRegister
    <2> HIDE DEF c
    <2>4. OthersKeep(p) /\ call'[p] = c
      BY <1>0, <2>2, <2>3, ServeEffect
    <2>5. CallOK(call[p])' /\ ~At(p, "notify")'
      BY <1>19, <2>2, <2>4 DEF FrejaRegister, CallOK, At, Exists
    <2> QED
      BY <1>0, <2>1, <2>4, <2>5, CallInvKept, OneNotifiesKept DEF IInv
  <1>20. ASSUME NEW e \in Emails, VerifyEmail(e)
       PROVE  IInv'
    <2>1. RowInv' /\ RowsGrow /\ (\A x \in Emails : reg'[x].status = reg[x].status)
      BY <1>0, <1>20
         DEF VerifyEmail, RowInv, RowOK, RowsGrow, TypeOK, Row
    <2>2. TablesGrow /\ UserInv' /\ Safety'
      BY <1>0, <1>20, <2>1, RowWrittenKept DEF VerifyEmail
    <2>3. CallInv' /\ OneNotifies'
      BY <1>0, <1>20, <2>2, CallKept DEF VerifyEmail, CallInv, OneNotifies, At
    <2> QED
      BY <1>0, <2>1, <2>2, <2>3 DEF IInv
  <1>21. ASSUME NEW e \in Emails, RejectRegistration(e)
       PROVE  IInv'
    <2>1. RowInv' /\ TablesGrow
      BY <1>0, <1>21
         DEF RejectRegistration, RowInv, RowOK, TablesGrow, RowsGrow, TypeOK, Row, Exists
    <2>2. CompletedIffAccount'
      BY <1>0, <1>21
         DEF RejectRegistration, Safety, CompletedIffAccount, TypeOK, Row, Exists
    <2>3. UserInv' /\ Safety'
      BY <1>0, <1>21, <2>1, <2>2
         DEF RejectRegistration, UserInv, TablesGrow, RowsGrow, Safety, AnnouncedOnce,
             LoginMissingOnlyByConflict, HasLogin, SignedInIsAdmin, Exists
    <2>4. CallInv' /\ OneNotifies'
      BY <1>0, <1>21, <2>1, CallKept DEF RejectRegistration, CallInv, OneNotifies, At
    <2> QED
      BY <1>0, <2>1, <2>3, <2>4 DEF IInv
  <1>22. ASSUME NEW e \in Emails, ExpireEmailToken(e)
       PROVE  IInv'
    <2>1. RowInv' /\ RowsGrow /\ (\A x \in Emails : reg'[x].status = reg[x].status)
      BY <1>0, <1>22
         DEF ExpireEmailToken, RowInv, RowOK, RowsGrow, TypeOK, Row
    <2>2. TablesGrow /\ UserInv' /\ Safety'
      BY <1>0, <1>22, <2>1, RowWrittenKept DEF ExpireEmailToken
    <2>3. CallInv' /\ OneNotifies'
      BY <1>0, <1>22, <2>2, CallKept DEF ExpireEmailToken, CallInv, OneNotifies, At
    <2> QED
      BY <1>0, <2>1, <2>2, <2>3 DEF IInv
  <1>23. ASSUME NEW e \in Emails, ExpireSetupToken(e)
       PROVE  IInv'
    <2>1. RowInv' /\ RowsGrow /\ (\A x \in Emails : reg'[x].status = reg[x].status)
      BY <1>0, <1>23
         DEF ExpireSetupToken, RowInv, RowOK, RowsGrow, TypeOK, Row, SetupOpen
    <2>2. TablesGrow /\ UserInv' /\ Safety'
      BY <1>0, <1>23, <2>1, RowWrittenKept DEF ExpireSetupToken
    <2>3. CallInv' /\ OneNotifies'
      BY <1>0, <1>23, <2>2, CallKept DEF ExpireSetupToken, CallInv, OneNotifies, At
    <2> QED
      BY <1>0, <2>1, <2>2, <2>3 DEF IInv
  <1>24. ASSUME NEW e \in Emails, NEW a \in Addresses, ChangeUsername(e, a)
       PROVE  IInv'
    <2>1. \A x \in Emails : /\ users'[x].role = users[x].role
                           /\ Exists(x)' <=> Exists(x)
      BY <1>0, <1>24, NoneAssumption DEF ChangeUsername, TypeOK, User, Exists
    <2>2. TablesGrow /\ RowInv' /\ UserInv'
      BY <1>0, <1>24, <2>1
         DEF ChangeUsername, TablesGrow, RowsGrow, RowInv, RowOK, UserInv
    <2>3. Safety'
      BY <1>0, <1>24, <2>1
         DEF ChangeUsername, Safety, CompletedIffAccount, AnnouncedOnce,
             LoginMissingOnlyByConflict, HasLogin, SignedInIsAdmin, TypeOK
    <2>4. CallInv' /\ OneNotifies'
      BY <1>0, <1>24, <2>2, CallKept DEF ChangeUsername, CallInv, OneNotifies, At
    <2> QED
      BY <1>0, <2>2, <2>3, <2>4 DEF IInv
  <1>25. CASE UNCHANGED vars
    <2>1. TablesGrow /\ RowInv' /\ UserInv' /\ Safety'
      BY <1>0, <1>25, TablesKept DEF vars
    <2>2. CallInv' /\ OneNotifies'
      BY <1>0, <1>25, <2>1, CallKept DEF vars, CallInv, OneNotifies, At
    <2> QED
      BY <1>0, <2>1, <2>2 DEF IInv
  <1> QED
    BY <1>1, <1>2, <1>3, <1>4, <1>5, <1>6, <1>7, <1>8, <1>9, <1>10, <1>11, <1>12, <1>13, <1>14, <1>15, <1>16, <1>17, <1>18, <1>19, <1>20, <1>21, <1>22, <1>23, <1>24, <1>25 DEF Next, Handle

-----------------------------------------------------------------------------
(* The safety properties. *)

LEMMA Invariant == Spec => []IInv
  BY InvInit, InvStep, PTL DEF Spec

LEMMA ProofFromInv == IInv => AccountOnlyAfterProof
  BY DEF IInv, UserInv, RowInv, RowOK, AccountOnlyAfterProof

\* The values of all variables keep their types.
THEOREM TypeCorrect == Spec => []TypeOK
  <1>1. IInv => TypeOK
    BY DEF IInv
  <1> QED
    BY <1>1, Invariant, PTL

\* A request is completed exactly when its account exists, whatever approvals,
\* rejections, late submissions and crashes interleave.
THEOREM StatusMatchesAccounts == Spec => []CompletedIffAccount
  <1>1. IInv => CompletedIffAccount
    BY DEF IInv, Safety
  <1> QED
    BY <1>1, Invariant, PTL

\* However many approvals of a request run at once, OnUserCreated is called at
\* most once for its account, and not before the account exists.
THEOREM AccountsAnnouncedOnce == Spec => []AnnouncedOnce
  <1>1. IInv => AnnouncedOnce
    BY DEF IInv, Safety
  <1> QED
    BY <1>1, Invariant, PTL

\* An account's owner has read the verification mail, received the set-up link
\* and submitted a credential, although the approval checks none of the three.
THEOREM AccountsAreProved == Spec => []AccountOnlyAfterProof
  BY ProofFromInv, Invariant, PTL

\* An account without a way to sign in is a Freja account whose subject another
\* account already holds.
THEOREM AccountsCanSignIn == Spec => []LoginMissingOnlyByConflict
  <1>1. IInv => LoginMissingOnlyByConflict
    BY DEF IInv, Safety
  <1> QED
    BY <1>1, Invariant, PTL

\* The browser an automatic approval signs in finds the account promoted.
THEOREM AutoApprovedSessionIsAdmin == Spec => []SignedInIsAdmin
  <1>1. IInv => SignedInIsAdmin
    BY DEF IInv, Safety
  <1> QED
    BY <1>1, Invariant, PTL

-----------------------------------------------------------------------------
(* A rejection that no approval has overtaken is final. *)

Rejected(e) == reg[e].status = "rejected" /\ ~ApprovalInFlight(e)

\* Requests that are not, or are no longer, between SELECT and transaction.
LEMMA NotInFlight ==
  ASSUME NEW e \in Emails, ~ApprovalInFlight(e), NEW p \in Calls, OthersKeep(p),
         ~(At(p, "tx") /\ call[p].req = e)'
  PROVE  ~ApprovalInFlight(e)'
  BY DEF ApprovalInFlight, OthersKeep, At

LEMMA RejectionStep ==
  ASSUME IInv, [Next]_vars, NEW e \in Emails, Rejected(e)
  PROVE  Rejected(e)'
  <1>0. /\ TypeOK /\ CallsServe
        /\ reg[e].status = "rejected" /\ ~ApprovalInFlight(e) /\ reg[e] \in Row
    BY DEF IInv, TypeOK, Rejected
  <1>1. ASSUME NEW p \in Calls, Commit(p) PROVE Rejected(e)'
    <2>1. call[p].req \in Emails /\ call[p].req # e /\ call[p] \in Call
      BY <1>0, <1>1 DEF Commit, CallsServe, At, Idle, ApprovalInFlight, TypeOK
    <2>2. reg'[e] = reg[e]
      BY <1>0, <1>1, <2>1
         DEF Commit, SendApprovalPasskey, SendApprovalFreja, MarkCompleted, TypeOK
    <2>3. OthersKeep(p) /\ call'[p] = [call[p] EXCEPT !.pc = "notify"]
      BY <1>0, <1>1, GotoEffect DEF Commit, At, Idle, Pcs
    <2>4. ~At(p, "tx")'
      BY <2>1, <2>3 DEF At, Call
    <2> QED
      BY <1>0, <2>2, <2>3, <2>4, NotInFlight DEF Rejected
  <1>2. ASSUME NEW p \in Calls, ReadPending(p) PROVE Rejected(e)'
    <2>1. CASE reg[call[p].req].status # "pending" /\ Return(p)
      BY <1>0, <1>2, <2>1, ReturnEffect, NotInFlight DEF ReadPending, Rejected, At
    <2>2. CASE Approve(p, call[p].req, call[p].by)
      <3>1. /\ call[p].req \in Emails /\ call[p].req # e
            /\ call[p].by \in {"admin", "passkey", "freja"}
        BY <1>0, <1>2, <2>2, CallFields
           DEF ReadPending, Approve, CallsServe, At, Idle, TypeOK
      <3>2. PICK f \in Emails, b \in {"admin", "passkey", "freja"} :
              f = call[p].req /\ b = call[p].by
        BY <3>1
      <3>3. Approve(p, f, b)
        BY <2>2, <3>2
      <3>4. OthersKeep(p) /\ call'[p].req = call[p].req
        BY <1>0, <3>2, <3>3, ApprovalServes
      <3> QED
        BY <1>0, <1>2, <3>1, <3>4, NotInFlight DEF ReadPending, Rejected
    <2> QED
      BY <1>2, <2>1, <2>2 DEF ReadPending
  <1>3. ASSUME NEW p \in Calls, NEW f \in Emails, ApproveRegistration(p, f)
        PROVE  Rejected(e)'
    <2>1. f # e
      BY <1>0, <1>3 DEF ApproveRegistration, Approve
    <2>2. OthersKeep(p) /\ call'[p].req = f
      BY <1>0, <1>3, ApprovalServes DEF ApproveRegistration
    <2> QED
      BY <1>0, <1>3, <2>1, <2>2, NotInFlight DEF ApproveRegistration, Rejected
  <1>4. ASSUME NEW p \in Calls, CheckExisting(p)
        PROVE  Rejected(e)'
    <2>1. OthersKeep(p) /\ ~At(p, "tx")'
      BY <1>0, <1>4, ReturnEffect, GotoEffect
         DEF CheckExisting, At, Idle, Pcs
    <2> QED
      BY <1>0, <1>4, <2>1, NotInFlight DEF CheckExisting, Rejected
  <1>5. ASSUME NEW p \in Calls, InsertRequest(p)
        PROVE  Rejected(e)'
    <2>1. OthersKeep(p) /\ ~At(p, "tx")'
      BY <1>0, <1>5, ReturnEffect, GotoEffect
         DEF InsertRequest, At, Idle, Pcs
    <2>2. reg'[e].status = "rejected"
      BY <1>0, <1>5 DEF InsertRequest, TypeOK, Row, CallsServe, At, Idle
    <2> QED
      BY <1>0, <2>1, <2>2, NotInFlight DEF Rejected
  <1>6. ASSUME NEW p \in Calls, SendVerification(p)
        PROVE  Rejected(e)'
    <2>1. OthersKeep(p) /\ ~At(p, "tx")'
      BY <1>0, <1>6, ReturnEffect DEF SendVerification, At
    <2> QED
      BY <1>0, <1>6, <2>1, NotInFlight DEF SendVerification, Rejected
  <1>7. ASSUME NEW p \in Calls, StoreChallenge(p)
        PROVE  Rejected(e)'
    <2>1. OthersKeep(p) /\ ~At(p, "tx")'
      BY <1>0, <1>7, ReturnEffect DEF StoreChallenge, At
    <2>2. reg'[e].status = "rejected"
      BY <1>0, <1>7 DEF StoreChallenge, TypeOK, Row, CallsServe, At, Idle
    <2> QED
      BY <1>0, <2>1, <2>2, NotInFlight DEF Rejected
  <1>8. ASSUME NEW p \in Calls, StoreCredential(p)
        PROVE  Rejected(e)'
    <2>1. OthersKeep(p) /\ ~At(p, "tx")'
      BY <1>0, <1>8, AutoApproveEffect
         DEF StoreCredential, At, Idle
    <2>2. reg'[e].status = "rejected"
      BY <1>0, <1>8 DEF StoreCredential, TypeOK, Row, CallsServe, At, Idle
    <2> QED
      BY <1>0, <2>1, <2>2, NotInFlight DEF Rejected
  <1>9. ASSUME NEW p \in Calls, StoreFreja(p)
        PROVE  Rejected(e)'
    <2>1. OthersKeep(p) /\ ~At(p, "tx")'
      BY <1>0, <1>9, AutoApproveEffect
         DEF StoreFreja, At, Idle
    <2>2. reg'[e].status = "rejected"
      BY <1>0, <1>9 DEF StoreFreja, TypeOK, Row, CallsServe, At, Idle
    <2> QED
      BY <1>0, <2>1, <2>2, NotInFlight DEF Rejected
  <1>10. ASSUME NEW p \in Calls, Rollback(p)
        PROVE  Rejected(e)'
    <2>1. OthersKeep(p) /\ ~At(p, "tx")'
      BY <1>0, <1>10, ReturnEffect DEF Rollback, At
    <2> QED
      BY <1>0, <1>10, <2>1, NotInFlight DEF Rollback, Rejected
  <1>11. ASSUME NEW p \in Calls, Notify(p)
        PROVE  Rejected(e)'
    <2>1. OthersKeep(p) /\ ~At(p, "tx")'
      BY <1>0, <1>11, ReturnEffect, GotoEffect
         DEF Notify, At, Idle, Pcs
    <2> QED
      BY <1>0, <1>11, <2>1, NotInFlight DEF Notify, Rejected
  <1>12. ASSUME NEW p \in Calls, Promote(p)
        PROVE  Rejected(e)'
    <2>1. OthersKeep(p) /\ ~At(p, "tx")'
      BY <1>0, <1>12, ReturnEffect, GotoEffect
         DEF Promote, At, Idle, Pcs
    <2> QED
      BY <1>0, <1>12, <2>1, NotInFlight DEF Promote, Rejected
  <1>13. ASSUME NEW p \in Calls, CreateSession(p)
        PROVE  Rejected(e)'
    <2>1. OthersKeep(p) /\ ~At(p, "tx")'
      BY <1>0, <1>13, ReturnEffect DEF CreateSession, At
    <2> QED
      BY <1>0, <1>13, <2>1, NotInFlight DEF CreateSession, Rejected
  <1>14. ASSUME NEW p \in Calls, Disconnect(p)
        PROVE  Rejected(e)'
    <2>1. OthersKeep(p) /\ ~At(p, "tx")'
      BY <1>0, <1>14, ReturnEffect DEF Disconnect, At
    <2> QED
      BY <1>0, <1>14, <2>1, NotInFlight DEF Disconnect, Rejected
  <1>15. ASSUME NEW p \in Calls, NEW f \in Emails, SubmitRequest(p, f)
        PROVE  Rejected(e)'
    <2>1. OthersKeep(p) /\ ~At(p, "tx")'
      BY <1>0, <1>15, StartEffect DEF At
    <2> QED
      BY <1>0, <1>15, <2>1, NotInFlight DEF SubmitRequest, Rejected
  <1>16. ASSUME NEW p \in Calls, NEW f \in Emails, FinishRegisterPasskey(p, f)
        PROVE  Rejected(e)'
    <2>1. OthersKeep(p) /\ ~At(p, "tx")'
      BY <1>0, <1>16, StartEffect DEF At
    <2> QED
      BY <1>0, <1>16, <2>1, NotInFlight DEF FinishRegisterPasskey, Rejected
  <1>17. ASSUME NEW p \in Calls, NEW f \in Emails, NEW c \in Creds, BeginRegisterPasskey(p, f, c)
        PROVE  Rejected(e)'
    <2>1. OthersKeep(p) /\ ~At(p, "tx")'
      BY <1>0, <1>17, StartEffect DEF At
    <2> QED
      BY <1>0, <1>17, <2>1, NotInFlight DEF BeginRegisterPasskey, Rejected
  <1>18. ASSUME NEW p \in Calls, NEW f \in Emails, NEW s \in Subs, FrejaRegister(p, f, s)
        PROVE  Rejected(e)'
    <2>1. OthersKeep(p) /\ ~At(p, "tx")'
      BY <1>0, <1>18, StartEffect DEF At
    <2> QED
      BY <1>0, <1>18, <2>1, NotInFlight DEF FrejaRegister, Rejected
  <1>19. ASSUME NEW f \in Emails, VerifyEmail(f)
        PROVE  Rejected(e)'
    <2>1. reg'[e].status = "rejected"
      BY <1>0, <1>19 DEF VerifyEmail, TypeOK, Row
    <2> QED
      BY <1>0, <1>19, <2>1 DEF VerifyEmail, Rejected, ApprovalInFlight, At
  <1>20. ASSUME NEW f \in Emails, RejectRegistration(f)
        PROVE  Rejected(e)'
    <2>1. reg'[e].status = "rejected"
      BY <1>0, <1>20 DEF RejectRegistration, TypeOK, Row
    <2> QED
      BY <1>0, <1>20, <2>1 DEF RejectRegistration, Rejected, ApprovalInFlight, At
  <1>21. ASSUME NEW f \in Emails, ExpireEmailToken(f)
        PROVE  Rejected(e)'
    <2>1. reg'[e].status = "rejected"
      BY <1>0, <1>21 DEF ExpireEmailToken, TypeOK, Row
    <2> QED
      BY <1>0, <1>21, <2>1 DEF ExpireEmailToken, Rejected, ApprovalInFlight, At
  <1>22. ASSUME NEW f \in Emails, ExpireSetupToken(f)
        PROVE  Rejected(e)'
    <2>1. reg'[e].status = "rejected"
      BY <1>0, <1>22 DEF ExpireSetupToken, TypeOK, Row
    <2> QED
      BY <1>0, <1>22, <2>1 DEF ExpireSetupToken, Rejected, ApprovalInFlight, At
  <1>23. ASSUME NEW f \in Emails, NEW a \in Addresses, ChangeUsername(f, a)
        PROVE  Rejected(e)'
    BY <1>0, <1>23 DEF ChangeUsername, Rejected, ApprovalInFlight, At
  <1>24. ASSUME Crash PROVE Rejected(e)'
    BY <1>0, <1>24 DEF Crash, Rejected, ApprovalInFlight, At, NoCall
  <1>25. CASE UNCHANGED vars
    BY <1>0, <1>25 DEF vars, Rejected, ApprovalInFlight, At
  <1> QED
    BY <1>1, <1>2, <1>3, <1>4, <1>5, <1>6, <1>7, <1>8, <1>9, <1>10, <1>11, <1>12, <1>13, <1>14, <1>15, <1>16, <1>17, <1>18, <1>19, <1>20, <1>21, <1>22, <1>23, <1>24, <1>25 DEF Next, Handle

\* Once a rejection finds no approval under way, the request stays rejected.
THEOREM RejectionsAreFinal == Spec => RejectionSticks
  <1>1. IInv /\ [Next]_vars =>
          [\A e \in Emails :
             reg[e].status = "rejected" /\ ~ApprovalInFlight(e)
               => (reg[e].status = "rejected" /\ ~ApprovalInFlight(e))']_vars
    BY RejectionStep DEF Rejected
  <1> QED
    BY <1>1, Invariant, PTL DEF Spec, RejectionSticks

\* What awaits a decision is on the administrators' list, and nothing else is.
THEOREM AwaitingAreListed == Spec => []AwaitingIsListed
  <1>1. IInv => AwaitingIsListed
    BY DEF IInv, TypeOK, Row, RowInv, RowOK, AwaitingIsListed, Listed
  <1> QED
    BY <1>1, Invariant, PTL

=============================================================================
