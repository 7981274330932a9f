----------------------- MODULE CredentialReset_proofs -----------------------
(***************************************************************************)
(* Theorems about CredentialReset, for any users, requests, tokens,        *)
(* passkeys, Freja subjects and number of concurrent requests.             *)
(***************************************************************************)
EXTENDS CredentialReset, TLAPS

-----------------------------------------------------------------------------
(* The inductive invariant. *)

\* A row has a user, and no token before a decision.
RowInv ==
  \A r \in Requests :
    /\ reset[r].status # "none" => reset[r].user \in Users
    /\ reset[r].status \in {"none", "pending"} => reset[r].token = None

\* The link of request r reached u, after an administrator approved it.
Linked(r, u, provider) ==
  /\ r \in Requests /\ u \in Users
  /\ reset[r].status \in {"approved", "completed"}
  /\ reset[r].user = u /\ reset[r].provider = provider
  /\ [req |-> r, token |-> reset[r].token] \in mailed

\* What the user of request r asked for is there.
Granted(r, u, provider) ==
  \/ provider = "passkey" /\ \E k \in passkeys : k.via = r
  \/ provider = "freja" /\ \E s \in Subs : u \in FrejaUsers[s] /\ identities[s] # None

\* What a request carries is what it read, and still holds.
Carries(p) ==
  LET c == call[p] IN
  /\ At(p, "insert") => c.user \in Users
  /\ c.pc \in {"approve", "mail"} =>
       c.req \in Requests /\ c.token \in Tokens
  /\ At(p, "challenge") => c.user \in Users /\ c.cred \in Creds
  /\ c.pc \in {"take", "store"} =>
       /\ c.user \in Users /\ c.provider = "passkey"
       /\ c.req # None => Linked(c.req, c.user, "passkey")
  /\ At(p, "store") => c.cred \in Creds
  /\ At(p, "upsert") =>
       /\ c.provider = "freja" /\ Linked(c.req, c.user, "freja")
       /\ c.sub \in Subs /\ c.user \in FrejaUsers[c.sub]
  /\ At(p, "complete") =>
       Linked(c.req, c.user, c.provider) /\ Granted(c.req, c.user, c.provider)
  /\ At(p, "session") =>
       Linked(c.req, c.user, "freja") /\ reset[c.req].status = "completed"

IInv ==
  /\ TypeOK /\ RowInv /\ (\A p \in Calls : Carries(p))
  /\ PasskeyNeedsApproval /\ CompletedAfterCredential /\ SessionAfterCompletion

-----------------------------------------------------------------------------
(* What the helpers do to the record of one request. *)

OthersKeep(p) == \A q \in Calls \ {p} : call'[q] = call[q]

LEMMA NoCallIdle == NoCall \in Call /\ NoCall.pc = "idle"
  BY DEF NoCall, Call, Pcs, Providers

LEMMA ServeEffect ==
  ASSUME TypeOK, NEW p \in Calls, NEW c \in Call, Serve(p, c)
  PROVE  call' \in [Calls -> Call] /\ call'[p] = c /\ OthersKeep(p)
  BY DEF TypeOK, Serve, OthersKeep

LEMMA ReturnEffect ==
  ASSUME TypeOK, NEW p \in Calls, Return(p)
  PROVE  call' \in [Calls -> Call] /\ call'[p].pc = "idle" /\ OthersKeep(p)
  BY ServeEffect, NoCallIdle DEF Return

LEMMA GotoEffect ==
  ASSUME TypeOK, NEW p \in Calls, NEW pc \in Pcs, Goto(p, pc)
  PROVE  /\ call' \in [Calls -> Call] /\ OthersKeep(p)
         /\ call'[p].pc = pc /\ call'[p].req = call[p].req
         /\ call'[p].user = call[p].user /\ call'[p].provider = call[p].provider
         /\ call'[p].token = call[p].token /\ call'[p].cred = call[p].cred
         /\ call'[p].sub = call[p].sub
  <1> DEFINE c == [call[p] EXCEPT !.pc = pc]
  <1>1. call[p] \in Call
    BY DEF TypeOK
  <1>2. /\ c \in Call /\ c.pc = pc /\ c.req = call[p].req /\ c.user = call[p].user
        /\ c.provider = call[p].provider /\ c.token = call[p].token
        /\ c.cred = call[p].cred /\ c.sub = call[p].sub
    BY <1>1 DEF Call
  <1>3. call' = [call EXCEPT ![p] = c]
    BY DEF Goto
  <1> HIDE DEF c
  <1> QED
    BY <1>2, <1>3 DEF TypeOK, OthersKeep

LEMMA RequestResetEffect ==
  ASSUME TypeOK, NEW p \in Calls, NEW u \in Users, NEW provider \in Providers,
         RequestReset(p, u, provider)
  PROVE  /\ call' \in [Calls -> Call] /\ OthersKeep(p)
         /\ call'[p].pc = "insert" /\ call'[p].user = u
  <1> DEFINE c == [NoCall EXCEPT !.pc = "insert", !.user = u, !.provider = provider]
  <1>1. c \in Call /\ c.pc = "insert" /\ c.user = u
    BY NoCallIdle DEF Call, Pcs
  <1>2. Serve(p, c)
    BY DEF RequestReset
  <1> HIDE DEF c
  <1> QED
    BY <1>1, <1>2, ServeEffect

LEMMA ReadPendingEffect ==
  ASSUME TypeOK, NEW p \in Calls, NEW r \in Requests, NEW t \in Tokens,
         ReadPending(p, r, t)
  PROVE  /\ call' \in [Calls -> Call] /\ OthersKeep(p)
         /\ call'[p].pc = "approve" /\ call'[p].req = r /\ call'[p].token = t
  <1> DEFINE c == [NoCall EXCEPT !.pc = "approve", !.req = r, !.token = t]
  <1>1. c \in Call /\ c.pc = "approve" /\ c.req = r /\ c.token = t
    BY NoCallIdle DEF Call, Pcs
  <1>2. Serve(p, c)
    BY DEF ReadPending
  <1> HIDE DEF c
  <1> QED
    BY <1>1, <1>2, ServeEffect

\* A link that opens was mailed to the user of the request.
LEMMA OpensLinked ==
  ASSUME TypeOK, RowInv, NEW r \in Requests, NEW provider, Opens(r, provider)
  PROVE  reset[r].user \in Users /\ Linked(r, reset[r].user, provider)
  BY DEF Opens, RowInv, Linked

LEMMA BeginResetEffect ==
  ASSUME TypeOK, RowInv, NEW p \in Calls, NEW r \in Requests, NEW d \in Creds,
         BeginResetPasskey(p, r, d)
  PROVE  /\ call' \in [Calls -> Call] /\ OthersKeep(p)
         /\ call'[p].pc = "challenge" /\ call'[p].user \in Users /\ call'[p].cred = d
  <1> DEFINE u == reset[r].user
             c == [NoCall EXCEPT !.pc = "challenge", !.user = u, !.cred = d]
  <1>1. u \in Users
    BY OpensLinked DEF BeginResetPasskey
  <1>2. Serve(p, c)
    BY DEF BeginResetPasskey
  <1> HIDE DEF u
  <1>3. c \in Call /\ c.pc = "challenge" /\ c.user = u /\ c.cred = d
    BY <1>1, NoCallIdle DEF Call, Pcs
  <1> HIDE DEF c
  <1> QED
    BY <1>1, <1>2, <1>3, ServeEffect

LEMMA FinishResetEffect ==
  ASSUME TypeOK, RowInv, NEW p \in Calls, NEW r \in Requests, FinishResetPasskey(p, r)
  PROVE  /\ call' \in [Calls -> Call] /\ OthersKeep(p)
         /\ call'[p].pc = "take" /\ call'[p].req = r /\ call'[p].provider = "passkey"
         /\ call'[p].user = reset[r].user /\ Linked(r, reset[r].user, "passkey")
  <1> DEFINE u == reset[r].user
             c == [NoCall EXCEPT !.pc = "take", !.req = r, !.user = u]
  <1>1. u \in Users /\ Linked(r, u, "passkey")
    BY OpensLinked DEF FinishResetPasskey
  <1>2. Serve(p, c)
    BY DEF FinishResetPasskey
  <1> HIDE DEF u
  <1>3. NoCall.provider = "passkey"
    BY DEF NoCall
  <1>4. /\ c \in Call /\ c.pc = "take" /\ c.req = r /\ c.user = u
        /\ c.provider = "passkey"
    BY <1>1, <1>3, NoCallIdle DEF Call, Pcs
  <1> HIDE DEF c
  <1>5. call' \in [Calls -> Call] /\ OthersKeep(p) /\ call'[p] = c
    BY <1>2, <1>4, ServeEffect
  <1> QED
    BY <1>1, <1>4, <1>5 DEF u

LEMMA ResetFrejaEffect ==
  ASSUME TypeOK, RowInv, NEW p \in Calls, NEW r \in Requests, NEW s \in Subs,
         ResetFreja(p, r, s)
  PROVE  /\ call' \in [Calls -> Call] /\ OthersKeep(p)
         /\ call'[p].pc = "upsert" /\ call'[p].req = r /\ call'[p].provider = "freja"
         /\ call'[p].user = reset[r].user /\ Linked(r, reset[r].user, "freja")
         /\ call'[p].sub = s /\ reset[r].user \in FrejaUsers[s]
  <1> DEFINE u == reset[r].user
             c == [NoCall EXCEPT !.pc = "upsert", !.req = r, !.provider = "freja",
                                 !.user = u, !.sub = s]
  <1>1. u \in Users /\ Linked(r, u, "freja") /\ u \in FrejaUsers[s]
    BY OpensLinked DEF ResetFreja
  <1>2. Serve(p, c)
    BY DEF ResetFreja
  <1> HIDE DEF u
  <1>3. /\ c \in Call /\ c.pc = "upsert" /\ c.req = r /\ c.user = u
        /\ c.provider = "freja" /\ c.sub = s
    BY <1>1, NoCallIdle DEF Call, Pcs, Providers
  <1> HIDE DEF c
  <1>4. call' \in [Calls -> Call] /\ OthersKeep(p) /\ call'[p] = c
    BY <1>2, <1>3, ServeEffect
  <1> QED
    BY <1>1, <1>3, <1>4 DEF u

LEMMA FinishAddEffect ==
  ASSUME TypeOK, NEW p \in Calls, NEW u \in Users, FinishAddPasskey(p, u)
  PROVE  /\ call' \in [Calls -> Call] /\ OthersKeep(p)
         /\ call'[p].pc = "take" /\ call'[p].req = None
         /\ call'[p].provider = "passkey" /\ call'[p].user = u
  <1> DEFINE c == [NoCall EXCEPT !.pc = "take", !.user = u]
  <1>1. NoCall.provider = "passkey" /\ NoCall.req = None
    BY DEF NoCall
  <1>2. /\ c \in Call /\ c.pc = "take" /\ c.req = None
        /\ c.provider = "passkey" /\ c.user = u
    BY <1>1, NoCallIdle DEF Call, Pcs
  <1>3. Serve(p, c)
    BY DEF FinishAddPasskey
  <1> HIDE DEF c
  <1> QED
    BY <1>2, <1>3, ServeEffect

LEMMA TakenEffect ==
  ASSUME TypeOK, NEW p \in Calls, NEW d \in Creds,
         Serve(p, [call[p] EXCEPT !.pc = "store", !.cred = d])
  PROVE  /\ call' \in [Calls -> Call] /\ OthersKeep(p)
         /\ call'[p].pc = "store" /\ call'[p].req = call[p].req
         /\ call'[p].user = call[p].user /\ call'[p].provider = call[p].provider
         /\ call'[p].cred = d
  <1> DEFINE c == [call[p] EXCEPT !.pc = "store", !.cred = d]
  <1>1. call[p] \in Call
    BY DEF TypeOK
  <1>2. /\ c \in Call /\ c.pc = "store" /\ c.req = call[p].req /\ c.user = call[p].user
        /\ c.provider = call[p].provider /\ c.cred = d
    BY <1>1 DEF Call, Pcs
  <1>3. Serve(p, c)
    OBVIOUS
  <1> HIDE DEF c
  <1> QED
    BY <1>2, <1>3, ServeEffect

LEMMA Known ==
  ASSUME IInv, NEW p \in Calls
  PROVE  TypeOK /\ RowInv /\ call[p] \in Call /\ Carries(p)
  BY DEF IInv, TypeOK

\* The statements that write a row of credential_reset_requests.
LEMMA ApproveEffect ==
  ASSUME IInv, NEW p \in Calls, ApproveCredentialReset(p)
  PROVE  /\ reset' \in [Requests -> Row]
         /\ \A r \in Requests :
              \/ reset'[r] = reset[r]
              \/ /\ reset[r].status = "pending" /\ reset'[r].status = "approved"
                 /\ reset'[r].user = reset[r].user
                 /\ reset'[r].provider = reset[r].provider
                 /\ reset'[r].token \in Tokens
  <1>1. call[p].req \in Requests /\ call[p].token \in Tokens /\ reset \in [Requests -> Row]
    BY Known DEF ApproveCredentialReset, At, Carries, TypeOK
  <1>2. CASE UNCHANGED reset
    BY <1>1, <1>2
  <1>3. CASE /\ reset[call[p].req].status = "pending"
             /\ reset' = [reset EXCEPT ![call[p].req].status = "approved",
                                       ![call[p].req].token = call[p].token,
                                       ![call[p].req].live = TRUE]
    <2> DEFINE q == call[p].req
               t == call[p].token
               x == [reset[q] EXCEPT !.status = "approved", !.token = t, !.live = TRUE]
    <2>1. reset' = [reset EXCEPT ![q] = x]
      BY <1>1, <1>3
    <2>2. reset[q] \in Row /\ t \in Tokens /\ q \in Requests
      BY <1>1
    <2> HIDE DEF q, t
    <2>3. /\ x \in Row /\ x.status = "approved" /\ x.user = reset[q].user
          /\ x.provider = reset[q].provider /\ x.token = t
      BY <2>2 DEF Row
    <2> HIDE DEF x
    <2>4. reset[q].status = "pending"
      BY <1>3 DEF q
    <2> QED
      BY <1>1, <2>1, <2>2, <2>3, <2>4
  <1> QED
    BY <1>2, <1>3 DEF ApproveCredentialReset

LEMMA InsertResetEffect ==
  ASSUME IInv, NEW p \in Calls, NEW r \in Requests, InsertReset(p, r)
  PROVE  /\ reset' \in [Requests -> Row] /\ reset[r].status = "none"
         /\ reset'[r].status = "pending" /\ reset'[r].user \in Users
         /\ reset'[r].token = None
         /\ \A q \in Requests \ {r} : reset'[q] = reset[q]
  <1> DEFINE u == call[p].user
             v == call[p].provider
             x == [NoRow EXCEPT !.status = "pending", !.user = u, !.provider = v]
  <1>1. u \in Users /\ v \in Providers /\ reset \in [Requests -> Row]
    BY Known DEF InsertReset, At, Carries, Call, TypeOK
  <1>2. reset' = [reset EXCEPT ![r] = x] /\ reset[r].status = "none"
    BY DEF InsertReset
  <1> HIDE DEF u, v
  <1>3. x \in Row /\ x.status = "pending" /\ x.user = u /\ x.token = None
    BY <1>1 DEF NoRow, Row
  <1> HIDE DEF x
  <1> QED
    BY <1>1, <1>2, <1>3

LEMMA StatusEffect ==
  ASSUME TypeOK, NEW r \in Requests, NEW status \in {"rejected", "completed"},
         reset' = [reset EXCEPT ![r].status = status]
  PROVE  /\ reset' \in [Requests -> Row] /\ reset'[r].status = status
         /\ reset'[r].user = reset[r].user /\ reset'[r].provider = reset[r].provider
         /\ reset'[r].token = reset[r].token
         /\ \A q \in Requests \ {r} : reset'[q] = reset[q]
  <1> DEFINE x == [reset[r] EXCEPT !.status = status]
  <1>1. reset \in [Requests -> Row] /\ reset[r] \in Row /\ reset' = [reset EXCEPT ![r] = x]
    BY DEF TypeOK
  <1>2. /\ x \in Row /\ x.status = status /\ x.user = reset[r].user
        /\ x.provider = reset[r].provider /\ x.token = reset[r].token
    BY <1>1 DEF Row
  <1> HIDE DEF x
  <1> QED
    BY <1>1, <1>2

LEMMA ExpireTokenEffect ==
  ASSUME TypeOK, NEW r \in Requests, ExpireToken(r)
  PROVE  /\ reset' \in [Requests -> Row]
         /\ reset[r].status = "approved" /\ reset'[r].status = "approved"
         /\ reset'[r].user = reset[r].user /\ reset'[r].provider = reset[r].provider
         /\ reset'[r].token = reset[r].token
         /\ \A q \in Requests \ {r} : reset'[q] = reset[q]
  <1> DEFINE x == [reset[r] EXCEPT !.live = FALSE]
  <1>1. /\ reset \in [Requests -> Row] /\ reset[r] \in Row
        /\ reset' = [reset EXCEPT ![r] = x] /\ reset[r].status = "approved"
    BY DEF TypeOK, ExpireToken
  <1>2. /\ x \in Row /\ x.status = reset[r].status /\ x.user = reset[r].user
        /\ x.provider = reset[r].provider /\ x.token = reset[r].token
    BY <1>1 DEF Row
  <1> HIDE DEF x
  <1> QED
    BY <1>1, <1>2

-----------------------------------------------------------------------------
(* What a step may do to a request for a reset, and to what was granted. *)

RowStep(r) ==
  /\ reset[r].status = "none" => reset'[r].status \in {"none", "pending"}
  /\ reset[r].status = "rejected" => reset'[r] = reset[r]
  /\ reset[r].status = "completed" => reset'[r].status = "completed"
  /\ reset[r].status = "approved" => reset'[r].status \in {"approved", "completed"}
  /\ reset[r].token # None => reset'[r].token = reset[r].token
  /\ reset[r].status # "none" =>
       reset'[r].user = reset[r].user /\ reset'[r].provider = reset[r].provider
  /\ reset'[r].status # "none" => reset'[r].user \in Users
  /\ reset'[r].status \in {"none", "pending"} => reset'[r].token = None

\* A row that is completed by a step was granted before it.
CompletedNow(r) ==
  reset'[r].status = "completed" /\ reset[r].status # "completed" =>
    Granted(r, reset[r].user, reset[r].provider)

RowsStep ==
  /\ reset' \in [Requests -> Row]
  /\ \A r \in Requests : RowStep(r) /\ CompletedNow(r)

LEMMA RowSame ==
  ASSUME IInv, NEW r \in Requests, reset'[r] = reset[r]
  PROVE  RowStep(r) /\ CompletedNow(r)
  BY DEF IInv, RowInv, RowStep, CompletedNow

LEMMA Rows ==
  ASSUME IInv, Next
  PROVE  RowsStep
  <1>0. TypeOK /\ RowInv
    BY DEF IInv
  <1>1. ASSUME UNCHANGED reset PROVE RowsStep
    BY <1>0, <1>1, RowSame DEF RowsStep, TypeOK
  <1>2. ASSUME NEW p \in Calls, ApproveCredentialReset(p) PROVE RowsStep
    <2>1. reset' \in [Requests -> Row]
      BY <1>2, ApproveEffect
    <2>2. ASSUME NEW r \in Requests PROVE RowStep(r) /\ CompletedNow(r)
      <3>1. CASE reset'[r] = reset[r]
        BY <3>1, RowSame
      <3>2. CASE /\ reset[r].status = "pending" /\ reset'[r].status = "approved"
                 /\ reset'[r].user = reset[r].user
                 /\ reset'[r].provider = reset[r].provider
        BY <1>0, <3>2 DEF RowStep, CompletedNow, RowInv
      <3> QED
        BY <1>2, <3>1, <3>2, ApproveEffect
    <2> QED
      BY <2>1, <2>2 DEF RowsStep
  <1>3. ASSUME NEW p \in Calls, Complete(p) PROVE RowsStep
    <2> DEFINE q == call[p].req
    <2>1. /\ Linked(q, call[p].user, call[p].provider)
          /\ Granted(q, call[p].user, call[p].provider)
          /\ reset' = [reset EXCEPT ![q].status = "completed"]
      BY <1>3, Known DEF Complete, Carries
    <2>2. /\ q \in Requests /\ reset[q].status \in {"approved", "completed"}
          /\ Granted(q, reset[q].user, reset[q].provider)
          /\ reset[q].user \in Users
      BY <2>1 DEF Linked
    <2> HIDE DEF q
    <2>3. /\ reset' \in [Requests -> Row] /\ reset'[q].status = "completed"
          /\ reset'[q].user = reset[q].user /\ reset'[q].provider = reset[q].provider
          /\ reset'[q].token = reset[q].token
          /\ \A r \in Requests \ {q} : reset'[r] = reset[r]
      BY <1>0, <2>1, <2>2, StatusEffect
    <2>4. RowStep(q) /\ CompletedNow(q)
      BY <2>2, <2>3 DEF RowStep, CompletedNow
    <2> QED
      BY <2>3, <2>4, RowSame DEF RowsStep
  <1>4. ASSUME NEW p \in Calls, NEW r \in Requests, InsertReset(p, r) PROVE RowsStep
    <2>1. RowStep(r) /\ CompletedNow(r)
      BY <1>0, <1>4, InsertResetEffect DEF RowStep, CompletedNow, RowInv
    <2> QED
      BY <1>4, <2>1, InsertResetEffect, RowSame DEF RowsStep
  <1>5. ASSUME NEW r \in Requests, RejectCredentialReset(r) PROVE RowsStep
    <2>1. /\ reset' = [reset EXCEPT ![r].status = "rejected"]
          /\ reset[r].status = "pending" /\ reset[r].user \in Users
      BY <1>0, <1>5 DEF RejectCredentialReset, RowInv
    <2>2. /\ reset' \in [Requests -> Row] /\ reset'[r].status = "rejected"
          /\ reset'[r].user = reset[r].user /\ reset'[r].provider = reset[r].provider
          /\ reset'[r].token = reset[r].token
          /\ \A q \in Requests \ {r} : reset'[q] = reset[q]
      BY <1>0, <2>1, StatusEffect
    <2>3. RowStep(r) /\ CompletedNow(r)
      BY <2>1, <2>2 DEF RowStep, CompletedNow
    <2> QED
      BY <2>2, <2>3, RowSame DEF RowsStep
  <1>6. ASSUME NEW r \in Requests, ExpireToken(r) PROVE RowsStep
    <2>1. RowStep(r) /\ CompletedNow(r)
      BY <1>0, <1>6, ExpireTokenEffect DEF RowStep, CompletedNow, RowInv
    <2> QED
      BY <1>0, <1>6, <2>1, ExpireTokenEffect, RowSame DEF RowsStep
  <1> QED
    BY <1>1, <1>2, <1>3, <1>4, <1>5, <1>6
       DEF Next, Handle, Crash, MailLink, StoreChallenge, TakeCeremony, StorePasskey,
           UpsertIdentity, CreateSession, Disconnect, ReadPending, FinishResetPasskey,
           BeginResetPasskey, ResetFreja, FinishAddPasskey, RequestReset, ExpireCeremony,
           BeginAddPasskey

\* Links, passkeys and identities stay.
Grows ==
  /\ mailed' \subseteq [req: Requests, token: Tokens]
  /\ passkeys' \subseteq Passkey
  /\ identities' \in [Subs -> Users \cup {None}]
  /\ mailed \subseteq mailed'
  /\ passkeys \subseteq passkeys'
  /\ \A s \in Subs : identities[s] # None => identities'[s] # None

LEMMA GrowsStep ==
  ASSUME IInv, Next
  PROVE  Grows
  <1>0. TypeOK
    BY DEF IInv
  <1>1. ASSUME UNCHANGED <<mailed, passkeys, identities>> PROVE Grows
    BY <1>0, <1>1 DEF Grows, TypeOK
  <1>2. ASSUME NEW p \in Calls, MailLink(p) PROVE Grows
    <2>1. call[p].req \in Requests /\ call[p].token \in Tokens
      BY <1>2, Known DEF MailLink, At, Carries
    <2> QED
      BY <1>0, <1>2, <2>1 DEF MailLink, Grows, TypeOK
  <1>3. ASSUME NEW p \in Calls, StorePasskey(p) PROVE Grows
    <2>1. /\ call[p].user \in Users /\ call[p].cred \in Creds
          /\ call[p].req \in Requests \cup {None}
      BY <1>3, Known DEF StorePasskey, At, Carries, Call
    <2> QED
      BY <1>0, <1>3, <2>1 DEF StorePasskey, Grows, TypeOK, Passkey
  <1>4. ASSUME NEW p \in Calls, UpsertIdentity(p) PROVE Grows
    <2>1. call[p].sub \in Subs /\ call[p].user \in Users
      BY <1>4, Known DEF UpsertIdentity, At, Carries, Linked
    <2>2. identities \in [Subs -> Users \cup {None}]
      BY <1>0 DEF TypeOK
    <2>3. /\ identities' \in [Subs -> Users \cup {None}]
          /\ \A s \in Subs : identities[s] # None => identities'[s] # None
      BY <1>4, <2>1, <2>2, NoneAssumption DEF UpsertIdentity
    <2> QED
      BY <1>0, <1>4, <2>3 DEF UpsertIdentity, Grows, TypeOK
  <1> QED
    BY <1>1, <1>2, <1>3, <1>4
       DEF Next, Handle, Crash, ApproveCredentialReset, StoreChallenge, TakeCeremony,
           Complete, CreateSession, Disconnect, InsertReset, ReadPending,
           FinishResetPasskey, BeginResetPasskey, ResetFreja, FinishAddPasskey,
           RequestReset, RejectCredentialReset, ExpireToken, ExpireCeremony,
           BeginAddPasskey

LEMMA LinkedStays ==
  ASSUME TypeOK, RowsStep, Grows, NEW r, NEW u, NEW provider, Linked(r, u, provider)
  PROVE  /\ r \in Requests /\ u \in Users
         /\ reset'[r].status \in {"approved", "completed"}
         /\ reset[r].status = "completed" => reset'[r].status = "completed"
         /\ reset'[r].user = u /\ reset'[r].provider = provider
         /\ [req |-> r, token |-> reset'[r].token] \in mailed'
         /\ Linked(r, u, provider)'
  <1>1. /\ r \in Requests /\ u \in Users /\ reset[r].status \in {"approved", "completed"}
        /\ reset[r].user = u /\ reset[r].provider = provider
        /\ [req |-> r, token |-> reset[r].token] \in mailed
    BY DEF Linked
  <1>2. RowStep(r)
    BY <1>1 DEF RowsStep
  <1>3. reset[r].token \in Tokens
    BY <1>1 DEF TypeOK
  <1>4. reset[r].token # None
    BY <1>3, NoneAssumption
  <1> QED
    BY <1>1, <1>2, <1>4 DEF Linked, RowStep, Grows

LEMMA GrantedStays ==
  ASSUME Grows, NEW r, NEW u, NEW provider, Granted(r, u, provider)
  PROVE  Granted(r, u, provider)'
  BY DEF Granted, Grows

-----------------------------------------------------------------------------
(* Types, and what requests carry. *)

LEMMA TypeStep ==
  ASSUME IInv, Next
  PROVE  TypeOK'
  <1>0. TypeOK /\ RowInv /\ RowsStep /\ Grows
    BY Rows, GrowsStep DEF IInv
  <1>a. ASSUME UNCHANGED <<ceremony, sessions>>, call' \in [Calls -> Call] PROVE TypeOK'
    BY <1>0, <1>a DEF TypeOK, RowsStep, Grows
  <1>1. ASSUME Crash PROVE TypeOK'
    BY <1>1, <1>a, NoCallIdle DEF Crash
  <1>2. ASSUME NEW p \in Calls, Disconnect(p) PROVE TypeOK'
    BY <1>0, <1>2, <1>a, ReturnEffect DEF Disconnect
  <1>3. ASSUME NEW p \in Calls, ApproveCredentialReset(p) PROVE TypeOK'
    BY <1>0, <1>3, <1>a, GotoEffect DEF ApproveCredentialReset, Pcs
  <1>4. ASSUME NEW p \in Calls, MailLink(p) PROVE TypeOK'
    BY <1>0, <1>4, <1>a, ReturnEffect DEF MailLink
  <1>5. ASSUME NEW p \in Calls, StoreChallenge(p) PROVE TypeOK'
    <2>1. call' \in [Calls -> Call] /\ UNCHANGED sessions
      BY <1>0, <1>5, ReturnEffect DEF StoreChallenge
    <2>2. ceremony' \in [Users -> Creds \cup {None}]
      BY <1>0, <1>5, Known DEF StoreChallenge, At, Carries, TypeOK
    <2> QED
      BY <1>0, <2>1, <2>2 DEF TypeOK, RowsStep, Grows
  <1>6. ASSUME NEW p \in Calls, TakeCeremony(p) PROVE TypeOK'
    <2> DEFINE u == call[p].user
    <2>1. u \in Users /\ UNCHANGED sessions /\ ceremony' = [ceremony EXCEPT ![u] = None]
      BY <1>6, Known DEF TakeCeremony, At, Carries
    <2>2. ceremony' \in [Users -> Creds \cup {None}]
      BY <1>0, <2>1 DEF TypeOK
    <2>3. ceremony[u] # None => ceremony[u] \in Creds
      BY <1>0, <2>1 DEF TypeOK
    <2>4. call' \in [Calls -> Call]
      BY <1>0, <1>6, <2>3, ReturnEffect, TakenEffect DEF TakeCeremony
    <2> QED
      BY <1>0, <2>1, <2>2, <2>4 DEF TypeOK, RowsStep, Grows
  <1>7. ASSUME NEW p \in Calls, StorePasskey(p) PROVE TypeOK'
    BY <1>0, <1>7, <1>a, ReturnEffect, GotoEffect DEF StorePasskey, Pcs
  <1>8. ASSUME NEW p \in Calls, UpsertIdentity(p) PROVE TypeOK'
    BY <1>0, <1>8, <1>a, GotoEffect DEF UpsertIdentity, Pcs
  <1>9. ASSUME NEW p \in Calls, Complete(p) PROVE TypeOK'
    BY <1>0, <1>9, <1>a, ReturnEffect, GotoEffect DEF Complete, Pcs
  <1>10. ASSUME NEW p \in Calls, CreateSession(p) PROVE TypeOK'
    <2>1. call' \in [Calls -> Call] /\ UNCHANGED ceremony
      BY <1>0, <1>10, ReturnEffect DEF CreateSession
    <2>2. sessions' \subseteq Users
      BY <1>0, <1>10, Known DEF CreateSession, At, Carries, Linked, TypeOK
    <2> QED
      BY <1>0, <2>1, <2>2 DEF TypeOK, RowsStep, Grows
  <1>11. ASSUME NEW p \in Calls, NEW r \in Requests, InsertReset(p, r) PROVE TypeOK'
    BY <1>0, <1>11, <1>a, ReturnEffect DEF InsertReset
  <1>12. ASSUME NEW p \in Calls, NEW r \in Requests, NEW t \in Tokens, ReadPending(p, r, t)
         PROVE  TypeOK'
    <2>1. UNCHANGED <<ceremony, sessions>>
      BY <1>12 DEF ReadPending
    <2> QED
      BY <1>0, <1>12, <1>a, <2>1, ReadPendingEffect
  <1>13. ASSUME NEW p \in Calls, NEW r \in Requests, FinishResetPasskey(p, r) PROVE TypeOK'
    <2>1. UNCHANGED <<ceremony, sessions>>
      BY <1>13 DEF FinishResetPasskey
    <2> QED
      BY <1>0, <1>13, <1>a, <2>1, FinishResetEffect
  <1>14. ASSUME NEW p \in Calls, NEW r \in Requests, NEW c \in Creds,
                BeginResetPasskey(p, r, c)
         PROVE  TypeOK'
    <2>1. UNCHANGED <<ceremony, sessions>>
      BY <1>14 DEF BeginResetPasskey
    <2> QED
      BY <1>0, <1>14, <1>a, <2>1, BeginResetEffect
  <1>15. ASSUME NEW p \in Calls, NEW r \in Requests, NEW s \in Subs, ResetFreja(p, r, s)
         PROVE  TypeOK'
    <2>1. UNCHANGED <<ceremony, sessions>>
      BY <1>15 DEF ResetFreja
    <2> QED
      BY <1>0, <1>15, <1>a, <2>1, ResetFrejaEffect
  <1>16. ASSUME NEW p \in Calls, NEW u \in Users, FinishAddPasskey(p, u) PROVE TypeOK'
    <2>1. UNCHANGED <<ceremony, sessions>>
      BY <1>16 DEF FinishAddPasskey
    <2> QED
      BY <1>0, <1>16, <1>a, <2>1, FinishAddEffect
  <1>17. ASSUME NEW p \in Calls, NEW u \in Users, NEW provider \in Providers,
                RequestReset(p, u, provider)
         PROVE  TypeOK'
    <2>1. UNCHANGED <<ceremony, sessions>>
      BY <1>17 DEF RequestReset
    <2> QED
      BY <1>0, <1>17, <1>a, <2>1, RequestResetEffect
  <1>18. ASSUME NEW r \in Requests, RejectCredentialReset(r) \/ ExpireToken(r) PROVE TypeOK'
    BY <1>0, <1>18, <1>a DEF RejectCredentialReset, ExpireToken, TypeOK
  <1>19. ASSUME NEW u \in Users, ExpireCeremony(u) PROVE TypeOK'
    BY <1>0, <1>19 DEF ExpireCeremony, TypeOK
  <1>20. ASSUME NEW u \in Users, NEW c \in Creds, BeginAddPasskey(u, c) PROVE TypeOK'
    BY <1>0, <1>20 DEF BeginAddPasskey, TypeOK
  <1> QED
    BY <1>1, <1>2, <1>3, <1>4, <1>5, <1>6, <1>7, <1>8, <1>9, <1>10, <1>11, <1>12,
       <1>13, <1>14, <1>15, <1>16, <1>17, <1>18, <1>19, <1>20 DEF Next, Handle

\* What one request carries is not touched by what others do.
LEMMA CarriesKept ==
  ASSUME IInv, RowsStep, Grows, NEW p \in Calls, call'[p] = call[p]
  PROVE  Carries(p)'
  <1>1. TypeOK /\ Carries(p) /\ call[p] \in Call
    BY Known
  <1>2. PICK r \in Requests \cup {None}, u \in Users \cup {None}, v \in Providers :
          call[p].req = r /\ call[p].user = u /\ call[p].provider = v
    BY <1>1 DEF Call
  <1>3. call[p].pc \in {"take", "store"} /\ r # None => Linked(r, u, "passkey")'
    BY <1>1, <1>2, LinkedStays DEF Carries
  <1>4. At(p, "upsert") => Linked(r, u, "freja")'
    BY <1>1, <1>2, LinkedStays DEF Carries
  <1>5. At(p, "complete") => Linked(r, u, v)' /\ Granted(r, u, v)'
    BY <1>1, <1>2, LinkedStays, GrantedStays DEF Carries
  <1>6. At(p, "session") => Linked(r, u, "freja")' /\ reset'[r].status = "completed"
    BY <1>1, <1>2, LinkedStays DEF Carries
  <1> QED
    BY <1>1, <1>2, <1>3, <1>4, <1>5, <1>6 DEF Carries, At, Linked, Granted

LEMMA CarriesStep ==
  ASSUME IInv, Next
  PROVE  \A p \in Calls : Carries(p)'
  <1>0. TypeOK /\ RowInv /\ RowsStep /\ Grows
    BY Rows, GrowsStep DEF IInv
  <1>a. ASSUME NEW p \in Calls, OthersKeep(p), Carries(p)'
        PROVE  \A q \in Calls : Carries(q)'
    BY <1>0, <1>a, CarriesKept DEF OthersKeep
  <1>i. ASSUME NEW p \in Calls, OthersKeep(p), call'[p].pc = "idle"
        PROVE  \A q \in Calls : Carries(q)'
    <2>1. Carries(p)'
      BY <1>i DEF Carries, At
    <2> QED
      BY <1>a, <1>i, <2>1
  <1>1. ASSUME Crash PROVE \A q \in Calls : Carries(q)'
    BY <1>1, NoCallIdle DEF Crash, Carries, At
  <1>2. ASSUME NEW p \in Calls, ApproveCredentialReset(p) PROVE \A q \in Calls : Carries(q)'
    <2>1. At(p, "approve") /\ OthersKeep(p) /\ call'[p].pc = "mail"
          /\ call'[p].req = call[p].req /\ call'[p].token = call[p].token
      BY <1>0, <1>2, GotoEffect DEF ApproveCredentialReset, Pcs
    <2>2. Carries(p)'
      BY <2>1, Known DEF Carries, At
    <2> QED
      BY <1>a, <2>1, <2>2
  <1>3. ASSUME NEW p \in Calls, TakeCeremony(p) PROVE \A q \in Calls : Carries(q)'
    <2>1. At(p, "take") /\ Carries(p) /\ call[p] \in Call
      BY <1>3, Known DEF TakeCeremony
    <2>2. CASE Return(p)
      BY <1>0, <1>i, <2>2, ReturnEffect
    <2>3. CASE /\ ceremony[call[p].user] # None
               /\ Serve(p, [call[p] EXCEPT !.pc = "store", !.cred = ceremony[call[p].user]])
      <3>1. PICK r \in Requests \cup {None}, u \in Users : call[p].req = r /\ call[p].user = u
        BY <2>1 DEF At, Carries, Call
      <3>2. ceremony[u] \in Creds
        BY <1>0, <2>3, <3>1 DEF TypeOK
      <3>3. /\ OthersKeep(p) /\ call'[p].pc = "store" /\ call'[p].req = r
            /\ call'[p].user = u /\ call'[p].provider = call[p].provider
            /\ call'[p].cred \in Creds
        BY <1>0, <2>3, <3>1, <3>2, TakenEffect
      <3>4. r # None => Linked(r, u, "passkey")'
        BY <1>0, <2>1, <3>1, LinkedStays DEF At, Carries
      <3>5. Carries(p)'
        BY <2>1, <3>3, <3>4 DEF Carries, At, Linked
      <3> QED
        BY <1>a, <3>3, <3>5
    <2> QED
      BY <1>3, <2>2, <2>3 DEF TakeCeremony
  <1>4. ASSUME NEW p \in Calls, StorePasskey(p) PROVE \A q \in Calls : Carries(q)'
    <2>1. At(p, "store") /\ Carries(p) /\ call[p] \in Call
      BY <1>4, Known DEF StorePasskey
    <2>2. CASE Return(p)
      BY <1>0, <1>i, <2>2, ReturnEffect
    <2>3. CASE call[p].req # None /\ Goto(p, "complete")
      <3>1. PICK r \in Requests, u \in Users : call[p].req = r /\ call[p].user = u
        BY <2>1, <2>3 DEF At, Carries, Call
      <3>2. /\ OthersKeep(p) /\ call'[p].pc = "complete" /\ call'[p].req = r
            /\ call'[p].user = u /\ call'[p].provider = "passkey"
        BY <1>0, <2>1, <2>3, <3>1, GotoEffect DEF Pcs, Carries, At
      <3>3. Linked(r, u, "passkey")'
        BY <1>0, <2>1, <2>3, <3>1, LinkedStays DEF At, Carries
      <3>4. \E k \in passkeys' : k.via = r
        <4> DEFINE k == [user |-> call[p].user, cred |-> call[p].cred, via |-> call[p].req]
        <4>1. k \in passkeys' /\ k.via = r
          BY <1>4, <3>1 DEF StorePasskey
        <4> QED
          BY <4>1
      <3>5. Carries(p)'
        BY <3>2, <3>3, <3>4 DEF Carries, At, Linked, Granted
      <3> QED
        BY <1>a, <3>2, <3>5
    <2> QED
      BY <1>4, <2>2, <2>3 DEF StorePasskey
  <1>5. ASSUME NEW p \in Calls, UpsertIdentity(p) PROVE \A q \in Calls : Carries(q)'
    <2>1. At(p, "upsert") /\ Carries(p)
      BY <1>5, Known DEF UpsertIdentity
    <2>2. PICK r \in Requests, u \in Users : call[p].req = r /\ call[p].user = u
      BY <2>1 DEF Carries, Linked
    <2>3. /\ OthersKeep(p) /\ call'[p].pc = "complete" /\ call'[p].req = r
          /\ call'[p].user = u /\ call'[p].provider = "freja"
      BY <1>0, <1>5, <2>1, <2>2, GotoEffect DEF UpsertIdentity, Pcs, Carries
    <2>4. Linked(r, u, "freja")'
      BY <1>0, <2>1, <2>2, LinkedStays DEF Carries
    <2>5. call[p].sub \in Subs /\ u \in FrejaUsers[call[p].sub]
      BY <2>1, <2>2 DEF Carries
    <2>6. identities'[call[p].sub] # None
      BY <1>0, <1>5, <2>2, <2>5, NoneAssumption DEF UpsertIdentity, TypeOK
    <2>7. \E s \in Subs : u \in FrejaUsers[s] /\ identities'[s] # None
      BY <2>5, <2>6
    <2>8. Carries(p)'
      BY <2>3, <2>4, <2>7 DEF Carries, At, Linked, Granted
    <2> QED
      BY <1>a, <2>3, <2>8
  <1>6. ASSUME NEW p \in Calls, Complete(p) PROVE \A q \in Calls : Carries(q)'
    <2>1. At(p, "complete") /\ Carries(p)
      BY <1>6, Known DEF Complete
    <2>2. CASE Return(p)
      BY <1>0, <1>i, <2>2, ReturnEffect
    <2>3. CASE call[p].provider = "freja" /\ Goto(p, "session")
      <3>1. PICK r \in Requests, u \in Users : call[p].req = r /\ call[p].user = u
        BY <2>1 DEF Carries, Linked
      <3>2. /\ OthersKeep(p) /\ call'[p].pc = "session" /\ call'[p].req = r
            /\ call'[p].user = u
        BY <1>0, <2>3, <3>1, GotoEffect DEF Pcs
      <3>a. Linked(r, u, "freja")
        BY <2>1, <2>3, <3>1 DEF Carries
      <3>3. Linked(r, u, "freja")'
        BY <1>0, <3>a, LinkedStays
      <3>4. reset'[r].status = "completed"
        BY <1>0, <1>6, <3>1, StatusEffect DEF Complete
      <3>5. Carries(p)'
        BY <3>2, <3>3, <3>4 DEF Carries, At, Linked
      <3> QED
        BY <1>a, <3>2, <3>5
    <2> QED
      BY <1>6, <2>2, <2>3 DEF Complete
  <1>7. ASSUME NEW p \in Calls,
               MailLink(p) \/ StoreChallenge(p) \/ CreateSession(p) \/ Disconnect(p)
                 \/ \E r \in Requests : InsertReset(p, r)
        PROVE  \A q \in Calls : Carries(q)'
    BY <1>0, <1>7, <1>i, ReturnEffect
       DEF MailLink, StoreChallenge, CreateSession, Disconnect, InsertReset
  <1>8. ASSUME NEW p \in Calls, NEW r \in Requests, NEW t \in Tokens, ReadPending(p, r, t)
        PROVE  \A q \in Calls : Carries(q)'
    <2>1. OthersKeep(p) /\ call'[p].pc = "approve" /\ call'[p].req = r /\ call'[p].token = t
      BY <1>0, <1>8, ReadPendingEffect
    <2>2. Carries(p)'
      BY <2>1 DEF Carries, At
    <2> QED
      BY <1>a, <2>1, <2>2
  <1>9. ASSUME NEW p \in Calls, NEW r \in Requests, FinishResetPasskey(p, r)
        PROVE  \A q \in Calls : Carries(q)'
    <2>1. PICK u : reset[r].user = u
      OBVIOUS
    <2>2. /\ OthersKeep(p) /\ call'[p].pc = "take" /\ call'[p].req = r
          /\ call'[p].provider = "passkey" /\ call'[p].user = u /\ Linked(r, u, "passkey")
      BY <1>0, <1>9, <2>1, FinishResetEffect
    <2>3. Linked(r, u, "passkey")'
      BY <1>0, <2>2, LinkedStays
    <2>4. Carries(p)'
      BY <2>2, <2>3 DEF Carries, At, Linked
    <2> QED
      BY <1>a, <2>2, <2>4
  <1>10. ASSUME NEW p \in Calls, NEW r \in Requests, NEW c \in Creds,
                BeginResetPasskey(p, r, c)
         PROVE  \A q \in Calls : Carries(q)'
    <2>1. /\ OthersKeep(p) /\ call'[p].pc = "challenge" /\ call'[p].user \in Users
          /\ call'[p].cred = c
      BY <1>0, <1>10, BeginResetEffect
    <2>2. Carries(p)'
      BY <2>1 DEF Carries, At
    <2> QED
      BY <1>a, <2>1, <2>2
  <1>11. ASSUME NEW p \in Calls, NEW r \in Requests, NEW s \in Subs, ResetFreja(p, r, s)
         PROVE  \A q \in Calls : Carries(q)'
    <2>1. PICK u : reset[r].user = u
      OBVIOUS
    <2>2. /\ OthersKeep(p) /\ call'[p].pc = "upsert" /\ call'[p].req = r
          /\ call'[p].provider = "freja" /\ call'[p].user = u /\ Linked(r, u, "freja")
          /\ call'[p].sub = s /\ u \in FrejaUsers[s]
      BY <1>0, <1>11, <2>1, ResetFrejaEffect
    <2>3. Linked(r, u, "freja")'
      BY <1>0, <2>2, LinkedStays
    <2>4. Carries(p)'
      BY <2>2, <2>3 DEF Carries, At, Linked
    <2> QED
      BY <1>a, <2>2, <2>4
  <1>12. ASSUME NEW p \in Calls, NEW u \in Users, FinishAddPasskey(p, u)
         PROVE  \A q \in Calls : Carries(q)'
    <2>1. /\ OthersKeep(p) /\ call'[p].pc = "take" /\ call'[p].req = None
          /\ call'[p].provider = "passkey" /\ call'[p].user = u
      BY <1>0, <1>12, FinishAddEffect
    <2>2. Carries(p)'
      BY <2>1 DEF Carries, At
    <2> QED
      BY <1>a, <2>1, <2>2
  <1>13. ASSUME NEW p \in Calls, NEW u \in Users, NEW provider \in Providers,
                RequestReset(p, u, provider)
         PROVE  \A q \in Calls : Carries(q)'
    <2>1. OthersKeep(p) /\ call'[p].pc = "insert" /\ call'[p].user = u
      BY <1>0, <1>13, RequestResetEffect
    <2>2. Carries(p)'
      BY <2>1 DEF Carries, At
    <2> QED
      BY <1>a, <2>1, <2>2
  <1>14. ASSUME UNCHANGED call PROVE \A q \in Calls : Carries(q)'
    BY <1>0, <1>14, CarriesKept
  <1> QED
    BY <1>1, <1>2, <1>3, <1>4, <1>5, <1>6, <1>7, <1>8, <1>9, <1>10, <1>11, <1>12,
       <1>13, <1>14
       DEF Next, Handle, RejectCredentialReset, ExpireToken, ExpireCeremony,
           BeginAddPasskey

-----------------------------------------------------------------------------
(* The invariants. *)

LEMMA PasskeyStep ==
  ASSUME IInv, Next
  PROVE  PasskeyNeedsApproval'
  <1>0. TypeOK /\ PasskeyNeedsApproval /\ RowsStep /\ Grows
    BY Rows, GrowsStep DEF IInv
  <1> SUFFICES ASSUME NEW k \in passkeys', k.via # None
               PROVE  /\ reset'[k.via].status \in {"approved", "completed"}
                      /\ reset'[k.via].provider = "passkey"
                      /\ reset'[k.via].user = k.user
                      /\ [req |-> k.via, token |-> reset'[k.via].token] \in mailed'
    BY DEF PasskeyNeedsApproval
  <1>1. k.via \in Requests /\ k.user \in Users
    BY <1>0 DEF Grows, Passkey
  <1>2. PICK r \in Requests, u \in Users : k.via = r /\ k.user = u
    BY <1>1
  <1>3. Linked(r, u, "passkey")
    <2>1. CASE k \in passkeys
      BY <1>0, <1>1, <1>2, <2>1 DEF PasskeyNeedsApproval, Linked
    <2>2. CASE k \notin passkeys
      <3>1. PICK p \in Calls : StorePasskey(p)
        BY <2>2 DEF Next, Handle, Crash, ApproveCredentialReset, MailLink, StoreChallenge,
             TakeCeremony, UpsertIdentity, Complete, CreateSession, Disconnect, InsertReset,
             ReadPending, FinishResetPasskey, BeginResetPasskey, ResetFreja,
             FinishAddPasskey, RequestReset, RejectCredentialReset, ExpireToken,
             ExpireCeremony, BeginAddPasskey
      <3>2. k.via = call[p].req /\ k.user = call[p].user /\ At(p, "store")
        BY <2>2, <3>1 DEF StorePasskey
      <3> QED
        BY <1>2, <3>2, Known DEF Carries, At
    <2> QED
      BY <2>1, <2>2
  <1> QED
    BY <1>0, <1>2, <1>3, LinkedStays

LEMMA CompletedStep ==
  ASSUME IInv, Next
  PROVE  CompletedAfterCredential'
  <1>0. TypeOK /\ CompletedAfterCredential /\ RowsStep /\ Grows
    BY Rows, GrowsStep DEF IInv
  <1>1. ASSUME NEW r \in Requests, reset'[r].status = "completed"
        PROVE  \/ reset'[r].provider = "passkey" /\ \E k \in passkeys' : k.via = r
               \/ /\ reset'[r].provider = "freja"
                  /\ \E s \in Subs : reset'[r].user \in FrejaUsers[s] /\ identities'[s] # None
    <2>1. PICK u, v : reset[r].user = u /\ reset[r].provider = v
      OBVIOUS
    <2>2. Granted(r, u, v)
      BY <1>0, <1>1, <2>1 DEF RowsStep, CompletedNow, CompletedAfterCredential, Granted
    <2>3. reset[r].status # "none"
      BY <1>0, <1>1 DEF RowsStep, RowStep
    <2>4. reset'[r].user = u /\ reset'[r].provider = v
      BY <1>0, <2>1, <2>3 DEF RowsStep, RowStep
    <2> QED
      BY <1>0, <2>2, <2>4, GrantedStays DEF Granted
  <1> QED
    BY <1>1 DEF CompletedAfterCredential

LEMMA SessionStep ==
  ASSUME IInv, Next
  PROVE  SessionAfterCompletion'
  <1>0. TypeOK /\ SessionAfterCompletion /\ RowsStep /\ Grows
    BY Rows, GrowsStep DEF IInv
  <1>1. ASSUME NEW u \in sessions', u \notin sessions
        PROVE  \E r \in Requests : /\ reset[r].user = u /\ reset[r].provider = "freja"
                                   /\ reset[r].status = "completed"
    <2>1. PICK p \in Calls : CreateSession(p)
      BY <1>1 DEF Next, Handle, Crash, ApproveCredentialReset, MailLink, StoreChallenge,
           TakeCeremony, StorePasskey, UpsertIdentity, Complete, Disconnect, InsertReset,
           ReadPending, FinishResetPasskey, BeginResetPasskey, ResetFreja,
           FinishAddPasskey, RequestReset, RejectCredentialReset, ExpireToken,
           ExpireCeremony, BeginAddPasskey
    <2>2. At(p, "session") /\ u = call[p].user
      BY <1>1, <2>1 DEF CreateSession
    <2> QED
      BY <2>2, Known DEF Carries, Linked
  <1>2. \A u \in sessions' :
          \E r \in Requests : /\ reset[r].user = u /\ reset[r].provider = "freja"
                              /\ reset[r].status = "completed"
    BY <1>0, <1>1 DEF SessionAfterCompletion
  <1>3. \A r \in Requests : reset[r].status = "completed" =>
          /\ reset'[r].status = "completed"
          /\ reset'[r].user = reset[r].user /\ reset'[r].provider = reset[r].provider
    BY <1>0 DEF RowsStep, RowStep
  <1> QED
    BY <1>2, <1>3 DEF SessionAfterCompletion

-----------------------------------------------------------------------------
(* The theorems. *)

LEMMA InvInit ==
  Init => IInv
  <1> SUFFICES ASSUME Init PROVE IInv
    OBVIOUS
  <1>1. TypeOK
    <2>1. NoRow \in Row
      BY DEF NoRow, Row, Providers
    <2> QED
      BY <2>1, NoCallIdle DEF Init, TypeOK
  <1>2. RowInv /\ CompletedAfterCredential
    BY DEF Init, RowInv, CompletedAfterCredential, NoRow
  <1>3. \A p \in Calls : Carries(p)
    BY NoCallIdle DEF Init, Carries, At
  <1>4. PasskeyNeedsApproval /\ SessionAfterCompletion
    BY DEF Init, PasskeyNeedsApproval, SessionAfterCompletion
  <1> QED
    BY <1>1, <1>2, <1>3, <1>4 DEF IInv

LEMMA InvStep ==
  IInv /\ [Next]_vars => IInv'
  <1> SUFFICES ASSUME IInv, [Next]_vars PROVE IInv'
    OBVIOUS
  <1>1. CASE Next
    <2>1. RowInv'
      <3>1. RowsStep
        BY <1>1, Rows
      <3> QED
        BY <3>1 DEF RowsStep, RowStep, RowInv
    <2> QED
      BY <1>1, <2>1, TypeStep, CarriesStep, PasskeyStep, CompletedStep, SessionStep
         DEF IInv
  <1>2. CASE UNCHANGED vars
    <2>1. TypeOK' /\ RowInv'
      BY <1>2 DEF IInv, vars, TypeOK, RowInv
    <2>2. \A p \in Calls : Carries(p)'
      BY <1>2 DEF IInv, vars, Carries, At, Linked, Granted
    <2>3. PasskeyNeedsApproval' /\ CompletedAfterCredential' /\ SessionAfterCompletion'
      BY <1>2 DEF IInv, vars, PasskeyNeedsApproval, CompletedAfterCredential,
                  SessionAfterCompletion
    <2> QED
      BY <2>1, <2>2, <2>3 DEF IInv
  <1> QED
    BY <1>1, <1>2

\* The inductive invariant: what a request carries from one statement to the next
\* was linked to an approved request for a reset, and still is.
THEOREM Invariant == Spec => []IInv
  BY InvInit, InvStep, PTL DEF Spec

\* The rows of credential_reset_requests, the challenges, passkeys and identities,
\* and what requests carry between two statements have the types of the schema.
THEOREM TypeCorrect == Spec => []TypeOK
  <1>1. IInv => TypeOK
    BY DEF IInv
  <1> QED
    BY <1>1, Invariant, PTL

\* However many requests for a reset, ceremonies and administrators there are,
\* finishResetPasskey stores a passkey only for the user of an approved passkey
\* request whose link was mailed.
THEOREM PasskeyIsApproved == Spec => []PasskeyNeedsApproval
  <1>1. IInv => PasskeyNeedsApproval
    BY DEF IInv
  <1> QED
    BY <1>1, Invariant, PTL

\* The UPDATE to 'completed' of finishResetPasskey and resetFreja comes after the
\* passkey or the identity, whatever stops the handler in between.
THEOREM CompletedIsGranted == Spec => []CompletedAfterCredential
  <1>1. IInv => CompletedAfterCredential
    BY DEF IInv
  <1> QED
    BY <1>1, Invariant, PTL

\* resetFreja calls CreateSession for a user one of whose requests is completed.
THEOREM SessionIsCompleted == Spec => []SessionAfterCompletion
  <1>1. IInv => SessionAfterCompletion
    BY DEF IInv
  <1> QED
    BY <1>1, Invariant, PTL

\* With any number of administrators deciding at once, the first decision on a
\* request and the token stored with it stay (ApproveCredentialReset's
\* AND status='pending', and the UPDATE by id of the completion).
THEOREM DecisionStays == Spec => DecisionIsFinal
  <1>1. IInv /\ [Next]_vars =>
          [\A r \in Requests :
             /\ reset[r].status = "rejected" => reset'[r] = reset[r]
             /\ reset[r].status = "completed" => reset'[r].status = "completed"
             /\ reset[r].status = "approved" =>
                  reset'[r].status \in {"approved", "completed"}
             /\ reset[r].token # None => reset'[r].token = reset[r].token]_vars
    BY Rows DEF RowsStep, RowStep
  <1> QED
    BY <1>1, Invariant, PTL DEF Spec, DecisionIsFinal

=============================================================================
