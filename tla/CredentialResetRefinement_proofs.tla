------------------ MODULE CredentialResetRefinement_proofs ------------------
(***************************************************************************)
(* CredentialReset implements ResetLifecycle, for any users, requests,     *)
(* tokens, passkeys, Freja subjects and number of concurrent requests.     *)
(* Most statements only let a use of a link go, or change nothing the      *)
(* abstract specification sees.                                            *)
(***************************************************************************)
EXTENDS CredentialReset_proofs

-----------------------------------------------------------------------------
(* Tokens.  The link of an approval that came second is not the one the first
   approval stored, and a link is not mailed before its UPDATE was tried. *)

\* Nobody has mailed, or is about to mail, the token that p is about to store.
OwnToken(p) ==
  At(p, "approve") =>
    /\ \A m \in mailed : m.token # call[p].token
    /\ \A q \in Calls \ {p} :
         call[q].pc \in {"approve", "mail"} => call[q].token # call[p].token

TokenInv ==
  /\ \A r \in Requests :
       reset[r].token # None => reset[r].status \in {"approved", "completed"}
  /\ \A p \in Calls : OwnToken(p)

RInv == IInv /\ TokenInv

\* The answer is to the user's challenge, and goes on, or ends.
LEMMA TakeMoves ==
  ASSUME IInv, NEW p \in Calls, TakeCeremony(p)
  PROVE  /\ call[p].pc = "take" /\ OthersKeep(p)
         /\ \/ call'[p].pc = "idle"
            \/ call'[p].pc = "store" /\ call'[p].req = call[p].req
         /\ UNCHANGED <<reset, mailed, passkeys>>
  <1>1. TypeOK /\ At(p, "take") /\ call[p].user \in Users
    BY Known DEF TakeCeremony, At, Carries
  <1>2. PICK u \in Users : call[p].user = u
    BY <1>1
  <1>3. CASE Return(p)
    BY <1>1, <1>3, ReturnEffect DEF TakeCeremony, At
  <1>4. CASE ceremony[u] # None /\ Serve(p, [call[p] EXCEPT !.pc = "store", !.cred = ceremony[u]])
    <2>1. ceremony[u] \in Creds
      BY <1>1, <1>4 DEF TypeOK
    <2> QED
      BY <1>1, <1>4, <2>1, TakenEffect DEF TakeCeremony, At
  <1> QED
    BY <1>2, <1>3, <1>4 DEF TakeCeremony

LEMMA TokenRows ==
  ASSUME RInv, Next
  PROVE  \A r \in Requests :
           reset'[r].token # None => reset'[r].status \in {"approved", "completed"}
  <1>0. IInv /\ TypeOK /\ RowInv /\ TokenInv /\ RowsStep
    BY Rows DEF RInv, IInv
  <1> SUFFICES ASSUME NEW r \in Requests, reset'[r].status = "rejected"
               PROVE  reset'[r].token = None
    BY <1>0 DEF RowsStep, RowStep, Row
  <1>1. CASE reset'[r] = reset[r]
    BY <1>0, <1>1 DEF TokenInv
  <1>2. CASE reset'[r] # reset[r]
    <2>1. PICK q \in Requests : RejectCredentialReset(q)
      <3>1. ASSUME NEW p \in Calls, ApproveCredentialReset(p) PROVE FALSE
        BY <1>0, <1>2, <3>1, ApproveEffect
      <3>2. ASSUME NEW p \in Calls, Complete(p) PROVE FALSE
        <4>1. call[p].req \in Requests
          BY <1>0, <3>2, Known DEF Complete, Carries, Linked
        <4> QED
          BY <1>0, <1>2, <3>2, <4>1, StatusEffect DEF Complete
      <3>3. ASSUME NEW p \in Calls, NEW q \in Requests, InsertReset(p, q) PROVE FALSE
        BY <1>0, <1>2, <3>3, InsertResetEffect
      <3>4. ASSUME NEW q \in Requests, ExpireToken(q) PROVE FALSE
        BY <1>0, <1>2, <3>4, ExpireTokenEffect
      <3> QED
        BY <1>2, <3>1, <3>2, <3>3, <3>4
           DEF Next, Handle, Crash, MailLink, StoreChallenge, TakeCeremony, StorePasskey,
               UpsertIdentity, CreateSession, Disconnect, ReadPending, FinishResetPasskey,
               BeginResetPasskey, ResetFreja, FinishAddPasskey, RequestReset,
               ExpireCeremony, BeginAddPasskey
    <2>2. reset[q].status = "pending" /\ reset' = [reset EXCEPT ![q].status = "rejected"]
      BY <2>1 DEF RejectCredentialReset
    <2>3. reset'[q].token = reset[q].token /\ \A x \in Requests \ {q} : reset'[x] = reset[x]
      BY <1>0, <2>2, StatusEffect
    <2> QED
      BY <1>0, <1>2, <2>2, <2>3 DEF RowInv
  <1> QED
    BY <1>1, <1>2

\* Tokens stay apart when nobody draws one and nothing is mailed.
Draws(p) ==
  call'[p].pc \in {"approve", "mail"} =>
    /\ call[p].pc \in {"approve", "mail"} /\ call'[p].token = call[p].token
    /\ call'[p].pc = "approve" => call[p].pc = "approve"

LEMMA TokensKept ==
  ASSUME TokenInv, UNCHANGED mailed, \A p \in Calls : Draws(p)
  PROVE  \A p \in Calls : OwnToken(p)'
  BY DEF TokenInv, OwnToken, Draws, At

LEMMA TokensApart ==
  ASSUME RInv, Next
  PROVE  \A p \in Calls : OwnToken(p)'
  <1>0. IInv /\ TypeOK /\ RowInv /\ TokenInv
    BY DEF RInv, IInv
  <1>a. ASSUME NEW p \in Calls, OthersKeep(p), UNCHANGED mailed,
               call'[p].pc \notin {"approve", "mail"}
        PROVE  \A q \in Calls : OwnToken(q)'
    <2>1. \A q \in Calls : Draws(q)
      BY <1>a DEF Draws, OthersKeep
    <2> QED
      BY <1>0, <1>a, <2>1, TokensKept
  <1>1. ASSUME Crash PROVE \A q \in Calls : OwnToken(q)'
    BY <1>1, NoCallIdle DEF Crash, OwnToken, At
  <1>2. ASSUME NEW p \in Calls, ApproveCredentialReset(p) PROVE \A q \in Calls : OwnToken(q)'
    <2>1. /\ At(p, "approve") /\ OthersKeep(p) /\ call'[p].pc = "mail"
          /\ call'[p].token = call[p].token /\ UNCHANGED mailed
      BY <1>0, <1>2, GotoEffect DEF ApproveCredentialReset, Pcs
    <2>2. \A q \in Calls : Draws(q)
      BY <2>1 DEF Draws, OthersKeep, At
    <2> QED
      BY <1>0, <2>1, <2>2, TokensKept
  <1>3. ASSUME NEW p \in Calls, MailLink(p) PROVE \A q \in Calls : OwnToken(q)'
    <2>1. At(p, "mail") /\ OthersKeep(p) /\ call'[p].pc = "idle"
      BY <1>0, <1>3, ReturnEffect DEF MailLink
    <2>2. \A m \in mailed' : m \in mailed \/ m.token = call[p].token
      BY <1>3 DEF MailLink
    <2> QED
      BY <1>0, <2>1, <2>2 DEF TokenInv, OwnToken, OthersKeep, At
  <1>4. ASSUME NEW p \in Calls, NEW r \in Requests, NEW t \in Tokens, ReadPending(p, r, t)
        PROVE  \A q \in Calls : OwnToken(q)'
    <2>1. OthersKeep(p) /\ call'[p].pc = "approve" /\ call'[p].token = t
      BY <1>0, <1>4, ReadPendingEffect
    <2>2. /\ UNCHANGED mailed /\ \A m \in mailed : m.token # t
          /\ \A q \in Calls : call[q].token # t
      BY <1>4 DEF ReadPending, Fresh
    <2> QED
      BY <1>0, <2>1, <2>2 DEF TokenInv, OwnToken, OthersKeep, At
  <1>5. ASSUME NEW p \in Calls,
               \/ StoreChallenge(p) \/ CreateSession(p) \/ Disconnect(p)
               \/ \E r \in Requests : InsertReset(p, r)
        PROVE  \A q \in Calls : OwnToken(q)'
    BY <1>0, <1>5, <1>a, ReturnEffect DEF StoreChallenge, CreateSession, Disconnect, InsertReset
  <1>6. ASSUME NEW p \in Calls, StorePasskey(p) \/ UpsertIdentity(p) \/ Complete(p)
        PROVE  \A q \in Calls : OwnToken(q)'
    <2>1. UNCHANGED mailed /\ (Return(p) \/ Goto(p, "complete") \/ Goto(p, "session"))
      BY <1>6 DEF StorePasskey, UpsertIdentity, Complete
    <2> QED
      BY <1>0, <1>a, <2>1, ReturnEffect, GotoEffect DEF Pcs
  <1>7. ASSUME NEW p \in Calls, TakeCeremony(p) PROVE \A q \in Calls : OwnToken(q)'
    <2>1. UNCHANGED mailed /\ OthersKeep(p) /\ call'[p].pc \in {"idle", "store"}
      BY <1>0, <1>7, TakeMoves
    <2> QED
      BY <1>a, <2>1
  <1>8. ASSUME NEW p \in Calls,
               \/ \E r \in Requests : \/ FinishResetPasskey(p, r)
                                      \/ \E c \in Creds : BeginResetPasskey(p, r, c)
                                      \/ \E s \in Subs : ResetFreja(p, r, s)
               \/ \E u \in Users : \/ FinishAddPasskey(p, u)
                                   \/ \E v \in Providers : RequestReset(p, u, v)
        PROVE  \A q \in Calls : OwnToken(q)'
    <2>1. UNCHANGED mailed
      BY <1>8 DEF FinishResetPasskey, BeginResetPasskey, ResetFreja, FinishAddPasskey,
                  RequestReset
    <2>2. OthersKeep(p) /\ call'[p].pc \in {"take", "challenge", "upsert", "insert"}
      BY <1>0, <1>8, FinishResetEffect, BeginResetEffect, ResetFrejaEffect, FinishAddEffect,
         RequestResetEffect
    <2> QED
      BY <1>a, <2>1, <2>2
  <1>9. ASSUME UNCHANGED <<mailed, call>> PROVE \A q \in Calls : OwnToken(q)'
    BY <1>0, <1>9 DEF TokenInv, OwnToken, At
  <1> QED
    BY <1>1, <1>2, <1>3, <1>4, <1>5, <1>6, <1>7, <1>8, <1>9
       DEF Next, Handle, RejectCredentialReset, ExpireToken, ExpireCeremony, BeginAddPasskey

LEMMA RInvInit == Init => RInv
  <1> SUFFICES ASSUME Init PROVE RInv
    OBVIOUS
  <1>1. TokenInv
    BY NoCallIdle DEF Init, TokenInv, OwnToken, At, NoRow
  <1> QED
    BY <1>1, InvInit DEF RInv

LEMMA RInvStep == RInv /\ [Next]_vars => RInv'
  <1>1. ASSUME RInv, Next PROVE TokenInv'
    BY <1>1, TokenRows, TokensApart DEF TokenInv
  <1>2. ASSUME RInv, UNCHANGED vars PROVE TokenInv'
    BY <1>2 DEF RInv, vars, TokenInv, OwnToken, At
  <1> QED
    BY <1>1, <1>2, InvStep DEF RInv

-----------------------------------------------------------------------------
(* The abstract variables. *)

Uses == {"take", "store", "upsert"}

SameStages == UNCHANGED [r \in Requests |-> reset[r].status]

LEMMA StagesSame ==
  ASSUME \A r \in Requests : reset'[r].status = reset[r].status
  PROVE  SameStages
  BY DEF SameStages

LEMMA BecomeMaps ==
  ASSUME NEW r \in Requests, NEW from, NEW to,
         reset[r].status \in from, reset'[r].status = to,
         \A q \in Requests \ {r} : reset'[q].status = reset[q].status
  PROVE  Lifecycle!Become(r, from, to)
  BY DEF Lifecycle!Become

\* A call that stands in none of these places, before or after, or goes from one
\* to another, moves nothing; one that leaves them may be the last of its request.
LEMMA ServingMoves ==
  ASSUME NEW p \in Calls, OthersKeep(p), NEW pcs
  PROVE  /\ call[p].pc \notin pcs /\ call'[p].pc \notin pcs => UNCHANGED Serving(pcs)
         /\ call[p].pc \in pcs /\ call'[p].pc \notin pcs =>
              Serving(pcs)' \in {Serving(pcs), Serving(pcs) \ {call[p].req}}
         /\ call[p].pc \notin pcs /\ call'[p].pc \in pcs =>
              Serving(pcs)' = Serving(pcs) \cup ({call'[p].req} \cap Requests)
         /\ call[p].pc \in pcs /\ call'[p].pc \in pcs /\ call'[p].req = call[p].req =>
              UNCHANGED Serving(pcs)
  <1> DEFINE S == Serving(pcs)
             T == {r \in Requests : \E q \in Calls : call'[q].pc \in pcs /\ call'[q].req = r}
  <1>a. Serving(pcs)' = T
    BY DEF Serving
  <1>b. \A r \in Requests :
          r \in S <=> \E q \in Calls : call[q].pc \in pcs /\ call[q].req = r
    BY DEF Serving
  <1>c. S \subseteq Requests /\ T \subseteq Requests
    BY DEF Serving
  <1>d. \A q \in Calls \ {p} : call'[q] = call[q]
    BY DEF OthersKeep
  <1>e. \A r \in Requests :
          r \in T <=> \E q \in Calls : call'[q].pc \in pcs /\ call'[q].req = r
    OBVIOUS
  <1> HIDE DEF S, T
  <1>1. CASE call[p].pc \notin pcs /\ call'[p].pc \notin pcs
    <2>1. T = S
      BY <1>1, <1>b, <1>c, <1>d, <1>e
    <2> QED
      BY <1>1, <1>a, <2>1 DEF S
  <1>2. CASE call[p].pc \in pcs /\ call'[p].pc \notin pcs
    <2>1. T \subseteq S /\ S \ {call[p].req} \subseteq T
      BY <1>2, <1>b, <1>c, <1>d, <1>e
    <2>2. T \in {S, S \ {call[p].req}}
      BY <2>1
    <2> QED
      BY <1>2, <1>a, <2>2 DEF S
  <1>3. CASE call[p].pc \notin pcs /\ call'[p].pc \in pcs
    <2>1. T = S \cup ({call'[p].req} \cap Requests)
      BY <1>3, <1>b, <1>c, <1>d, <1>e
    <2> QED
      BY <1>3, <1>a, <2>1 DEF S
  <1>4. CASE call[p].pc \in pcs /\ call'[p].pc \in pcs /\ call'[p].req = call[p].req
    <2>1. T = S
      BY <1>4, <1>b, <1>c, <1>d, <1>e
    <2> QED
      BY <1>4, <1>a, <2>1 DEF S
  <1> QED
    BY <1>1, <1>2, <1>3, <1>4

\* The same, of the two places that the abstract specification sees.
LEMMA CallMoves ==
  ASSUME NEW p \in Calls, OthersKeep(p)
  PROVE  /\ call[p].pc \notin Uses /\ call'[p].pc \notin Uses => UNCHANGED Using
         /\ call[p].pc \in Uses /\ call'[p].pc \notin Uses =>
              Using' \in {Using, Using \ {call[p].req}}
         /\ call[p].pc \notin Uses /\ call'[p].pc \in Uses =>
              Using' = Using \cup ({call'[p].req} \cap Requests)
         /\ call[p].pc \in Uses /\ call'[p].pc \in Uses /\ call'[p].req = call[p].req =>
              UNCHANGED Using
         /\ call[p].pc # "complete" /\ call'[p].pc # "complete" => UNCHANGED Completing
         /\ call[p].pc = "complete" /\ call'[p].pc # "complete" =>
              Completing' \in {Completing, Completing \ {call[p].req}}
         /\ call[p].pc # "complete" /\ call'[p].pc = "complete" =>
              Completing' = Completing \cup ({call'[p].req} \cap Requests)
  <1>1. Using = Serving(Uses) /\ Using' = Serving(Uses)'
    BY DEF Using, Uses
  <1>2. Completing = Serving({"complete"}) /\ Completing' = Serving({"complete"})'
    BY DEF Completing
  <1>3. \A x : x \in {"complete"} <=> x = "complete"
    OBVIOUS
  <1> HIDE DEF Uses
  <1> QED
    BY <1>1, <1>2, <1>3, ServingMoves

LEMMA DeliveredSame ==
  ASSUME UNCHANGED mailed, \A r \in Requests : reset'[r].token = reset[r].token
  PROVE  UNCHANGED Delivered
  BY DEF Delivered

LEMMA StoredSame ==
  ASSUME UNCHANGED passkeys
  PROVE  UNCHANGED Stored
  BY DEF Stored

-----------------------------------------------------------------------------
(* Every step of the handlers is one of ResetLifecycle. *)

SameView == SameStages /\ UNCHANGED <<Delivered, Using, Completing, Stored>>

\* What a step is to the abstract specification.
Follows == Lifecycle!Next \/ SameView

LEMMA GiveUpMaps ==
  ASSUME UNCHANGED <<reset, mailed, passkeys>>,
         Using' \subseteq Using, Completing' \subseteq Completing
  PROVE  Follows
  <1>1. SameStages /\ UNCHANGED <<Delivered, Stored>>
    BY DeliveredSame, StoredSame DEF SameStages
  <1>2. \E S \in SUBSET Using : Using' = Using \ S
    <2> WITNESS Using \ Using' \in SUBSET Using
    <2> QED
      OBVIOUS
  <1>3. \E S \in SUBSET Completing : Completing' = Completing \ S
    <2> WITNESS Completing \ Completing' \in SUBSET Completing
    <2> QED
      OBVIOUS
  <1> QED
    BY <1>1, <1>2, <1>3 DEF Follows, SameStages, Lifecycle!Next, Lifecycle!GiveUp

\* A call that is at none of the places ResetLifecycle sees, before or after.
LEMMA UnseenMaps ==
  ASSUME NEW p \in Calls, OthersKeep(p), UNCHANGED <<reset, mailed, passkeys>>,
         call[p].pc \notin Uses \cup {"complete"}, call'[p].pc \notin Uses \cup {"complete"}
  PROVE  Follows
  BY CallMoves, GiveUpMaps

\* One that lets its use of a link go.
LEMMA LeaveMaps ==
  ASSUME NEW p \in Calls, OthersKeep(p), UNCHANGED <<reset, mailed, passkeys>>,
         call'[p].pc \notin Uses \cup {"complete"}
  PROVE  Follows
  <1>1. Using' \subseteq Using
    BY CallMoves
  <1>2. Completing' \subseteq Completing
    BY CallMoves
  <1> QED
    BY <1>1, <1>2, GiveUpMaps

LEMMA OpenMaps ==
  ASSUME NEW p \in Calls, NEW r \in Requests, NEW provider, Opens(r, provider),
         OthersKeep(p), UNCHANGED <<reset, mailed, passkeys>>,
         call[p].pc = "idle", call'[p].pc \in Uses, call'[p].req = r
  PROVE  Follows
  <1>1. Using' = Using \cup {r} /\ UNCHANGED Completing
    BY CallMoves DEF Uses
  <1>2. SameStages /\ UNCHANGED <<Delivered, Stored>>
    BY DeliveredSame, StoredSame DEF SameStages
  <1>3. reset[r].status = "approved" /\ r \in Delivered
    BY DEF Opens, Delivered
  <1> QED
    BY <1>1, <1>2, <1>3 DEF Follows, SameStages, Lifecycle!Next, Lifecycle!Open

LEMMA GrantMaps ==
  ASSUME NEW p \in Calls, NEW r \in Requests, OthersKeep(p), UNCHANGED <<reset, mailed>>,
         call[p].pc \in Uses, call[p].req = r,
         call'[p].pc = "complete", call'[p].req = r,
         Stored' \in {Stored, Stored \cup {r}}
  PROVE  Follows
  <1>1. Using' \in {Using, Using \ {r}} /\ Completing' = Completing \cup {r}
    BY CallMoves DEF Uses
  <1>2. SameStages /\ UNCHANGED Delivered
    BY DeliveredSame DEF SameStages
  <1>3. r \in Using
    BY DEF Using, Serving, Uses
  <1> QED
    BY <1>1, <1>2, <1>3 DEF Follows, SameStages, Lifecycle!Next, Lifecycle!Grant

LEMMA ApproveMaps ==
  ASSUME RInv, NEW p \in Calls, ApproveCredentialReset(p)
  PROVE  Follows
  <1>0. IInv /\ TypeOK /\ RowInv /\ TokenInv
    BY DEF RInv, IInv
  <1>1. /\ At(p, "approve") /\ OthersKeep(p) /\ call'[p].pc = "mail"
        /\ UNCHANGED <<mailed, passkeys>>
    BY <1>0, GotoEffect DEF ApproveCredentialReset, Pcs
  <1>2. PICK r \in Requests, t \in Tokens : call[p].req = r /\ call[p].token = t
    BY <1>0, <1>1, Known DEF Carries, At
  <1>3. CASE UNCHANGED reset
    BY <1>1, <1>3, UnseenMaps DEF At, Uses
  <1>4. CASE /\ reset[r].status = "pending"
             /\ reset' = [reset EXCEPT ![r].status = "approved", ![r].token = t,
                                       ![r].live = TRUE]
    <2>1. UNCHANGED <<Using, Completing, Stored>>
      BY <1>1, CallMoves, StoredSame DEF At, Uses
    <2>2. /\ reset'[r].status = "approved" /\ reset'[r].token = t
          /\ \A q \in Requests \ {r} : reset'[q] = reset[q]
      <3> DEFINE x == [reset[r] EXCEPT !.status = "approved", !.token = t, !.live = TRUE]
      <3>1. reset \in [Requests -> Row] /\ reset' = [reset EXCEPT ![r] = x]
        BY <1>0, <1>4 DEF TypeOK
      <3>2. x.status = "approved" /\ x.token = t
        BY <3>1 DEF Row
      <3> HIDE DEF x
      <3> QED
        BY <3>1, <3>2
    <2>3. UNCHANGED Delivered
      <3>1. reset[r].token = None /\ t # None
        BY <1>0, <1>4, NoneAssumption DEF RowInv
      <3>2. [req |-> r, token |-> None] \notin mailed
        BY <1>0, NoneAssumption DEF TypeOK
      <3>3. [req |-> r, token |-> t] \notin mailed
        BY <1>0, <1>1, <1>2 DEF TokenInv, OwnToken
      <3>4. \A q \in Requests : q \in Delivered' <=> q \in Delivered
        BY <1>1, <2>2, <3>1, <3>2, <3>3 DEF Delivered
      <3> QED
        BY <3>4 DEF Delivered
    <2>4. Lifecycle!Become(r, {"pending"}, "approved")
      <3>1. /\ reset[r].status = "pending" /\ reset'[r].status = "approved"
            /\ \A q \in Requests \ {r} : reset'[q].status = reset[q].status
        BY <1>4, <2>2
      <3> QED
        BY <3>1, BecomeMaps
    <2> QED
      BY <2>1, <2>3, <2>4 DEF Follows, Lifecycle!Next, Lifecycle!Decide
  <1> QED
    BY <1>2, <1>3, <1>4 DEF ApproveCredentialReset

LEMMA MailMaps ==
  ASSUME RInv, NEW p \in Calls, MailLink(p)
  PROVE  Follows
  <1>0. IInv /\ TypeOK /\ RowInv /\ TokenInv
    BY DEF RInv, IInv
  <1>1. /\ At(p, "mail") /\ OthersKeep(p) /\ call'[p].pc = "idle"
        /\ UNCHANGED <<reset, passkeys>>
    BY <1>0, ReturnEffect DEF MailLink
  <1>2. PICK r \in Requests, t \in Tokens : call[p].req = r /\ call[p].token = t
    BY <1>0, <1>1, Known DEF Carries, At
  <1>3. UNCHANGED <<Using, Completing, Stored>> /\ SameStages
    BY <1>1, CallMoves, StoredSame DEF At, Uses, SameStages
  <1>4. CASE UNCHANGED mailed
    BY <1>1, <1>4, UnseenMaps DEF At, Uses
  <1>5. CASE mailed' = mailed \cup {[req |-> r, token |-> t]}
    <2>1. CASE reset[r].token = t
      <3>1. reset[r].status \in {"approved", "completed"}
        BY <1>0, <2>1, NoneAssumption DEF TokenInv
      <3>2. Delivered' = Delivered \cup {r}
        BY <1>1, <1>5, <2>1 DEF Delivered
      <3> QED
        BY <1>3, <3>1, <3>2 DEF Follows, SameStages, Lifecycle!Next, Lifecycle!Deliver
    <2>2. CASE reset[r].token # t
      <3>1. UNCHANGED Delivered
        BY <1>1, <1>5, <2>2 DEF Delivered
      <3> QED
        BY <1>3, <3>1 DEF Follows, SameView
    <2> QED
      BY <2>1, <2>2
  <1> QED
    BY <1>2, <1>4, <1>5 DEF MailLink

LEMMA StoreMaps ==
  ASSUME RInv, NEW p \in Calls, StorePasskey(p)
  PROVE  Follows
  <1>0. IInv /\ TypeOK
    BY DEF RInv, IInv
  <1>1. At(p, "store") /\ UNCHANGED <<reset, mailed>>
    BY DEF StorePasskey
  <1>2. PICK r \in Requests \cup {None} : call[p].req = r
    BY <1>0 DEF TypeOK, Call
  <1>3. Stored' = Stored \cup ({r} \cap Requests)
    <2> PICK k : k = [user |-> call[p].user, cred |-> call[p].cred, via |-> r]
      OBVIOUS
    <2>1. passkeys' = passkeys \cup {k} /\ k.via = r
      BY <1>2 DEF StorePasskey
    <2> QED
      BY <2>1 DEF Stored
  <1>4. CASE r = None
    <2>1. OthersKeep(p) /\ call'[p].pc = "idle"
      BY <1>0, <1>2, <1>4, ReturnEffect DEF StorePasskey
    <2>2. r \notin Requests
      BY <1>4, NoneAssumption
    <2>3. UNCHANGED <<Using, Completing>>
      <3>1. Using \ {r} = Using
        BY <2>2 DEF Using, Serving
      <3> QED
        BY <1>1, <1>2, <2>1, <3>1, CallMoves DEF At, Uses
    <2>4. UNCHANGED Stored
      BY <1>3, <2>2
    <2> QED
      BY <1>1, <2>3, <2>4, DeliveredSame DEF Follows, SameView, SameStages
  <1>5. CASE r # None
    <2>1. OthersKeep(p) /\ call'[p].pc = "complete" /\ call'[p].req = r
      BY <1>0, <1>2, <1>5, GotoEffect DEF StorePasskey, Pcs
    <2> QED
      BY <1>1, <1>2, <1>3, <1>5, <2>1, GrantMaps DEF At, Uses
  <1> QED
    BY <1>4, <1>5

LEMMA CompleteMaps ==
  ASSUME RInv, NEW p \in Calls, Complete(p)
  PROVE  Follows
  <1>0. IInv /\ TypeOK
    BY DEF RInv, IInv
  <1>1. At(p, "complete") /\ UNCHANGED <<mailed, passkeys>>
    BY DEF Complete
  <1>2. PICK r \in Requests : call[p].req = r
    BY <1>0, <1>1, Known DEF Carries, Linked
  <1>3. reset[r].status \in {"approved", "completed"}
    BY <1>0, <1>1, <1>2, Known DEF Carries, Linked
  <1>4. /\ reset'[r].status = "completed" /\ reset'[r].token = reset[r].token
        /\ \A q \in Requests \ {r} : reset'[q] = reset[q]
    BY <1>0, <1>2, StatusEffect DEF Complete
  <1>5. OthersKeep(p) /\ call'[p].pc \in {"idle", "session"}
    BY <1>0, ReturnEffect, GotoEffect DEF Complete, Pcs
  <1>6. Completing' \in {Completing, Completing \ {r}} /\ UNCHANGED Using
    BY <1>1, <1>2, <1>5, CallMoves DEF At, Uses
  <1>7. r \in Completing
    BY <1>1, <1>2 DEF Completing, Serving, At
  <1>8. UNCHANGED <<Delivered, Stored>>
    BY <1>1, <1>4, DeliveredSame, StoredSame
  <1>9. Lifecycle!Become(r, {"approved", "completed"}, "completed")
    BY <1>3, <1>4, BecomeMaps
  <1> QED
    BY <1>6, <1>7, <1>8, <1>9 DEF Follows, Lifecycle!Next, Lifecycle!Complete

LEMMA InsertMaps ==
  ASSUME RInv, NEW p \in Calls, NEW r \in Requests, InsertReset(p, r)
  PROVE  Follows
  <1>0. IInv /\ TypeOK /\ RowInv
    BY DEF RInv, IInv
  <1>1. At(p, "insert") /\ OthersKeep(p) /\ call'[p].pc = "idle" /\ UNCHANGED <<mailed, passkeys>>
    BY <1>0, ReturnEffect DEF InsertReset
  <1>2. /\ reset[r].status = "none" /\ reset'[r].status = "pending"
        /\ reset'[r].token = None /\ reset[r].token = None
        /\ \A q \in Requests \ {r} : reset'[q] = reset[q]
    BY <1>0, InsertResetEffect DEF RowInv
  <1>3. UNCHANGED <<Using, Completing, Delivered, Stored>>
    BY <1>1, <1>2, CallMoves, DeliveredSame, StoredSame DEF At, Uses
  <1>4. Lifecycle!Become(r, {"none"}, "pending")
    BY <1>2, BecomeMaps
  <1> QED
    BY <1>3, <1>4 DEF Follows, Lifecycle!Next, Lifecycle!Ask

LEMMA RejectMaps ==
  ASSUME RInv, NEW r \in Requests, RejectCredentialReset(r)
  PROVE  Follows
  <1>0. TypeOK
    BY DEF RInv, IInv
  <1>1. /\ reset[r].status = "pending" /\ reset'[r].status = "rejected"
        /\ reset'[r].token = reset[r].token
        /\ \A q \in Requests \ {r} : reset'[q] = reset[q]
        /\ UNCHANGED <<mailed, passkeys, call>>
    BY <1>0, StatusEffect DEF RejectCredentialReset
  <1>2. UNCHANGED <<Using, Completing, Delivered, Stored>>
    BY <1>1, DeliveredSame, StoredSame DEF Using, Completing, Serving
  <1>3. Lifecycle!Become(r, {"pending"}, "rejected")
    BY <1>1, BecomeMaps
  <1> QED
    BY <1>2, <1>3 DEF Follows, Lifecycle!Next, Lifecycle!Decide

\* Some statements, and time, change nothing but what ResetLifecycle does not see.
LEMMA SilentMaps ==
  ASSUME RInv, UNCHANGED <<mailed, passkeys, call>>,
         \A r \in Requests : /\ reset'[r].status = reset[r].status
                             /\ reset'[r].token = reset[r].token
  PROVE  Follows
  BY DeliveredSame, StoredSame, StagesSame
     DEF Follows, SameView, Using, Completing, Serving

LEMMA LifecycleStep ==
  ASSUME RInv, Next
  PROVE  Follows
  <1>0. IInv /\ TypeOK /\ RowInv
    BY DEF RInv, IInv
  <1>1. ASSUME Crash PROVE Follows
    <2>1. Using' = {} /\ Completing' = {}
      BY <1>1, NoCallIdle DEF Crash, Using, Completing, Serving
    <2> QED
      BY <1>1, <2>1, GiveUpMaps DEF Crash
  <1>2. ASSUME NEW p \in Calls, StoreChallenge(p) \/ CreateSession(p) \/ Disconnect(p)
        PROVE  Follows
    BY <1>0, <1>2, LeaveMaps, ReturnEffect DEF StoreChallenge, CreateSession, Disconnect, Uses
  <1>3. ASSUME NEW p \in Calls, TakeCeremony(p) PROVE Follows
    <2>1. CASE call'[p].pc = "idle"
      BY <1>0, <1>3, <2>1, TakeMoves, LeaveMaps DEF Uses
    <2>2. CASE call'[p].pc = "store" /\ call'[p].req = call[p].req
      <3>1. UNCHANGED <<Using, Completing>>
        BY <1>0, <1>3, <2>2, TakeMoves, CallMoves DEF Uses
      <3> QED
        BY <1>0, <1>3, <3>1, TakeMoves, GiveUpMaps
    <2> QED
      BY <1>0, <1>3, <2>1, <2>2, TakeMoves
  <1>4. ASSUME NEW p \in Calls, UpsertIdentity(p) PROVE Follows
    <2>1. At(p, "upsert") /\ UNCHANGED <<reset, mailed, passkeys>>
      BY <1>4 DEF UpsertIdentity
    <2>2. PICK r \in Requests : call[p].req = r
      BY <1>0, <2>1, Known DEF Carries, Linked
    <2>3. OthersKeep(p) /\ call'[p].pc = "complete" /\ call'[p].req = r
      BY <1>0, <1>4, <2>2, GotoEffect DEF UpsertIdentity, Pcs
    <2> QED
      BY <2>1, <2>2, <2>3, GrantMaps, StoredSame DEF At, Uses
  <1>5. ASSUME NEW p \in Calls, NEW r \in Requests, NEW t \in Tokens, ReadPending(p, r, t)
        PROVE  Follows
    BY <1>0, <1>5, UnseenMaps, ReadPendingEffect DEF ReadPending, Idle, Uses
  <1>6. ASSUME NEW p \in Calls, NEW r \in Requests, FinishResetPasskey(p, r) PROVE Follows
    BY <1>0, <1>6, OpenMaps, FinishResetEffect DEF FinishResetPasskey, Idle, Uses
  <1>7. ASSUME NEW p \in Calls, NEW r \in Requests, NEW c \in Creds,
               BeginResetPasskey(p, r, c)
        PROVE  Follows
    BY <1>0, <1>7, UnseenMaps, BeginResetEffect DEF BeginResetPasskey, Idle, Uses
  <1>8. ASSUME NEW p \in Calls, NEW r \in Requests, NEW s \in Subs, ResetFreja(p, r, s)
        PROVE  Follows
    BY <1>0, <1>8, OpenMaps, ResetFrejaEffect DEF ResetFreja, Idle, Uses
  <1>9. ASSUME NEW p \in Calls, NEW u \in Users, FinishAddPasskey(p, u) PROVE Follows
    <2>1. /\ OthersKeep(p) /\ call[p].pc = "idle" /\ call'[p].pc = "take"
          /\ call'[p].req = None /\ UNCHANGED <<reset, mailed, passkeys>>
      BY <1>0, <1>9, FinishAddEffect DEF FinishAddPasskey, Idle
    <2>2. {call'[p].req} \cap Requests = {}
      BY <2>1, NoneAssumption
    <2>3. UNCHANGED <<Using, Completing>>
      BY <2>1, <2>2, CallMoves DEF Uses
    <2> QED
      BY <2>1, <2>3, GiveUpMaps
  <1>10. ASSUME NEW p \in Calls, NEW u \in Users, NEW provider \in Providers,
                RequestReset(p, u, provider)
         PROVE  Follows
    BY <1>0, <1>10, UnseenMaps, RequestResetEffect DEF RequestReset, Idle, Uses
  <1>11. ASSUME NEW r \in Requests, ExpireToken(r) PROVE Follows
    BY <1>0, <1>11, SilentMaps, ExpireTokenEffect DEF ExpireToken
  <1>12. ASSUME NEW u \in Users, ExpireCeremony(u) \/ \E c \in Creds : BeginAddPasskey(u, c)
         PROVE  Follows
    BY <1>12, SilentMaps DEF ExpireCeremony, BeginAddPasskey
  <1> QED
    BY <1>1, <1>2, <1>3, <1>4, <1>5, <1>6, <1>7, <1>8, <1>9, <1>10, <1>11, <1>12,
       ApproveMaps, MailMaps, StoreMaps, CompleteMaps, InsertMaps, RejectMaps
       DEF Next, Handle

\* However many uses of a link, ceremonies and decisions cross, the handlers of a
\* reset implement ResetLifecycle: opened after the approval and with its link,
\* granted by one who opened it, completed by one who granted.
THEOREM ResetFollowsLifecycle == Spec => FollowsResetLifecycle
  <1>1. Init => Lifecycle!Init
    <2> SUFFICES ASSUME Init PROVE Lifecycle!Init
      OBVIOUS
    <2>1. [r \in Requests |-> reset[r].status] = [r \in Requests |-> "none"]
      BY DEF Init, NoRow
    <2>2. Delivered = {} /\ Stored = {} /\ Using = {} /\ Completing = {}
      BY NoCallIdle DEF Init, Delivered, Stored, Using, Completing, Serving
    <2> QED
      BY <2>1, <2>2 DEF Lifecycle!Init
  <1>2. RInv /\ [Next]_vars => [Lifecycle!Next]_Lifecycle!vars
    <2>1. UNCHANGED vars => SameView
      BY DEF vars, SameView, SameStages, Delivered, Using, Completing, Serving, Stored
    <2>2. SameView => UNCHANGED Lifecycle!vars
      BY DEF SameView, SameStages, Lifecycle!vars
    <2> QED
      BY <2>1, <2>2, LifecycleStep DEF Follows
  <1> QED
    BY <1>1, <1>2, RInvInit, RInvStep, PTL
       DEF Spec, FollowsResetLifecycle, Lifecycle!Spec

=============================================================================
