--------------------------- MODULE CredentialReset ---------------------------
(***************************************************************************)
(* The way back in for a user who lost a passkey or Freja eID: the request *)
(* (requestCredentialReset), the administrators' decision                  *)
(* (approveCredentialReset, rejectCredentialReset), and the two uses of    *)
(* the link they mail (beginResetPasskey and finishResetPasskey, or        *)
(* resetFreja).  The passkey ceremonies of the settings are here as far as *)
(* they share a row of webauthn_add_sessions with those of a reset.        *)
(*                                                                         *)
(* As in Registration a member of Calls is a request being served and an   *)
(* action is one SQL statement with the Go code up to the next one.        *)
(***************************************************************************)
EXTENDS FiniteSets, Naturals

CONSTANTS Users,
          Requests,    \* ids of credential_reset_requests
          Tokens,      \* 16 random bytes each
          Creds,       \* passkeys an authenticator may create
          Subs,        \* Freja subjects
          FrejaUsers,  \* the users whose address Freja may assert for a subject
          Calls,       \* requests that may be served at the same time
          None

ASSUME FrejaUsersAssumption == FrejaUsers \in [Subs -> SUBSET Users]
ASSUME NoneAssumption == None \notin Users \cup Requests \cup Tokens \cup Creds \cup Subs

VARIABLES reset,       \* credential_reset_requests
          mailed,      \* links that reached their user
          ceremony,    \* webauthn_add_sessions, by user
          passkeys,    \* webauthn_credentials
          identities,  \* the user of user_identities, by Freja subject
          sessions,    \* users a session row was inserted for
          call         \* the requests being served

vars == <<reset, mailed, ceremony, passkeys, identities, sessions, call>>

-----------------------------------------------------------------------------

Providers == {"passkey", "freja"}

\* live: token_expires_at > now.  "none" is the absence of a row.
Row == [status: {"none", "pending", "approved", "rejected", "completed"},
        user: Users \cup {None}, provider: Providers,
        token: Tokens \cup {None}, live: BOOLEAN]

NoRow == [status |-> "none", user |-> None, provider |-> "passkey",
          token |-> None, live |-> FALSE]

\* via: the request a passkey named 'Reset passkey' was stored for.  The table
\* keeps the name only; the request is history.
Passkey == [user: Users, cred: Creds, via: Requests \cup {None}]

Pcs == {"idle", "insert", "approve", "mail", "challenge", "take", "store",
        "upsert", "complete", "session"}

Call == [pc: Pcs, req: Requests \cup {None}, user: Users \cup {None},
         provider: Providers, token: Tokens \cup {None},
         cred: Creds \cup {None}, sub: Subs \cup {None}]

NoCall == [pc |-> "idle", req |-> None, user |-> None, provider |-> "passkey",
           token |-> None, cred |-> None, sub |-> None]

Idle(p) == call[p].pc = "idle"

At(p, pc) == call[p].pc = pc

Serve(p, c) == call' = [call EXCEPT ![p] = c]

Goto(p, pc) == call' = [call EXCEPT ![p].pc = pc]

Return(p) == Serve(p, NoCall)

TypeOK ==
  /\ reset \in [Requests -> Row]
  /\ mailed \subseteq [req: Requests, token: Tokens]
  /\ ceremony \in [Users -> Creds \cup {None}]
  /\ passkeys \subseteq Passkey
  /\ identities \in [Subs -> Users \cup {None}]
  /\ sessions \subseteq Users
  /\ call \in [Calls -> Call]

Init ==
  /\ reset = [r \in Requests |-> NoRow]
  /\ mailed = {}
  /\ ceremony = [u \in Users |-> None]
  /\ passkeys = {}
  /\ identities \in [Subs -> Users \cup {None}]
  /\ sessions = {}
  /\ call = [p \in Calls |-> NoCall]

-----------------------------------------------------------------------------
(* requestCredentialReset: a count of the pending requests, an insert, and a
   mail to every administrator, which changes nothing here. *)

Pending(u, provider) ==
  {r \in Requests : /\ reset[r].status = "pending"
                    /\ reset[r].user = u /\ reset[r].provider = provider}

RequestReset(p, u, provider) ==
  /\ Idle(p)
  /\ Pending(u, provider) = {}
  /\ Serve(p, [NoCall EXCEPT !.pc = "insert", !.user = u, !.provider = provider])
  /\ UNCHANGED <<reset, mailed, ceremony, passkeys, identities, sessions>>

InsertReset(p, r) ==
  /\ At(p, "insert")
  /\ reset[r].status = "none"
  /\ reset' = [reset EXCEPT ![r] = [NoRow EXCEPT !.status = "pending",
                                                 !.user = call[p].user,
                                                 !.provider = call[p].provider]]
  /\ Return(p)
  /\ UNCHANGED <<mailed, ceremony, passkeys, identities, sessions>>

-----------------------------------------------------------------------------
(* approveCredentialReset: a SELECT of the pending row, a fresh token, the
   UPDATE of ApproveCredentialReset and the mail.  The handler does not learn
   how many rows the UPDATE found. *)

Fresh(t) ==
  /\ \A r \in Requests : reset[r].token # t
  /\ \A m \in mailed : m.token # t
  /\ \A p \in Calls : call[p].token # t

ReadPending(p, r, t) ==
  /\ Idle(p)
  /\ reset[r].status = "pending"
  /\ Fresh(t)
  /\ Serve(p, [NoCall EXCEPT !.pc = "approve", !.req = r, !.token = t])
  /\ UNCHANGED <<reset, mailed, ceremony, passkeys, identities, sessions>>

\* Bug: the UPDATE has lost its AND status='pending'.
ApproveCredentialReset_AnyStatus(p) ==
  /\ At(p, "approve")
  /\ reset' = [reset EXCEPT ![call[p].req].status = "approved",
                            ![call[p].req].token = call[p].token,
                            ![call[p].req].live = TRUE]
  /\ Goto(p, "mail")
  /\ UNCHANGED <<mailed, ceremony, passkeys, identities, sessions>>

\* Bug: the UPDATE gets its arguments in another order and stores the id.
ApproveCredentialReset_Swapped(p) ==
  /\ At(p, "approve")
  /\ \/ /\ reset[call[p].req].status = "pending"
        /\ reset' = [reset EXCEPT ![call[p].req].status = "approved",
                                  ![call[p].req].token = call[p].req,
                                  ![call[p].req].live = TRUE]
     \/ /\ reset[call[p].req].status # "pending"
        /\ UNCHANGED reset
  /\ Goto(p, "mail")
  /\ UNCHANGED <<mailed, ceremony, passkeys, identities, sessions>>

ApproveCredentialReset(p) ==
  /\ At(p, "approve")
  /\ \/ /\ reset[call[p].req].status = "pending"
        /\ reset' = [reset EXCEPT ![call[p].req].status = "approved",
                                  ![call[p].req].token = call[p].token,
                                  ![call[p].req].live = TRUE]
     \/ /\ reset[call[p].req].status # "pending"
        /\ UNCHANGED reset
  /\ Goto(p, "mail")
  /\ UNCHANGED <<mailed, ceremony, passkeys, identities, sessions>>

\* The error of a mail that cannot be sent is ignored.
MailLink(p) ==
  /\ At(p, "mail")
  /\ mailed' \in {mailed, mailed \cup {[req |-> call[p].req, token |-> call[p].token]}}
  /\ Return(p)
  /\ UNCHANGED <<reset, ceremony, passkeys, identities, sessions>>

RejectCredentialReset(r) ==
  /\ reset[r].status = "pending"
  /\ reset' = [reset EXCEPT ![r].status = "rejected"]
  /\ UNCHANGED <<mailed, ceremony, passkeys, identities, sessions, call>>

-----------------------------------------------------------------------------
(* The links.  A token opens the approved request it is stored with. *)

\* Bug: the query has lost its AND cr.status = 'approved'.
Opens_AnyStatus(r, provider) ==
  /\ [req |-> r, token |-> reset[r].token] \in mailed
  /\ reset[r].live
  /\ reset[r].provider = provider

Opens(r, provider) ==
  /\ [req |-> r, token |-> reset[r].token] \in mailed
  /\ reset[r].live
  /\ reset[r].status = "approved"
  /\ reset[r].provider = provider

\* A passkey that appears nowhere: a WebAuthn challenge is random and stands
\* for the passkey its answer would register.
Unused(c) ==
  /\ \A u \in Users : ceremony[u] # c
  /\ \A p \in Calls : call[p].cred # c
  /\ \A k \in passkeys : k.cred # c

(* beginResetPasskey: the token's row, and the user's challenge replaced. *)

BeginResetPasskey(p, r, c) ==
  /\ Idle(p)
  /\ Opens(r, "passkey")
  /\ Unused(c)
  /\ Serve(p, [NoCall EXCEPT !.pc = "challenge", !.user = reset[r].user, !.cred = c])
  /\ UNCHANGED <<reset, mailed, ceremony, passkeys, identities, sessions>>

StoreChallenge(p) ==
  /\ At(p, "challenge")
  /\ ceremony' = [ceremony EXCEPT ![call[p].user] = call[p].cred]
  /\ Return(p)
  /\ UNCHANGED <<reset, mailed, passkeys, identities, sessions>>

(* finishResetPasskey: the token's row, DELETE ... RETURNING the challenge, the
   INSERT of the passkey and the UPDATE of the request. *)

\* Bug: the SELECT has lost its AND cr.provider = 'passkey'.
FinishResetPasskey_AnyProvider(p, r) ==
  /\ Idle(p)
  /\ \E provider \in Providers : Opens(r, provider)
  /\ Serve(p, [NoCall EXCEPT !.pc = "take", !.req = r, !.user = reset[r].user])
  /\ UNCHANGED <<reset, mailed, ceremony, passkeys, identities, sessions>>

FinishResetPasskey(p, r) ==
  /\ Idle(p)
  /\ Opens(r, "passkey")
  /\ Serve(p, [NoCall EXCEPT !.pc = "take", !.req = r, !.user = reset[r].user])
  /\ UNCHANGED <<reset, mailed, ceremony, passkeys, identities, sessions>>

\* Bug: the request is marked completed with the challenge taken.
TakeCeremony_Completes(p) ==
  LET u == call[p].user IN
  /\ At(p, "take")
  /\ ceremony[u] # None
  /\ ceremony' = [ceremony EXCEPT ![u] = None]
  /\ Serve(p, [call[p] EXCEPT !.pc = "store", !.cred = ceremony[u]])
  /\ reset' = IF call[p].req = None THEN reset
              ELSE [reset EXCEPT ![call[p].req].status = "completed"]
  /\ UNCHANGED <<mailed, passkeys, identities, sessions>>

\* No challenge, or an answer to another one, ends the request.
TakeCeremony(p) ==
  LET u == call[p].user IN
  /\ At(p, "take")
  /\ ceremony' = [ceremony EXCEPT ![u] = None]
  /\ \/ /\ ceremony[u] # None
        /\ Serve(p, [call[p] EXCEPT !.pc = "store", !.cred = ceremony[u]])
     \/ Return(p)
  /\ UNCHANGED <<reset, mailed, passkeys, identities, sessions>>

StorePasskey(p) ==
  /\ At(p, "store")
  /\ \A k \in passkeys : k.cred # call[p].cred
  /\ passkeys' = passkeys \cup
       {[user |-> call[p].user, cred |-> call[p].cred, via |-> call[p].req]}
  /\ IF call[p].req = None THEN Return(p) ELSE Goto(p, "complete")
  /\ UNCHANGED <<reset, mailed, ceremony, identities, sessions>>

\* UPDATE ... SET status='completed' WHERE id=?
Complete(p) ==
  /\ At(p, "complete")
  /\ reset' = [reset EXCEPT ![call[p].req].status = "completed"]
  /\ IF call[p].provider = "freja" THEN Goto(p, "session") ELSE Return(p)
  /\ UNCHANGED <<mailed, ceremony, passkeys, identities, sessions>>

(* resetFreja: the address Freja asserts must be the account's. *)

ResetFreja(p, r, s) ==
  /\ Idle(p)
  /\ Opens(r, "freja")
  /\ reset[r].user \in FrejaUsers[s]
  /\ Serve(p, [NoCall EXCEPT !.pc = "upsert", !.req = r, !.provider = "freja",
                             !.user = reset[r].user, !.sub = s])
  /\ UNCHANGED <<reset, mailed, ceremony, passkeys, identities, sessions>>

\* Bug: the request is not marked completed.
UpsertIdentity_NotCompleted(p) ==
  LET s == call[p].sub IN
  /\ At(p, "upsert")
  /\ identities' = IF identities[s] = None
                     THEN [identities EXCEPT ![s] = call[p].user]
                     ELSE identities
  /\ Goto(p, "session")
  /\ UNCHANGED <<reset, mailed, ceremony, passkeys, sessions>>

\* ON CONFLICT ... DO UPDATE SET provider_email: the identity stays where it is.
UpsertIdentity(p) ==
  LET s == call[p].sub IN
  /\ At(p, "upsert")
  /\ identities' = IF identities[s] = None
                     THEN [identities EXCEPT ![s] = call[p].user]
                     ELSE identities
  /\ Goto(p, "complete")
  /\ UNCHANGED <<reset, mailed, ceremony, passkeys, sessions>>

CreateSession(p) ==
  /\ At(p, "session")
  /\ sessions' = sessions \cup {call[p].user}
  /\ Return(p)
  /\ UNCHANGED <<reset, mailed, ceremony, passkeys, identities>>

-----------------------------------------------------------------------------
(* The settings of a signed-in user: beginAddPasskey and finishAddPasskey on
   the same row of webauthn_add_sessions (module LoginMethods). *)

BeginAddPasskey(u, c) ==
  /\ Unused(c)
  /\ ceremony' = [ceremony EXCEPT ![u] = c]
  /\ UNCHANGED <<reset, mailed, passkeys, identities, sessions, call>>

FinishAddPasskey(p, u) ==
  /\ Idle(p)
  /\ Serve(p, [NoCall EXCEPT !.pc = "take", !.user = u])
  /\ UNCHANGED <<reset, mailed, ceremony, passkeys, identities, sessions>>

\* Time passes the link's token_expires_at.
ExpireToken(r) ==
  /\ reset[r].status = "approved" /\ reset[r].live
  /\ reset' = [reset EXCEPT ![r].live = FALSE]
  /\ UNCHANGED <<mailed, ceremony, passkeys, identities, sessions, call>>

\* Time passes the challenge's expires_at.
ExpireCeremony(u) ==
  /\ ceremony[u] # None
  /\ ceremony' = [ceremony EXCEPT ![u] = None]
  /\ UNCHANGED <<reset, mailed, passkeys, identities, sessions, call>>

\* The client goes away and the statements left fail.
Disconnect(p) ==
  /\ ~Idle(p)
  /\ Return(p)
  /\ UNCHANGED <<reset, mailed, ceremony, passkeys, identities, sessions>>

\* The process stops and systemd restarts it; committed statements survive.
Crash ==
  /\ \E p \in Calls : ~Idle(p)
  /\ call' = [p \in Calls |-> NoCall]
  /\ UNCHANGED <<reset, mailed, ceremony, passkeys, identities, sessions>>

Handle(p) ==
  \/ ApproveCredentialReset(p) \/ MailLink(p)
  \/ StoreChallenge(p) \/ TakeCeremony(p) \/ StorePasskey(p)
  \/ UpsertIdentity(p) \/ Complete(p) \/ CreateSession(p)

Next ==
  \/ Crash
  \/ \E p \in Calls :
       \/ Handle(p)
       \/ Disconnect(p)
       \/ \E r \in Requests :
            \/ InsertReset(p, r)
            \/ \E t \in Tokens : ReadPending(p, r, t)
            \/ FinishResetPasskey(p, r)
            \/ \E c \in Creds : BeginResetPasskey(p, r, c)
            \/ \E s \in Subs : ResetFreja(p, r, s)
       \/ \E u \in Users :
            \/ FinishAddPasskey(p, u)
            \/ \E provider \in Providers : RequestReset(p, u, provider)
  \/ \E r \in Requests : RejectCredentialReset(r) \/ ExpireToken(r)
  \/ \E u \in Users :
       \/ ExpireCeremony(u)
       \/ \E c \in Creds : BeginAddPasskey(u, c)

Spec == Init /\ [][Next]_vars

-----------------------------------------------------------------------------
(* Safety. *)

\* A decision on a request is final, and so is its token: of the links several
\* administrators mail for one request at most one ever opens it, a rejected
\* request never opens, and a completed one never opens again
\* (ApproveCredentialReset, RejectCredentialReset, finishResetPasskey).
DecisionIsFinal ==
  [][\A r \in Requests :
       /\ reset[r].status = "rejected" => reset'[r] = reset[r]
       /\ reset[r].status = "completed" => reset'[r].status = "completed"
       /\ reset[r].status = "approved" => reset'[r].status \in {"approved", "completed"}
       /\ reset[r].token # None => reset'[r].token = reset[r].token]_vars

\* A passkey is stored by a reset only for the user of a passkey request that an
\* administrator approved and whose link reached the user, whatever ceremony of
\* the settings or of another reset its challenge came from.
PasskeyNeedsApproval ==
  \A k \in passkeys : k.via # None =>
    LET r == reset[k.via] IN
    /\ r.status \in {"approved", "completed"}
    /\ r.provider = "passkey" /\ r.user = k.user
    /\ [req |-> k.via, token |-> r.token] \in mailed

\* A request is completed only after the statement that stores what it is for: no
\* crash or disconnect spends the link of a passkey request for nothing, and the
\* subject of a completed Freja request signs in to an account: its user's, or the
\* one that had the subject already, where ON CONFLICT DO UPDATE leaves it.
CompletedAfterCredential ==
  \A r \in Requests : reset[r].status = "completed" =>
    \/ reset[r].provider = "passkey" /\ \E k \in passkeys : k.via = r
    \/ reset[r].provider = "freja"
         /\ \E s \in Subs : reset[r].user \in FrejaUsers[s] /\ identities[s] # None

\* resetFreja signs a user in only once a request of that user is completed,
\* so that the link cannot be used again after the session is there.
SessionAfterCompletion ==
  \A u \in sessions : \E r \in Requests :
    reset[r].user = u /\ reset[r].provider = "freja" /\ reset[r].status = "completed"

-----------------------------------------------------------------------------
(* The flow implements ResetLifecycle. *)

Delivered == {r \in Requests : [req |-> r, token |-> reset[r].token] \in mailed}

\* The requests some call is serving that stands at one of these statements.
Serving(pcs) ==
  {r \in Requests : \E p \in Calls : call[p].pc \in pcs /\ call[p].req = r}

Using == Serving({"take", "store", "upsert"})

Completing == Serving({"complete"})

Stored == {r \in Requests : \E k \in passkeys : k.via = r}

Lifecycle == INSTANCE ResetLifecycle WITH
  stage <- [r \in Requests |-> reset[r].status],
  delivered <- Delivered,
  opened <- Using,
  granted <- Completing,
  stored <- Stored

\* From the approval to the completion every step of a reset rests on the one
\* before it, however many uses of a link, ceremonies and decisions cross: the
\* link of no other decision opens it, nothing is stored or completed but by one
\* who opened it while it was approved, and nobody opens it once it is completed.
FollowsResetLifecycle == Lifecycle!Spec

-----------------------------------------------------------------------------
(* What the repository says and the code does not do. *)

\* approveCredentialReset "generates a one-time token" (admin/handler.go:259):
\* a link stores at most one passkey.
OneTimeToken ==
  \A k, l \in passkeys : k.via # None /\ k.via = l.via => k = l

=============================================================================
