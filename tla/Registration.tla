---------------------------- MODULE Registration ----------------------------
(***************************************************************************)
(* Sign-up, from the request form to the account: submitRequest,           *)
(* verifyEmail, the two halves of the passkey ceremony, frejaRegister, the *)
(* administrators' approve and reject, and maybeAutoApprove.               *)
(*                                                                         *)
(* net/http runs every request in a goroutine of its own and db.Connect    *)
(* gives the process one database connection, so a statement is atomic, a  *)
(* transaction is atomic, and the statements of different requests         *)
(* interleave.  A member of Calls is a request being served; its record    *)
(* holds the program counter and the locals that outlive a statement.  One *)
(* action is one statement, with the Go code up to the next one.           *)
(*                                                                         *)
(* A request row is never deleted and its e-mail is UNIQUE, so the address *)
(* stands for the row's id, its e-mail token, its set-up token and its     *)
(* pending_user_id, each generated once per row.                           *)
(***************************************************************************)
EXTENDS Naturals, FiniteSets

CONSTANTS Addresses,    \* e-mail addresses as typed; some differ by case only
          Emails,       \* those somebody signs up with
          Lower,        \* LOWER(): the canonical spelling of each address
          AdminEmails,  \* the ADMIN_EMAIL list
          Creds,        \* passkeys an authenticator may create
          Subs,         \* Freja subjects
          FrejaEmails,  \* the addresses Freja may, over time, assert for a subject
          Calls,        \* requests that may be served at the same time
          None

ASSUME EmailsAssumption == Emails \subseteq Addresses
ASSUME LowerAssumption == Lower \in [Addresses -> Addresses]
ASSUME FrejaEmailsAssumption == FrejaEmails \in [Subs -> SUBSET Addresses]
ASSUME AdminAssumption == AdminEmails \subseteq Addresses
ASSUME NoneAssumption == None \notin Addresses \cup Creds \cup Subs

VARIABLES reg,        \* registration_requests, by address
          users,      \* users, by the pending_user_id that became users.id
          creds,      \* webauthn_credentials
          identities, \* user_identities of provider 'freja'
          sessions,   \* users a session row was inserted for
          mailed,     \* addresses that received their verification link
          linked,     \* addresses whose browser received the set-up link
          created,    \* how often OnUserCreated was called, by user
          call        \* the requests being served

vars == <<reg, users, creds, identities, sessions, mailed, linked, created, call>>

-----------------------------------------------------------------------------
(* The tables. *)

Row == [status: {"none", "pending", "rejected", "completed"},
        fresh: BOOLEAN,              \* expires_at > now
        verified: BOOLEAN,           \* email_verified = 1
        setup: BOOLEAN,              \* setup_token_expires_at > now
        challenge: Creds \cup {None},
        credential: Creds \cup {None},
        provider: {"passkey", "freja"},
        sub: Subs \cup {None},
        submitted: BOOLEAN]          \* credential_submitted_at IS NOT NULL

\* "none" is the absence of a row.
NoRow == [status |-> "none", fresh |-> FALSE, verified |-> FALSE,
          setup |-> FALSE, challenge |-> None, credential |-> None,
          provider |-> "passkey", sub |-> None, submitted |-> FALSE]

NewRow == [NoRow EXCEPT !.status = "pending", !.fresh = TRUE]

User == [username: Addresses \cup {None}, role: {"passive", "admin"}]

\* The username None is the absence of a row.
NoUser == [username |-> None, role |-> "passive"]

Exists(u) == users[u].username # None

(* The requests. *)

Pcs == {"idle", "exists", "insert", "mail", "challenge", "credential",
        "provider", "approve", "tx", "notify", "promote", "session"}

\* by: the handler an approval is called from.
Call == [pc: Pcs, req: Emails \cup {None}, cred: Creds \cup {None},
         sub: Subs \cup {None}, provider: {"passkey", "freja"},
         by: {"admin", "passkey", "freja"}]

NoCall == [pc |-> "idle", req |-> None, cred |-> None, sub |-> None,
           provider |-> "passkey", by |-> "admin"]

Idle(p) == call[p].pc = "idle"

At(p, pc) == call[p].pc = pc

Goto(p, pc) == call' = [call EXCEPT ![p].pc = pc]

Return(p) == call' = [call EXCEPT ![p] = NoCall]

Serve(p, c) == call' = [call EXCEPT ![p] = c]

TypeOK ==
  /\ reg \in [Emails -> Row]
  /\ users \in [Emails -> User]
  /\ creds \subseteq [user: Emails, cred: Creds]
  /\ identities \subseteq [user: Emails, sub: Subs \cup {None}]
  /\ sessions \subseteq Emails
  /\ mailed \subseteq Emails
  /\ linked \subseteq Emails
  /\ created \in [Emails -> Nat]
  /\ call \in [Calls -> Call]

Init ==
  /\ reg = [e \in Emails |-> NoRow]
  /\ users = [e \in Emails |-> NoUser]
  /\ creds = {}
  /\ identities = {}
  /\ sessions = {}
  /\ mailed = {}
  /\ linked = {}
  /\ created = [e \in Emails |-> 0]
  /\ call = [p \in Calls |-> NoCall]

-----------------------------------------------------------------------------
(* submitRequest: two look-ups, an insert and a mail. *)

\* SELECT id FROM users WHERE LOWER(username) = LOWER(email).  An address
\* with an account is shown the account-exists page and nothing changes.
SubmitRequest(p, e) ==
  /\ Idle(p)
  /\ \A u \in Emails : Exists(u) => Lower[users[u].username] # Lower[e]
  /\ Serve(p, [NoCall EXCEPT !.pc = "exists", !.req = e])
  /\ UNCHANGED <<reg, users, creds, identities, sessions, mailed, linked, created>>

\* SELECT EXISTS(... WHERE email = ?), whatever the row's status or age.
CheckExisting(p) ==
  /\ At(p, "exists")
  /\ \/ reg[call[p].req].status # "none" /\ Return(p)
     \/ reg[call[p].req].status = "none" /\ Goto(p, "insert")
  /\ UNCHANGED <<reg, users, creds, identities, sessions, mailed, linked, created>>

\* The insert fails on the UNIQUE e-mail when another request came first.
InsertRequest(p) ==
  /\ At(p, "insert")
  /\ \/ /\ reg[call[p].req].status = "none"
        /\ reg' = [reg EXCEPT ![call[p].req] = NewRow]
        /\ Goto(p, "mail")
     \/ /\ reg[call[p].req].status # "none"
        /\ Return(p)
        /\ UNCHANGED reg
  /\ UNCHANGED <<users, creds, identities, sessions, mailed, linked, created>>

\* A mail that cannot be sent is logged and the success page shown all the same.
SendVerification(p) ==
  /\ At(p, "mail")
  /\ mailed' \in {mailed, mailed \cup {call[p].req}}
  /\ Return(p)
  /\ UNCHANGED <<reg, users, creds, identities, sessions, linked, created>>

-----------------------------------------------------------------------------
(* verifyEmail: one guarded UPDATE; the set-up token leaves the server only
   in the redirect, which may be lost. *)

VerifyEmail(e) ==
  /\ e \in mailed
  /\ reg[e].fresh /\ ~reg[e].verified
  /\ reg' = [reg EXCEPT ![e].verified = TRUE, ![e].setup = TRUE]
  /\ linked' \in {linked, linked \cup {e}}
  /\ UNCHANGED <<users, creds, identities, sessions, mailed, created, call>>

-----------------------------------------------------------------------------
(* The row a set-up token opens. *)

SetupOpen(e) ==
  /\ e \in linked
  /\ reg[e].setup
  /\ reg[e].status = "pending"
  /\ reg[e].verified

(* beginRegisterPasskey.  The WebAuthn challenge is represented by the passkey
   the authenticator would create for it, one no other challenge stands for. *)

Unused(c) ==
  /\ \A e \in Emails : c # reg[e].challenge /\ c # reg[e].credential
  /\ \A p \in Calls : c # call[p].cred
  /\ \A k \in creds : c # k.cred

BeginRegisterPasskey(p, e, c) ==
  /\ Idle(p)
  /\ SetupOpen(e)
  /\ Unused(c)
  /\ Serve(p, [NoCall EXCEPT !.pc = "challenge", !.req = e, !.cred = c])
  /\ UNCHANGED <<reg, users, creds, identities, sessions, mailed, linked, created>>

StoreChallenge(p) ==
  /\ At(p, "challenge")
  /\ reg' = [reg EXCEPT ![call[p].req].challenge = call[p].cred]
  /\ Return(p)
  /\ UNCHANGED <<users, creds, identities, sessions, mailed, linked, created>>

(* maybeAutoApprove, as its two callers use it: the address is compared with
   the ADMIN_EMAIL list without regard to case. *)

IsAdminEmail(e) == \E a \in AdminEmails : Lower[a] = Lower[e]

AutoApprove(p, by) ==
  \/ IsAdminEmail(call[p].req)
       /\ Serve(p, [NoCall EXCEPT !.pc = "approve", !.req = call[p].req, !.by = by])
  \/ ~IsAdminEmail(call[p].req) /\ Return(p)

(* finishRegisterPasskey: the row is read, the authenticator's answer is
   verified against the challenge read with it, and the credential is parked
   in the row, now found by its id alone. *)

FinishRegisterPasskey(p, e) ==
  /\ Idle(p)
  /\ SetupOpen(e)
  /\ reg[e].challenge # None
  /\ Serve(p, [NoCall EXCEPT !.pc = "credential", !.req = e, !.cred = reg[e].challenge])
  /\ UNCHANGED <<reg, users, creds, identities, sessions, mailed, linked, created>>

StoreCredential(p) ==
  /\ At(p, "credential")
  /\ reg' = [reg EXCEPT ![call[p].req].credential = call[p].cred,
                        ![call[p].req].submitted = TRUE]
  /\ AutoApprove(p, "passkey")
  /\ UNCHANGED <<users, creds, identities, sessions, mailed, linked, created>>

(* frejaRegister: the address Freja asserts must be the registration's, without
   regard to case.  The name it may fill in is not modelled. *)

FrejaRegister(p, e, s) ==
  /\ Idle(p)
  /\ SetupOpen(e)
  /\ \E f \in FrejaEmails[s] : Lower[f] = Lower[e]
  /\ Serve(p, [NoCall EXCEPT !.pc = "provider", !.req = e, !.sub = s])
  /\ UNCHANGED <<reg, users, creds, identities, sessions, mailed, linked, created>>

\* Bug: the statement also re-opens the row.
StoreFreja_Reopens(p) ==
  /\ At(p, "provider")
  /\ reg' = [reg EXCEPT ![call[p].req].provider = "freja",
                        ![call[p].req].sub = call[p].sub,
                        ![call[p].req].submitted = TRUE,
                        ![call[p].req].status = "pending"]
  /\ AutoApprove(p, "freja")
  /\ UNCHANGED <<users, creds, identities, sessions, mailed, linked, created>>

StoreFreja(p) ==
  /\ At(p, "provider")
  /\ reg' = [reg EXCEPT ![call[p].req].provider = "freja",
                        ![call[p].req].sub = call[p].sub,
                        ![call[p].req].submitted = TRUE]
  /\ AutoApprove(p, "freja")
  /\ UNCHANGED <<users, creds, identities, sessions, mailed, linked, created>>

-----------------------------------------------------------------------------
(* SendApprovalEmail: a SELECT of the pending row outside the transaction, the
   transaction on what was read, the mail and the hook. *)

\* Bug: the SELECT has lost its status = 'pending'.
Approve_AnyStatus(p, e, by) ==
  /\ reg[e].status # "none"
  /\ Serve(p, [pc |-> "tx", req |-> e, cred |-> reg[e].credential,
               sub |-> reg[e].sub, provider |-> reg[e].provider, by |-> by])

Approve(p, e, by) ==
  /\ reg[e].status = "pending"
  /\ Serve(p, [pc |-> "tx", req |-> e, cred |-> reg[e].credential,
               sub |-> reg[e].sub, provider |-> reg[e].provider, by |-> by])

ApproveRegistration(p, e) ==
  /\ Idle(p)
  /\ Approve(p, e, "admin")
  /\ UNCHANGED <<reg, users, creds, identities, sessions, mailed, linked, created>>

ReadPending(p) ==
  /\ At(p, "approve")
  /\ \/ Approve(p, call[p].req, call[p].by)
     \/ reg[call[p].req].status # "pending" /\ Return(p)
  /\ UNCHANGED <<reg, users, creds, identities, sessions, mailed, linked, created>>

\* Bug: every approval generates its own users.id.
InsertableUser_FreshId(e) == \A u \in Emails : users[u].username # e

\* What the INSERT INTO users of both branches needs: users.id is the primary
\* key and users.username is UNIQUE as spelled.
InsertableUser(e) ==
  /\ ~Exists(e)
  /\ \A u \in Emails : users[u].username # e

InsertUser(e) ==
  users' = [users EXCEPT ![e] = [username |-> e, role |-> "passive"]]

MarkCompleted(e) == reg' = [reg EXCEPT ![e].status = "completed"]

\* Bug: a request without a parked passkey is approved all the same.
SendApprovalPasskey_NoCheck(p) ==
  LET e == call[p].req  c == call[p].cred IN
  /\ call[p].provider = "passkey"
  /\ InsertableUser(e)
  /\ \A k \in creds : k.cred # c
  /\ InsertUser(e)
  /\ creds' = creds \cup {[user |-> e, cred |-> c]}
  /\ MarkCompleted(e)
  /\ UNCHANGED identities

\* Bug: the credential is not stored with the account.
SendApprovalPasskey_NoCredential(p) ==
  LET e == call[p].req IN
  /\ call[p].provider = "passkey"
  /\ call[p].cred # None
  /\ InsertableUser(e)
  /\ InsertUser(e)
  /\ MarkCompleted(e)
  /\ UNCHANGED <<creds, identities>>

\* credential_id is UNIQUE.
SendApprovalPasskey(p) ==
  LET e == call[p].req  c == call[p].cred IN
  /\ call[p].provider = "passkey"
  /\ c # None
  /\ InsertableUser(e)
  /\ \A k \in creds : k.cred # c
  /\ InsertUser(e)
  /\ creds' = creds \cup {[user |-> e, cred |-> c]}
  /\ MarkCompleted(e)
  /\ UNCHANGED identities

\* ON CONFLICT (provider, provider_subject) DO NOTHING.
SendApprovalFreja(p) ==
  LET e == call[p].req  s == call[p].sub IN
  /\ call[p].provider = "freja"
  /\ InsertableUser(e)
  /\ InsertUser(e)
  /\ identities' = IF \E i \in identities : i.sub = s
                     THEN identities
                     ELSE identities \cup {[user |-> e, sub |-> s]}
  /\ MarkCompleted(e)
  /\ UNCHANGED creds

Commit(p) ==
  /\ At(p, "tx")
  /\ SendApprovalPasskey(p) \/ SendApprovalFreja(p)
  /\ Goto(p, "notify")
  /\ UNCHANGED <<sessions, mailed, linked, created>>

\* A statement of the transaction fails and the deferred Rollback runs.
Rollback(p) ==
  LET e == call[p].req IN
  /\ At(p, "tx")
  /\ \/ ~InsertableUser(e)
     \/ call[p].provider = "passkey" /\ call[p].cred = None
     \/ call[p].provider = "passkey" /\ \E k \in creds : k.cred = call[p].cred
  /\ Return(p)
  /\ UNCHANGED <<reg, users, creds, identities, sessions, mailed, linked, created>>

\* The approval mail, whose loss is only logged, and OnUserCreated.
Notify(p) ==
  /\ At(p, "notify")
  /\ created' = [created EXCEPT ![call[p].req] = @ + 1]
  /\ IF call[p].by = "admin" THEN Return(p) ELSE Goto(p, "promote")
  /\ UNCHANGED <<reg, users, creds, identities, sessions, mailed, linked>>

\* Bug: the new account keeps the role it was created with.
Promote_Forgotten(p) ==
  /\ At(p, "promote")
  /\ IF call[p].by = "freja" THEN Goto(p, "session") ELSE Return(p)
  /\ UNCHANGED <<reg, users, creds, identities, sessions, mailed, linked, created>>

\* The rest of maybeAutoApprove; its mails to the administrators change nothing.
Promote(p) ==
  /\ At(p, "promote")
  /\ users' = [users EXCEPT ![call[p].req].role = "admin"]
  /\ IF call[p].by = "freja" THEN Goto(p, "session") ELSE Return(p)
  /\ UNCHANGED <<reg, creds, identities, sessions, mailed, linked, created>>

\* frejaRegister signs an auto-approved user in.
CreateSession(p) ==
  /\ At(p, "session")
  /\ sessions' = sessions \cup {call[p].req}
  /\ Return(p)
  /\ UNCHANGED <<reg, users, creds, identities, mailed, linked, created>>

\* Bug: the UPDATE has lost its AND status='pending'.
RejectRegistration_AnyStatus(e) ==
  /\ reg[e].status # "none"
  /\ reg' = [reg EXCEPT ![e].status = "rejected"]
  /\ UNCHANGED <<users, creds, identities, sessions, mailed, linked, created, call>>

RejectRegistration(e) ==
  /\ reg[e].status = "pending"
  /\ reg' = [reg EXCEPT ![e].status = "rejected"]
  /\ UNCHANGED <<users, creds, identities, sessions, mailed, linked, created, call>>

\* Bug: only requests with a parked passkey are listed.
Listed_Passkey(e) ==
  /\ reg[e].status = "pending" /\ reg[e].verified
  /\ reg[e].credential # None

\* What ListPendingRegistrations shows the administrators, and GetCounts counts.
Listed(e) ==
  /\ reg[e].status = "pending" /\ reg[e].verified
  /\ reg[e].credential # None \/ (reg[e].provider = "freja" /\ reg[e].submitted)

-----------------------------------------------------------------------------
(* What the code does not choose. *)

\* Time passes a row's expires_at, or its setup_token_expires_at; only where a
\* handler can still tell, so that expiry adds no states that behave alike.
ExpireEmailToken(e) ==
  /\ reg[e].fresh /\ ~reg[e].verified
  /\ reg' = [reg EXCEPT ![e].fresh = FALSE]
  /\ UNCHANGED <<users, creds, identities, sessions, mailed, linked, created, call>>

ExpireSetupToken(e) ==
  /\ SetupOpen(e)
  /\ reg' = [reg EXCEPT ![e].setup = FALSE]
  /\ UNCHANGED <<users, creds, identities, sessions, mailed, linked, created, call>>

\* The UPDATE of confirmEmailChange, the one other statement of the program
\* that writes a username.  The new address was put in lower case when it was
\* asked for, and the UPDATE fails when it is taken as spelled.
ChangeUsername(u, e) ==
  /\ Exists(u)
  /\ Lower[e] = e
  /\ \A v \in Emails : users[v].username # e
  /\ users' = [users EXCEPT ![u].username = e]
  /\ UNCHANGED <<reg, creds, identities, sessions, mailed, linked, created, call>>

\* The client goes away: r.Context() is cancelled and every later statement of
\* the request fails.  The hook after a commit still runs.
Disconnect(p) ==
  /\ ~Idle(p) /\ ~At(p, "notify")
  /\ Return(p)
  /\ UNCHANGED <<reg, users, creds, identities, sessions, mailed, linked, created>>

\* The process stops and systemd restarts it; committed statements survive.
Crash ==
  /\ \E p \in Calls : ~Idle(p)
  /\ call' = [p \in Calls |-> NoCall]
  /\ UNCHANGED <<reg, users, creds, identities, sessions, mailed, linked, created>>

-----------------------------------------------------------------------------

Handle(p) ==
  \/ CheckExisting(p) \/ InsertRequest(p) \/ SendVerification(p)
  \/ StoreChallenge(p) \/ StoreCredential(p) \/ StoreFreja(p)
  \/ ReadPending(p) \/ Commit(p) \/ Rollback(p)
  \/ Notify(p) \/ Promote(p) \/ CreateSession(p)

Next ==
  \/ Crash
  \/ \E p \in Calls :
       \/ Handle(p)
       \/ Disconnect(p)
       \/ \E e \in Emails :
            \/ SubmitRequest(p, e)
            \/ FinishRegisterPasskey(p, e)
            \/ ApproveRegistration(p, e)
            \/ \E c \in Creds : BeginRegisterPasskey(p, e, c)
            \/ \E s \in Subs : FrejaRegister(p, e, s)
  \/ \E e \in Emails :
       \/ VerifyEmail(e)
       \/ RejectRegistration(e)
       \/ ExpireEmailToken(e)
       \/ ExpireSetupToken(e)
       \/ \E a \in Addresses : ChangeUsername(e, a)

Spec == Init /\ [][Next]_vars

-----------------------------------------------------------------------------
(* Safety. *)

\* A request is 'completed' exactly when its account exists: no interleaving of
\* approvals, rejections, late credential submissions and crashes separates the
\* status column from the users table (the transaction of SendApprovalEmail).
CompletedIffAccount ==
  \A e \in Emails : reg[e].status = "completed" <=> Exists(e)

\* OnUserCreated is called at most once per account and only for an account
\* that exists, however many approvals of the request run side by side
\* (SendApprovalEmail, called by administrators and by maybeAutoApprove).
AnnouncedOnce ==
  \A e \in Emails : created[e] <= 1 /\ (created[e] = 1 => Exists(e))

\* Nobody gets an account whose owner has not proved to read the address and
\* submitted a credential, although approveRegistration takes any request id
\* and SendApprovalEmail never looks at email_verified.
AccountOnlyAfterProof ==
  \A e \in Emails :
    Exists(e) => reg[e].verified /\ reg[e].submitted /\ e \in linked

HasLogin(u) ==
  \/ \E k \in creds : k.user = u
  \/ \E i \in identities : i.user = u

\* An account is created with a way to sign in to it, with one exception: a
\* Freja approval whose subject is another account's identity by then, which
\* ON CONFLICT DO NOTHING passes over (sendApprovalPasskey, sendApprovalFreja).
LoginMissingOnlyByConflict ==
  \A u \in Emails : Exists(u) /\ ~HasLogin(u) =>
    \E i \in identities :
      i.user # u /\ \E f \in FrejaEmails[i.sub] : Lower[f] = Lower[u]

\* The browser that frejaRegister signs in after an automatic approval finds
\* the account an administrator's, whatever was cut short on the way.  No step of
\* this module takes the role away again: setRole is in module Sessions.
SignedInIsAdmin == \A u \in sessions : users[u].role = "admin"

\* The administrators' list has exactly the undecided requests whose owner has
\* done all there is to do: nobody waits for a decision unseen, whichever of the
\* two ways of signing in, or both, they set up, and whatever was cut short
\* (finishRegisterPasskey and frejaRegister write, ListPendingRegistrations reads).
AwaitingIsListed ==
  \A e \in Emails :
    Listed(e) <=> reg[e].status = "pending" /\ reg[e].submitted

ApprovalInFlight(e) == \E p \in Calls : At(p, "tx") /\ call[p].req = e

\* A rejection that finds no approval between its SELECT and its transaction is
\* final: the request stays rejected and no approval of it begins.
RejectionSticks ==
  [][\A e \in Emails :
       reg[e].status = "rejected" /\ ~ApprovalInFlight(e)
         => (reg[e].status = "rejected" /\ ~ApprovalInFlight(e))']_vars

-----------------------------------------------------------------------------
(* The flow implements AccountLifecycle: a row and its approvals are what they
   stand for there. *)

Stage(e) ==
  CASE reg[e].status = "none"      -> "none"
    [] reg[e].status = "rejected"  -> "rejected"
    [] reg[e].status = "completed" -> "account"
    [] reg[e].status = "pending"   ->
         IF reg[e].submitted THEN "submitted"
         ELSE IF reg[e].verified THEN "verified" ELSE "requested"

\* An approval that has read a credential; without one it can only roll back.
Approving(p) ==
  /\ At(p, "tx")
  /\ call[p].provider = "freja" \/ call[p].cred # None

Lifecycle == INSTANCE AccountLifecycle WITH
  stage     <- [e \in Emails |-> Stage(e)],
  approving <- {e \in Emails : \E p \in Calls : Approving(p) /\ call[p].req = e},
  announced <- {e \in Emails : created[e] > 0}

\* Every behaviour of the handlers is one AccountLifecycle allows: stages are
\* passed in order, an approval begins on a submitted and undecided request
\* only, a rejection is overruled only by an approval begun before it, an
\* account is for good, and it is announced after it exists.
FollowsLifecycle == Lifecycle!Spec

-----------------------------------------------------------------------------
(* What the repository says and the code does not do. *)

\* "If a pending registration exists for this email, silently return success"
\* (handler.go:243): the check ends a submission for pending requests only.
SilentOnlyForPending ==
  [][\A p \in Calls :
       CheckExisting(p) /\ Idle(p)' => reg[call[p].req].status = "pending"]_vars

\* A username is "treated as case-insensitive" (001_init.up.sql:24): no two
\* accounts have one that differs in its spelling only.
UsernamesIgnoreCase ==
  \A u, v \in Emails :
    Exists(u) /\ Exists(v) /\ Lower[users[u].username] = Lower[users[v].username] => u = v

\* "The user is immediately promoted to the admin role" (handler.go:93): no
\* automatic approval ends before the promotion.
PromotedWithApproval ==
  [][\A p \in Calls :
       At(p, "promote") /\ ~At(p, "promote")'
         => users'[call[p].req].role = "admin"]_vars

=============================================================================
