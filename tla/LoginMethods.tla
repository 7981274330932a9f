---------------------------- MODULE LoginMethods ----------------------------
(***************************************************************************)
(* The ways to sign in to an account: passkeys added and deleted in the    *)
(* settings, Freja eID linked and unlinked, and the Freja sign-in, which   *)
(* may replace the subject stored with an identity.                        *)
(*                                                                         *)
(* As in Registration a member of Calls is a request being served and an   *)
(* action is one SQL statement with the Go code up to the next one.        *)
(* Addresses are compared by LOWER() throughout, so an address here stands *)
(* for all its spellings.                                                  *)
(***************************************************************************)
EXTENDS FiniteSets, Naturals

CONSTANTS Users,
          Creds,       \* passkeys an authenticator may create
          Subs,        \* Freja subjects
          Emails,      \* addresses Freja may assert
          Asserted,    \* the pairs of subject and address it does assert
          LinkTokens,  \* keys of freja_link_confirmations
          Calls,       \* requests that may be served at the same time
          None

Freja == [sub: Subs, email: Emails]

ASSUME AssertedAssumption == Asserted \subseteq Freja
ASSUME NoneAssumption == None \notin Users \cup Creds \cup Freja

VARIABLES accounts,    \* the users that exist
          passkeys,    \* webauthn_credentials
          ceremony,    \* webauthn_add_sessions, by user
          identities,  \* user_identities of provider 'freja'
          links,       \* freja_link_confirmations, by token
          sessions,    \* users a session row was inserted for
          call         \* the requests being served

vars == <<accounts, passkeys, ceremony, identities, links, sessions, call>>

-----------------------------------------------------------------------------

\* A token is generated once: "new" before, "used" after its row is gone.
Link == [state: {"new", "open", "used"}, user: Users \cup {None}, freja: Freja \cup {None}]

NewLink == [state |-> "new", user |-> None, freja |-> None]

Pcs == {"idle", "store", "delete", "unlink", "link", "linked",
        "fallback", "adopt", "session"}

\* stale is a history variable: a passkey was deleted from the account since
\* this request counted its passkeys.
Call == [pc: Pcs, user: Users \cup {None}, cred: Creds \cup {None},
         freja: Freja \cup {None}, stale: BOOLEAN]

NoCall == [pc |-> "idle", user |-> None, cred |-> None, freja |-> None, stale |-> FALSE]

Idle(p) == call[p].pc = "idle"

At(p, pc) == call[p].pc = pc

Serve(p, c) == call' = [call EXCEPT ![p] = c]

Goto(p, pc) == call' = [call EXCEPT ![p].pc = pc]

Return(p) == Serve(p, NoCall)

TypeOK ==
  /\ accounts \subseteq Users
  /\ passkeys \subseteq [user: Users, cred: Creds]
  /\ ceremony \in [Users -> Creds \cup {None}]
  /\ identities \subseteq [user: Users, sub: Subs, email: Emails]
  /\ links \in [LinkTokens -> Link]
  /\ sessions \subseteq Users
  /\ call \in [Calls -> Call]

Init ==
  /\ accounts = {}
  /\ passkeys = {}
  /\ ceremony = [u \in Users |-> None]
  /\ identities = {}
  /\ links = [t \in LinkTokens |-> NewLink]
  /\ sessions = {}
  /\ call = [p \in Calls |-> NoCall]

PasskeysOf(u) == {k \in passkeys : k.user = u}

IdentitiesOf(u) == {i \in identities : i.user = u}

HasLogin(u) == PasskeysOf(u) \cup IdentitiesOf(u) # {}

\* A passkey that appears nowhere: WebAuthn challenges and credential ids are
\* random, and a challenge stands for the passkey its answer would register.
Unused(c) ==
  /\ \A u \in Users : ceremony[u] # c
  /\ \A p \in Calls : ~(At(p, "store") /\ call[p].cred = c)
  /\ \A k \in passkeys : k.cred # c

-----------------------------------------------------------------------------
(* Accounts appear when SendApprovalEmail commits (module Registration). *)

CreateWithPasskey(u, c) ==
  /\ u \notin accounts
  /\ Unused(c)
  /\ accounts' = accounts \cup {u}
  /\ passkeys' = passkeys \cup {[user |-> u, cred |-> c]}
  /\ UNCHANGED <<ceremony, identities, links, sessions, call>>

\* INSERT INTO user_identities ... ON CONFLICT (provider, provider_subject) DO NOTHING
InsertIdentity(u, f) ==
  identities' = IF \E i \in identities : i.sub = f.sub
                  THEN identities
                  ELSE identities \cup {[user |-> u, sub |-> f.sub, email |-> f.email]}

CreateWithFreja(u, f) ==
  /\ u \notin accounts
  /\ accounts' = accounts \cup {u}
  /\ InsertIdentity(u, f)
  /\ UNCHANGED <<passkeys, ceremony, links, sessions, call>>

-----------------------------------------------------------------------------
(* beginAddPasskey writes once, replacing the user's challenge.  What it reads
   before only keeps the authenticator from making a passkey it already has. *)

BeginAddPasskey(u, c) ==
  /\ u \in accounts
  /\ Unused(c)
  /\ ceremony' = [ceremony EXCEPT ![u] = c]
  /\ UNCHANGED <<accounts, passkeys, identities, links, sessions, call>>

\* Time passes the challenge's expires_at.
ExpireCeremony(u) ==
  /\ ceremony[u] # None
  /\ ceremony' = [ceremony EXCEPT ![u] = None]
  /\ UNCHANGED <<accounts, passkeys, identities, links, sessions, call>>

(* finishAddPasskey: DELETE ... RETURNING the challenge, verify the answer of
   the authenticator against it, and INSERT the passkey. *)

\* Bug: the challenge is read and stays in its row.
TakeCeremony_NotDeleted(p, u) ==
  /\ Idle(p)
  /\ ceremony[u] # None
  /\ Serve(p, [NoCall EXCEPT !.pc = "store", !.user = u, !.cred = ceremony[u]])
  /\ UNCHANGED <<accounts, passkeys, ceremony, identities, links, sessions>>

\* Bug: a challenge that is not there is accepted.
TakeCeremony_Missing(p, u) ==
  /\ Idle(p)
  /\ Serve(p, [NoCall EXCEPT !.pc = "store", !.user = u, !.cred = ceremony[u]])
  /\ ceremony' = [ceremony EXCEPT ![u] = None]
  /\ UNCHANGED <<accounts, passkeys, identities, links, sessions>>

\* An answer to another challenge ends the request, the challenge is spent.
TakeCeremony(p, u) ==
  /\ Idle(p)
  /\ ceremony[u] # None
  /\ \/ Serve(p, [NoCall EXCEPT !.pc = "store", !.user = u, !.cred = ceremony[u]])
     \/ UNCHANGED call
  /\ ceremony' = [ceremony EXCEPT ![u] = None]
  /\ UNCHANGED <<accounts, passkeys, identities, links, sessions>>

\* credential_id is UNIQUE: the INSERT fails when the passkey is there.
StorePasskey(p) ==
  /\ At(p, "store")
  /\ passkeys' = IF \E k \in passkeys : k.cred = call[p].cred
                   THEN passkeys
                   ELSE passkeys \cup {[user |-> call[p].user, cred |-> call[p].cred]}
  /\ Return(p)
  /\ UNCHANGED <<accounts, ceremony, identities, links, sessions>>

-----------------------------------------------------------------------------
(* deletePasskey: SELECT COUNT, and later the DELETE of the passkey named in
   the path, which may be gone or another user's. *)

CountPasskeys(p, u, c) ==
  /\ Idle(p)
  /\ Cardinality(PasskeysOf(u)) > 1
  /\ Serve(p, [NoCall EXCEPT !.pc = "delete", !.user = u, !.cred = c])
  /\ UNCHANGED <<accounts, passkeys, ceremony, identities, links, sessions>>

Counted(q) == At(q, "delete") \/ At(q, "unlink")

DeletePasskey(p) ==
  LET k == [user |-> call[p].user, cred |-> call[p].cred] IN
  /\ At(p, "delete")
  /\ passkeys' = passkeys \ {k}
  /\ call' = [q \in Calls |->
                IF q = p THEN NoCall
                ELSE IF Counted(q) /\ call[q].user = k.user /\ k \in passkeys
                       THEN [call[q] EXCEPT !.stale = TRUE]
                       ELSE call[q]]
  /\ UNCHANGED <<accounts, ceremony, identities, links, sessions>>

(* frejaUnlink: SELECT COUNT of the passkeys, and later the DELETE. *)

\* Bug: Freja is unlinked whether or not there is a passkey to fall back to.
CountForUnlink_NoCheck(p, u) ==
  /\ Idle(p)
  /\ u \in accounts
  /\ Serve(p, [NoCall EXCEPT !.pc = "unlink", !.user = u])
  /\ UNCHANGED <<accounts, passkeys, ceremony, identities, links, sessions>>

CountForUnlink(p, u) ==
  /\ Idle(p)
  /\ u \in accounts
  /\ PasskeysOf(u) # {}
  /\ Serve(p, [NoCall EXCEPT !.pc = "unlink", !.user = u])
  /\ UNCHANGED <<accounts, passkeys, ceremony, identities, links, sessions>>

\* OnFrejaUnlinked follows whether or not the DELETE succeeded.
Unlink(p) ==
  /\ At(p, "unlink")
  /\ identities' = identities \ IdentitiesOf(call[p].user)
  /\ Return(p)
  /\ UNCHANGED <<accounts, passkeys, ceremony, links, sessions>>

-----------------------------------------------------------------------------
(* frejaLink: a look-up by subject or address, and the INSERT of a fresh token.
   No statement of another request reads or writes the token's row, so the two
   are one action. *)

FrejaLink(u, f, t) ==
  /\ u \in accounts
  /\ \A i \in identities : i.sub # f.sub /\ i.email # f.email
  /\ links[t].state = "new"
  /\ links' = [links EXCEPT ![t] = [state |-> "open", user |-> u, freja |-> f]]
  /\ UNCHANGED <<accounts, passkeys, ceremony, identities, sessions, call>>

\* Time passes the token's expires_at.
ExpireLink(t) ==
  /\ links[t].state = "open"
  /\ links' = [links EXCEPT ![t].state = "used"]
  /\ UNCHANGED <<accounts, passkeys, ceremony, identities, sessions, call>>

(* frejaLinkConfirm: DELETE ... RETURNING the identity kept with the token, the
   INSERT, and OnFrejaLinked.  The page frejaLink serves carries no CSRF token;
   a client that takes one from another page passes ValidateCSRF. *)

\* Bug: the DELETE has lost its AND user_id = ?.
ConfirmLink_AnyUser(p, u, t) ==
  /\ Idle(p)
  /\ u \in accounts
  /\ links[t].state = "open"
  /\ links' = [links EXCEPT ![t].state = "used"]
  /\ Serve(p, [NoCall EXCEPT !.pc = "link", !.user = u, !.freja = links[t].freja])
  /\ UNCHANGED <<accounts, passkeys, ceremony, identities, sessions>>

ConfirmLink(p, u, t) ==
  /\ Idle(p)
  /\ links[t].state = "open" /\ links[t].user = u
  /\ links' = [links EXCEPT ![t].state = "used"]
  /\ Serve(p, [NoCall EXCEPT !.pc = "link", !.user = u, !.freja = links[t].freja])
  /\ UNCHANGED <<accounts, passkeys, ceremony, identities, sessions>>

\* Bug: ON CONFLICT ... DO UPDATE SET user_id = excluded.user_id.
LinkIdentity_Takes(p) ==
  LET f == call[p].freja IN
  /\ At(p, "link")
  /\ identities' = {i \in identities : i.sub # f.sub}
                     \cup {[user |-> call[p].user, sub |-> f.sub, email |-> f.email]}
  /\ Goto(p, "linked")
  /\ UNCHANGED <<accounts, passkeys, ceremony, links, sessions>>

LinkIdentity(p) ==
  /\ At(p, "link")
  /\ InsertIdentity(call[p].user, call[p].freja)
  /\ Goto(p, "linked")
  /\ UNCHANGED <<accounts, passkeys, ceremony, links, sessions>>

\* CallOnFrejaLinked.
AnnounceLinked(p) ==
  /\ At(p, "linked")
  /\ Return(p)
  /\ UNCHANGED <<accounts, passkeys, ceremony, identities, links, sessions>>

-----------------------------------------------------------------------------
(* frejaLogin: the account is found by subject, or else by address, and then
   the subject presented replaces the one stored.  Apache sets X-Freja-Sub from
   a claim OpenID Connect requires; the case of an empty one is left out. *)

LookUpSubject(p, f) ==
  /\ Idle(p)
  /\ \/ \E i \in identities :
          /\ i.sub = f.sub
          /\ Serve(p, [NoCall EXCEPT !.pc = "session", !.user = i.user])
     \/ /\ \A i \in identities : i.sub # f.sub
        /\ Serve(p, [NoCall EXCEPT !.pc = "fallback", !.freja = f])
  /\ UNCHANGED <<accounts, passkeys, ceremony, identities, links, sessions>>

\* Without a match the visitor is shown a page and nothing changes.
LookUpEmail(p) ==
  /\ At(p, "fallback")
  /\ \/ \E i \in identities :
          /\ i.email = call[p].freja.email
          /\ Serve(p, [call[p] EXCEPT !.pc = "adopt", !.user = i.user])
     \/ /\ \A i \in identities : i.email # call[p].freja.email
        /\ Return(p)
  /\ UNCHANGED <<accounts, passkeys, ceremony, identities, links, sessions>>

\* The UPDATE sets the subject of every identity of the user.  It fails on
\* UNIQUE (provider, provider_subject), and its error is ignored, when the
\* user has several or another account holds the subject by now.
AdoptSubject(p) ==
  LET f == call[p].freja  u == call[p].user IN
  /\ At(p, "adopt")
  /\ identities' =
       IF /\ Cardinality(IdentitiesOf(u)) <= 1
          /\ \A i \in identities : i.sub = f.sub => i.user = u
         THEN (identities \ IdentitiesOf(u))
                \cup {[i EXCEPT !.sub = f.sub] : i \in IdentitiesOf(u)}
         ELSE identities
  /\ Goto(p, "session")
  /\ UNCHANGED <<accounts, passkeys, ceremony, links, sessions>>

CreateSession(p) ==
  /\ At(p, "session")
  /\ sessions' = sessions \cup {call[p].user}
  /\ Return(p)
  /\ UNCHANGED <<accounts, passkeys, ceremony, identities, links>>

-----------------------------------------------------------------------------
(* The rest of the program and of the world. *)

\* The last UPDATE of confirmEmailChange.
SyncProviderEmail(u, e) ==
  /\ IdentitiesOf(u) # {}
  /\ identities' = (identities \ IdentitiesOf(u))
                     \cup {[i EXCEPT !.email = e] : i \in IdentitiesOf(u)}
  /\ UNCHANGED <<accounts, passkeys, ceremony, links, sessions, call>>

\* The upsert of resetFreja (module CredentialReset): ON CONFLICT DO UPDATE SET
\* provider_email, so a row that is another user's stays theirs.
UpsertIdentity(u, f) ==
  /\ u \in accounts
  /\ identities' = IF \E i \in identities : i.sub = f.sub
                     THEN {IF i.sub = f.sub THEN [i EXCEPT !.email = f.email] ELSE i :
                             i \in identities}
                     ELSE identities \cup {[user |-> u, sub |-> f.sub, email |-> f.email]}
  /\ UNCHANGED <<accounts, passkeys, ceremony, links, sessions, call>>

\* The client goes away and the statements left fail.
Disconnect(p) ==
  /\ ~Idle(p) /\ ~At(p, "linked")
  /\ Return(p)
  /\ UNCHANGED <<accounts, passkeys, ceremony, identities, links, sessions>>

\* The process stops and systemd restarts it; committed statements survive.
Crash ==
  /\ \E p \in Calls : ~Idle(p)
  /\ call' = [p \in Calls |-> NoCall]
  /\ UNCHANGED <<accounts, passkeys, ceremony, identities, links, sessions>>

Handle(p) ==
  \/ StorePasskey(p) \/ DeletePasskey(p) \/ Unlink(p)
  \/ LinkIdentity(p) \/ AnnounceLinked(p)
  \/ LookUpEmail(p) \/ AdoptSubject(p) \/ CreateSession(p)

Next ==
  \/ Crash
  \/ \E p \in Calls :
       \/ Handle(p)
       \/ Disconnect(p)
       \/ \E f \in Asserted : LookUpSubject(p, f)
       \/ \E u \in Users :
            \/ TakeCeremony(p, u)
            \/ CountForUnlink(p, u)
            \/ \E c \in Creds : CountPasskeys(p, u, c)
            \/ \E t \in LinkTokens : ConfirmLink(p, u, t)
  \/ \E u \in Users :
       \/ ExpireCeremony(u)
       \/ \E c \in Creds : CreateWithPasskey(u, c) \/ BeginAddPasskey(u, c)
       \/ \E f \in Asserted :
            \/ CreateWithFreja(u, f)
            \/ UpsertIdentity(u, f)
            \/ \E t \in LinkTokens : FrejaLink(u, f, t)
       \/ \E e \in Emails : SyncProviderEmail(u, e)
  \/ \E t \in LinkTokens : ExpireLink(t)

Spec == Init /\ [][Next]_vars

-----------------------------------------------------------------------------
(* Safety. *)

\* An account loses its last way to sign in only when a passkey was deleted
\* between a request's count of the passkeys and its own removal: the checks of
\* deletePasskey and frejaUnlink together protect it against everything else,
\* the two of them crossing, adopted subjects and crashes included.
LastLoginLostOnlyByRace ==
  [][\A u \in Users :
       HasLogin(u) /\ ~HasLogin(u)' =>
         \E p \in Calls : call[p].stale /\ call[p].user = u]_vars

\* A Freja subject that signs in to one account never, in one step, becomes
\* another's, although five handlers write user_identities and each that looks for
\* conflicts does so before, not while, it writes: the approval, frejaLinkConfirm
\* and frejaLogin, and resetFreja and confirmEmailChange, which replace the address
\* that frejaLogin falls back on.
SubjectStays ==
  [][\A i \in identities, j \in identities' : i.sub = j.sub => i.user = j.user]_vars

\* A challenge is redeemed once: a passkey about to be stored is in no ceremony,
\* in no other request and not stored yet (DELETE ... RETURNING, finishAddPasskey).
ChallengeRedeemedOnce ==
  \A p \in Calls : At(p, "store") =>
    /\ \A u \in Users : ceremony[u] # call[p].cred
    /\ \A q \in Calls \ {p} : At(q, "store") => call[q].cred # call[p].cred
    /\ \A k \in passkeys : k.cred # call[p].cred

\* Freja is linked to the account whose session presented it: a request about
\* to insert an identity holds a link that was opened for its own user.
LinkedByPresenter ==
  \A p \in Calls : At(p, "link") =>
    \E t \in LinkTokens : /\ links[t].state = "used"
                          /\ links[t].user = call[p].user
                          /\ links[t].freja = call[p].freja

-----------------------------------------------------------------------------
(* What the repository says and the code does not do. *)

\* deletePasskey "refuses if it would leave the user with no passkeys at all,
\* which would lock them out of their account" (passkeys.go:328).
DeleteKeepsPasskey ==
  [][\A u \in Users : PasskeysOf(u) # {} => PasskeysOf(u)' # {}]_vars

\* Hooks are called "after the database write succeeds" (hooks.go:36), and
\* OnFrejaLinked "when a user adds Freja eID as a login method" (hooks.go:94).
LinkedHookMeansLinked ==
  [][\A p \in Calls : LinkIdentity(p) =>
       \E i \in identities' : i.user = call[p].user /\ i.sub = call[p].freja.sub]_vars

=============================================================================
