---------------------------- MODULE EmailChange ----------------------------
(***************************************************************************)
(* requestEmailChange and confirmEmailChange, beside every other statement *)
(* that writes a username or a row of user_identities: the approval's      *)
(* INSERTs, resetFreja, frejaLinkConfirm, frejaLogin and frejaUnlink.      *)
(*                                                                         *)
(* A statement is atomic and the statements of different requests          *)
(* interleave; a member of Calls is a request being served.  An address is *)
(* a mailbox and a spelling: a registration keeps the spelling that was    *)
(* typed, a change lowers it, and the two spellings of one mailbox differ  *)
(* for the UNIQUE constraint but not for LOWER().  A member of Links is    *)
(* the random token of one mailed link, a member of Subs a Freja subject.  *)
(***************************************************************************)
EXTENDS Naturals

CONSTANTS Users, Mailboxes, Links, Subs, Calls, None,
          Typed   \* the spellings in which addresses are registered

VARIABLES username,   \* users.username, None before the account exists
          identity,   \* user_identities: owner and provider_email by subject
          token,      \* email_change_tokens; a row keeps its contents here when deleted
          mailed,     \* which link was delivered to which mailbox
          told,       \* the address OnUserCreated or OnEmailChanged last gave
          call        \* the requests being served

\* History, read by the properties only.
VARIABLES joined,     \* the mailbox each user registered with
          applied,    \* links whose change was made
          stale,      \* requests whose user's name changed after they read it
          crossed     \* whose identity or host fell behind by one of the events
                      \* that IdentityInStep and HostHasAddress name

history == <<joined, applied, stale, crossed>>

vars == <<username, identity, token, mailed, told, call, history>>

-----------------------------------------------------------------------------

Spellings == {"lower", "mixed"}

Address == [mailbox: Mailboxes, spelling: Spellings]

ASSUME TypedAssumption == Typed \subseteq Spellings

ASSUME NoneAssumption ==
  None \notin Users \cup Mailboxes \cup Links \cup Subs \cup Address

Lower(m) == [mailbox |-> m, spelling |-> "lower"]

\* "unused" and "gone" are the absence of a row, or an expired one.
Token == [state: {"unused", "open", "gone"},
          user: Users \cup {None}, mailbox: Mailboxes \cup {None}]

NoToken == [state |-> "unused", user |-> None, mailbox |-> None]

\* NoIdentity is the absence of a row.
Identity == [user: Users \cup {None}, mailbox: Mailboxes \cup {None}]

NoIdentity == [user |-> None, mailbox |-> None]

Call == [pc: {"idle", "insert", "mail", "username", "identity", "hook",
              "notify", "upsert"},
         user: Users \cup {None}, mailbox: Mailboxes \cup {None},
         link: Links \cup {None}, sub: Subs \cup {None}]

NoCall == [pc |-> "idle", user |-> None, mailbox |-> None, link |-> None,
           sub |-> None]

Members == {u \in Users : username[u] # None}

At(p, pc) == call[p].pc = pc

Serve(p, c) == call' = [call EXCEPT ![p] = c]

Goto(p, pc) == call' = [call EXCEPT ![p].pc = pc]

Return(p) == Serve(p, NoCall)

\* Other requests that write for the same user and are not done.
Others(p, pcs) ==
  {q \in Calls \ {p} : call[q].pc \in pcs /\ call[q].user = call[p].user}

TypeOK ==
  /\ username \in [Users -> Address \cup {None}]
  /\ identity \in [Subs -> Identity]
  /\ token \in [Links -> Token]
  /\ mailed \subseteq Mailboxes \X Links
  /\ told \in [Users -> Mailboxes \cup {None}]
  /\ call \in [Calls -> Call]
  /\ joined \in [Users -> Mailboxes \cup {None}]
  /\ applied \subseteq Links
  /\ stale \subseteq Calls
  /\ crossed \subseteq Users \X {"identity", "told"}

Init ==
  /\ username = [u \in Users |-> None]
  /\ identity = [s \in Subs |-> NoIdentity]
  /\ token = [l \in Links |-> NoToken]
  /\ mailed = {}
  /\ told = [u \in Users |-> None]
  /\ call = [p \in Calls |-> NoCall]
  /\ joined = [u \in Users |-> None]
  /\ applied = {}
  /\ stale = {}
  /\ crossed = {}

-----------------------------------------------------------------------------
(* The approval of a registration. *)

\* The transaction of an approval, with the address as it was registered: that it
\* was free when the registration was submitted says nothing any more.  A Freja
\* registration brings a subject, and ON CONFLICT DO NOTHING keeps another's row.
Join(p, u, a, s) ==
  /\ At(p, "idle")
  /\ username[u] = None
  /\ a.spelling \in Typed
  /\ \A v \in Users : username[v] # a
  /\ username' = [username EXCEPT ![u] = a]
  /\ identity' = [t \in Subs |->
                    IF t = s /\ identity[t] = NoIdentity
                      THEN [user |-> u, mailbox |-> a.mailbox] ELSE identity[t]]
  /\ joined' = [joined EXCEPT ![u] = a.mailbox]
  /\ Serve(p, [NoCall EXCEPT !.pc = "notify", !.user = u, !.mailbox = a.mailbox])
  /\ UNCHANGED <<token, mailed, told, applied, stale, crossed>>

\* After the commit and a mail that may take its time.
CallOnUserCreated(p) ==
  /\ At(p, "notify")
  /\ told' = [told EXCEPT ![call[p].user] = call[p].mailbox]
  /\ Return(p)
  /\ UNCHANGED <<username, identity, token, mailed, history>>

-----------------------------------------------------------------------------
(* The other writers of user_identities. *)

\* frejaLinkConfirm, where the subject is free (DO NOTHING otherwise): Freja's
\* address need not be the username.
LinkFreja(u, s, m) ==
  /\ u \in Members
  /\ identity[s] = NoIdentity
  /\ identity' = [identity EXCEPT ![s] = [user |-> u, mailbox |-> m]]
  /\ crossed' = IF m = username[u].mailbox THEN crossed
                                           ELSE crossed \cup {<<u, "identity">>}
  /\ UNCHANGED <<username, token, mailed, told, call, joined, applied, stale>>

\* frejaLogin found the user by the address, some statements ago: every row of
\* theirs gets the subject s, which UNIQUE allows to a single row only.
AdoptSubject(t, s) ==
  /\ identity[t] # NoIdentity
  /\ identity[s] = NoIdentity
  /\ \A r \in Subs \ {t} : identity[r].user # identity[t].user
  /\ identity' = [identity EXCEPT ![t] = NoIdentity, ![s] = identity[t]]
  /\ UNCHANGED <<username, token, mailed, told, call, history>>

UnlinkFreja(u) ==
  /\ identity' = [s \in Subs |->
                    IF identity[s].user = u THEN NoIdentity ELSE identity[s]]
  /\ UNCHANGED <<username, token, mailed, told, call, history>>

\* resetFreja reads the account's address and asks that Freja's be the same.
ResetFreja(p, u, s) ==
  /\ At(p, "idle")
  /\ u \in Members
  /\ Serve(p, [NoCall EXCEPT !.pc = "upsert", !.user = u, !.sub = s,
                             !.mailbox = username[u].mailbox])
  /\ UNCHANGED <<username, identity, token, mailed, told, history>>

\* ON CONFLICT DO UPDATE SET provider_email: the row keeps its owner, who may be
\* another user than the one whose address is written.
UpsertIdentity(p) ==
  LET s == call[p].sub
      owner == IF identity[s] = NoIdentity THEN call[p].user ELSE identity[s].user IN
  /\ At(p, "upsert")
  /\ identity' = [identity EXCEPT ![s] = [user |-> owner, mailbox |-> call[p].mailbox]]
  /\ stale' = stale \ {p}
  /\ crossed' = IF owner = call[p].user /\ p \notin stale
                   THEN crossed ELSE crossed \cup {<<owner, "identity">>}
  /\ Return(p)
  /\ UNCHANGED <<username, token, mailed, told, joined, applied>>

-----------------------------------------------------------------------------
(* requestEmailChange. *)

\* SELECT EXISTS(... LOWER(username)=? AND id!=?).
Taken(u, m) == \E v \in Members \ {u} : username[v].mailbox = m

\* Bug: a form without an address is not refused.
RequestEmailChange_Empty(p, u, m) ==
  /\ At(p, "idle")
  /\ u \in Members
  /\ ~Taken(u, m)
  /\ Serve(p, [NoCall EXCEPT !.pc = "insert", !.user = u])
  /\ UNCHANGED <<username, identity, token, mailed, told, history>>

RequestEmailChange(p, u, m) ==
  /\ At(p, "idle")
  /\ u \in Members
  /\ ~Taken(u, m)
  /\ Serve(p, [NoCall EXCEPT !.pc = "insert", !.user = u, !.mailbox = m])
  /\ UNCHANGED <<username, identity, token, mailed, told, history>>

InsertToken(p, l) ==
  /\ At(p, "insert")
  /\ token[l].state = "unused"
  /\ token' = [token EXCEPT ![l] = [state |-> "open", user |-> call[p].user,
                                    mailbox |-> call[p].mailbox]]
  /\ call' = [call EXCEPT ![p].pc = "mail", ![p].link = l]
  /\ UNCHANGED <<username, identity, mailed, told, history>>

\* Bug: the link goes to the address the user has.
SendEmailChange_Old(p) ==
  /\ At(p, "mail")
  /\ \/ mailed' = mailed \cup {<<username[call[p].user].mailbox, call[p].link>>}
     \/ UNCHANGED mailed
  /\ Return(p)
  /\ UNCHANGED <<username, identity, token, told, history>>

\* The mail may be lost; its error is printed and the page shown all the same.
SendEmailChange(p) ==
  /\ At(p, "mail")
  /\ \/ mailed' = mailed \cup {<<call[p].mailbox, call[p].link>>}
     \/ UNCHANGED mailed
  /\ Return(p)
  /\ UNCHANGED <<username, identity, token, told, history>>

ExpireToken(l) ==
  /\ token[l].state = "open"
  /\ token' = [token EXCEPT ![l].state = "gone"]
  /\ UNCHANGED <<username, identity, mailed, told, call, history>>

-----------------------------------------------------------------------------
(* confirmEmailChange. *)

\* Bug: the row is read and stays until it expires.
ConfirmEmailChange_Select(p, m, l) ==
  /\ At(p, "idle")
  /\ <<m, l>> \in mailed
  /\ token[l].state = "open"
  /\ Serve(p, [NoCall EXCEPT !.pc = "username", !.user = token[l].user,
                             !.mailbox = token[l].mailbox, !.link = l])
  /\ UNCHANGED <<username, identity, token, mailed, told, history>>

\* Whoever reads the mailbox m follows the link: DELETE ... RETURNING.
ConfirmEmailChange(p, m, l) ==
  /\ At(p, "idle")
  /\ <<m, l>> \in mailed
  /\ token[l].state = "open"
  /\ token' = [token EXCEPT ![l].state = "gone"]
  /\ Serve(p, [NoCall EXCEPT !.pc = "username", !.user = token[l].user,
                             !.mailbox = token[l].mailbox, !.link = l])
  /\ UNCHANGED <<username, identity, mailed, told, history>>

\* The UNIQUE constraint compares the spellings, and an error ends the request.
SetUsername(p) ==
  LET u == call[p].user  a == Lower(call[p].mailbox) IN
  /\ At(p, "username")
  /\ IF \E v \in Users \ {u} : username[v] = a
       THEN Return(p) /\ UNCHANGED <<username, applied, stale, crossed>>
       ELSE /\ username' = [username EXCEPT ![u] = a]
            /\ Goto(p, "identity")
            /\ applied' = applied \cup {call[p].link}
            /\ stale' = stale \cup Others(p, {"upsert"})
            /\ crossed' =
                 (crossed \ ({u} \X {"identity", "told"}))
                   \cup {<<u, "identity">> : q \in Others(p, {"identity"})}
                   \cup {<<u, "told">> : q \in Others(p, {"notify", "identity", "hook"})}
  /\ UNCHANGED <<identity, token, mailed, told, joined>>

\* user_identities with every address of u replaced: no row, no change.
WithAddress(u, m) ==
  [s \in Subs |-> IF identity[s].user = u THEN [user |-> u, mailbox |-> m]
                                          ELSE identity[s]]

\* Bug: the address that is stored is the one the user registered with.
SetIdentity_Joined(p) ==
  /\ At(p, "identity")
  /\ identity' = WithAddress(call[p].user, joined[call[p].user])
  /\ Goto(p, "hook")
  /\ UNCHANGED <<username, token, mailed, told, history>>

\* The UPDATE of user_identities, whatever the number of rows.
SetIdentity(p) ==
  /\ At(p, "identity")
  /\ identity' = WithAddress(call[p].user, call[p].mailbox)
  /\ Goto(p, "hook")
  /\ UNCHANGED <<username, token, mailed, told, history>>

\* Bug: the two addresses of OnEmailChanged are swapped, and the old one is empty.
CallOnEmailChanged_Swapped(p) ==
  /\ At(p, "hook")
  /\ told' = [told EXCEPT ![call[p].user] = None]
  /\ Return(p)
  /\ UNCHANGED <<username, identity, token, mailed, history>>

CallOnEmailChanged(p) ==
  /\ At(p, "hook")
  /\ told' = [told EXCEPT ![call[p].user] = call[p].mailbox]
  /\ Return(p)
  /\ UNCHANGED <<username, identity, token, mailed, history>>

-----------------------------------------------------------------------------
(* What goes wrong. *)

\* The client goes away, and the statement that follows fails.  The error of the
\* UPDATE of user_identities is not looked at; mail and hooks need no database.
Disconnect(p) ==
  /\ \/ /\ call[p].pc \in {"insert", "username", "upsert"}
        /\ Return(p)
        /\ UNCHANGED crossed
     \/ /\ At(p, "identity")
        /\ Goto(p, "hook")
        /\ crossed' = crossed \cup {<<call[p].user, "identity">>}
  /\ stale' = stale \ {p}
  /\ UNCHANGED <<username, identity, token, mailed, told, joined, applied>>

\* The process stops and starts again.
Crash ==
  /\ \E p \in Calls : ~At(p, "idle")
  /\ call' = [p \in Calls |-> NoCall]
  /\ stale' = {}
  /\ crossed' = crossed
       \cup {<<call[p].user, "identity">> : p \in {q \in Calls : At(q, "identity")}}
       \cup {<<call[p].user, "told">> :
               p \in {q \in Calls : call[q].pc \in {"notify", "identity", "hook"}}}
  /\ UNCHANGED <<username, identity, token, mailed, told, joined, applied>>

-----------------------------------------------------------------------------

Next ==
  \/ Crash
  \/ \E p \in Calls :
       \/ SendEmailChange(p) \/ SetUsername(p) \/ SetIdentity(p)
       \/ CallOnEmailChanged(p) \/ CallOnUserCreated(p) \/ UpsertIdentity(p)
       \/ Disconnect(p)
       \/ \E l \in Links : InsertToken(p, l)
       \/ \E u \in Users, m \in Mailboxes : RequestEmailChange(p, u, m)
       \/ \E u \in Users, a \in Address, s \in Subs \cup {None} : Join(p, u, a, s)
       \/ \E u \in Users, s \in Subs : ResetFreja(p, u, s)
       \/ \E m \in Mailboxes, l \in Links : ConfirmEmailChange(p, m, l)
  \/ \E u \in Users :
       \/ UnlinkFreja(u)
       \/ \E s \in Subs, m \in Mailboxes : LinkFreja(u, s, m)
  \/ \E t, s \in Subs : AdoptSubject(t, s)
  \/ \E l \in Links : ExpireToken(l)

Spec == Init /\ [][Next]_vars

-----------------------------------------------------------------------------
(* Safety. *)

\* A user's address is the one they registered with, or one at which a link that
\* they asked for was received and followed (requestEmailChange mails the NEW
\* address), however the changes of one or two users interleave.
UsernameIsProven ==
  \A u \in Members :
    \/ username[u].mailbox = joined[u]
    \/ \E l \in applied :
         /\ token[l].user = u
         /\ <<username[u].mailbox, l>> \in mailed

\* provider_email follows the username of the row's owner ("to stay in sync",
\* user/handler.go:255) until the next change, except by one of these: two
\* confirmed changes of the user crossed, or one was cut short before its UPDATE
\* of user_identities; frejaLinkConfirm stored another address; or resetFreja's
\* upsert wrote into a row that another user owns, or an address that it had read
\* before a change was confirmed.
IdentityInStep ==
  \A u \in Members, s \in Subs : identity[s].user = u =>
    \/ identity[s].mailbox = username[u].mailbox
    \/ <<u, "identity">> \in crossed
    \/ \E p \in Calls : At(p, "identity") /\ call[p].user = u

\* The host application has the address the user has, unless a hook is still to
\* come, or the process stopped before one, or a change was confirmed while an
\* earlier change or the approval (its mail comes before OnUserCreated,
\* auth/handler.go:574-584) had not made its call.
HostHasAddress ==
  \A u \in Members :
    \/ told[u] = username[u].mailbox
    \/ <<u, "told">> \in crossed
    \/ \E p \in Calls : /\ call[p].pc \in {"notify", "identity", "hook"}
                         /\ call[p].user = u

-----------------------------------------------------------------------------
(* A mailed link is a one-time link. *)

LinkState(l) ==
  IF token[l].state # "gone" THEN token[l].state
  ELSE IF l \in applied THEN "applied"
  ELSE IF \E p \in Calls : At(p, "username") /\ call[p].link = l THEN "redeemed"
  ELSE "void"

OneTime == INSTANCE OneTimeLink WITH link <- [l \in Links |-> LinkState(l)]

\* Every link is redeemed and applied at most once, whoever follows it however
\* often, and one whose change failed is not redeemed again (DELETE ... RETURNING
\* before the UPDATE, and no transaction around them).
FollowsOneTimeLink == OneTime!Spec

=============================================================================
