------------------------- MODULE LoginMethods_proofs -------------------------
(***************************************************************************)
(* Theorems about LoginMethods, for any users, passkeys, Freja subjects    *)
(* and addresses, link tokens and number of concurrent requests.           *)
(***************************************************************************)
EXTENDS LoginMethods, FiniteSetTheorems, TLAPS

-----------------------------------------------------------------------------
(* The inductive invariant. *)

\* What a request carries was read from a row or asserted by Freja.
Carries(p) ==
  /\ call[p].pc \in {"store", "delete", "unlink", "link", "adopt", "session"} =>
       call[p].user \in Users
  /\ At(p, "store") => call[p].cred \in Creds
  /\ call[p].pc \in {"link", "fallback", "adopt"} => call[p].freja \in Freja

LinkInv ==
  \A t \in LinkTokens :
    links[t].state = "open" => links[t].user \in Users /\ links[t].freja \in Freja

\* A challenge is in one ceremony, and what it would register is not stored yet.
CeremonyInv ==
  \A u \in Users : ceremony[u] # None =>
    /\ \A v \in Users \ {u} : ceremony[v] # ceremony[u]
    /\ \A k \in passkeys : k.cred # ceremony[u]

SubjectInv ==
  \A i, j \in identities : i.sub = j.sub => i.user = j.user

\* What a request counted is still there, unless the request is marked stale.
CountInv ==
  \A p \in Calls, u \in Users : call[p].user = u /\ ~call[p].stale =>
    /\ At(p, "delete") => \E k, l \in PasskeysOf(u) : k # l
    /\ At(p, "unlink") => PasskeysOf(u) # {}

IInv ==
  /\ TypeOK /\ IsFiniteSet(passkeys) /\ LinkInv /\ (\A p \in Calls : Carries(p))
  /\ CeremonyInv /\ SubjectInv /\ CountInv
  /\ ChallengeRedeemedOnce /\ LinkedByPresenter

-----------------------------------------------------------------------------
(* What the actions do to the record of one request. *)

OthersKeep(p) == \A q \in Calls \ {p} : call'[q] = call[q]

LEMMA NoCallIdle == NoCall \in Call /\ NoCall.pc = "idle" /\ ~NoCall.stale
  BY DEF NoCall, Call, Pcs

LEMMA ServeEffect ==
  ASSUME TypeOK, NEW p \in Calls, NEW c \in Call, Serve(p, c)
  PROVE  call' \in [Calls -> Call] /\ call'[p] = c /\ OthersKeep(p)
  BY DEF TypeOK, Serve, OthersKeep

LEMMA ReturnEffect ==
  ASSUME TypeOK, NEW p \in Calls, Return(p)
  PROVE  call' \in [Calls -> Call] /\ call'[p].pc = "idle" /\ OthersKeep(p)
  BY ServeEffect, NoCallIdle DEF Return

LEMMA GotoEffect ==
  ASSUME TypeOK, NEW p \in Calls, NEW pc \in {"linked", "session"}, Goto(p, pc)
  PROVE  /\ call' \in [Calls -> Call] /\ OthersKeep(p)
         /\ call'[p].pc = pc /\ call'[p].user = call[p].user
  <1> DEFINE c == [call[p] EXCEPT !.pc = pc]
  <1>1. call[p] \in Call
    BY DEF TypeOK
  <1>2. c \in Call /\ c.pc = pc /\ c.user = call[p].user
    BY <1>1 DEF Call, Pcs
  <1>3. call' = [call EXCEPT ![p] = c]
    BY DEF Goto
  <1> HIDE DEF c
  <1> QED
    BY <1>2, <1>3 DEF TypeOK, OthersKeep

LEMMA TakeEffect ==
  ASSUME TypeOK, NEW p \in Calls, NEW u \in Users, TakeCeremony(p, u)
  PROVE  /\ call' \in [Calls -> Call] /\ ceremony[u] \in Creds
         /\ ceremony' \in [Users -> Creds \cup {None}] /\ ceremony'[u] = None
         /\ \A v \in Users \ {u} : ceremony'[v] = ceremony[v]
         /\ \/ UNCHANGED call
            \/ /\ OthersKeep(p) /\ call'[p].pc = "store" /\ call'[p].user = u
               /\ call'[p].cred = ceremony[u]
  <1> DEFINE d == ceremony[u]
             c == [NoCall EXCEPT !.pc = "store", !.user = u, !.cred = d]
  <1>1. d \in Creds /\ call \in [Calls -> Call]
    BY DEF TypeOK, TakeCeremony
  <1>2. Serve(p, c) \/ UNCHANGED call
    BY DEF TakeCeremony
  <1>3. /\ ceremony' \in [Users -> Creds \cup {None}] /\ ceremony'[u] = None
        /\ \A v \in Users \ {u} : ceremony'[v] = ceremony[v]
    BY DEF TypeOK, TakeCeremony
  <1> HIDE DEF d
  <1>4. c \in Call /\ c.pc = "store" /\ c.user = u /\ c.cred = d
    BY <1>1, NoCallIdle DEF Call, Pcs
  <1> HIDE DEF c
  <1>5. /\ call' \in [Calls -> Call]
        /\ \/ UNCHANGED call
           \/ /\ OthersKeep(p) /\ call'[p].pc = "store" /\ call'[p].user = u
              /\ call'[p].cred = d
    BY <1>1, <1>2, <1>4, ServeEffect
  <1> QED
    BY <1>1, <1>3, <1>5 DEF d

LEMMA CountPasskeysEffect ==
  ASSUME TypeOK, NEW p \in Calls, NEW u \in Users, NEW d \in Creds, CountPasskeys(p, u, d)
  PROVE  /\ call' \in [Calls -> Call] /\ OthersKeep(p)
         /\ call'[p].pc = "delete" /\ call'[p].user = u
  <1> DEFINE c == [NoCall EXCEPT !.pc = "delete", !.user = u, !.cred = d]
  <1>1. c \in Call /\ c.pc = "delete" /\ c.user = u
    BY NoCallIdle DEF Call, Pcs
  <1>2. Serve(p, c)
    BY DEF CountPasskeys
  <1> HIDE DEF c
  <1> QED
    BY <1>1, <1>2, ServeEffect

LEMMA CountForUnlinkEffect ==
  ASSUME TypeOK, NEW p \in Calls, NEW u \in Users, CountForUnlink(p, u)
  PROVE  /\ call' \in [Calls -> Call] /\ OthersKeep(p)
         /\ call'[p].pc = "unlink" /\ call'[p].user = u
  <1> DEFINE c == [NoCall EXCEPT !.pc = "unlink", !.user = u]
  <1>1. c \in Call /\ c.pc = "unlink" /\ c.user = u
    BY NoCallIdle DEF Call, Pcs
  <1>2. Serve(p, c)
    BY DEF CountForUnlink
  <1> HIDE DEF c
  <1> QED
    BY <1>1, <1>2, ServeEffect

LEMMA ConfirmLinkEffect ==
  ASSUME TypeOK, LinkInv, NEW p \in Calls, NEW u \in Users, NEW t \in LinkTokens,
         ConfirmLink(p, u, t)
  PROVE  /\ call' \in [Calls -> Call] /\ OthersKeep(p)
         /\ call'[p].pc = "link" /\ call'[p].user = u
         /\ call'[p].freja = links[t].freja
         /\ links[t].freja \in Freja /\ links[t].user = u
  <1> DEFINE f == links[t].freja
             c == [NoCall EXCEPT !.pc = "link", !.user = u, !.freja = f]
  <1>1. f \in Freja /\ links[t].user = u
    BY DEF LinkInv, ConfirmLink
  <1>2. Serve(p, c)
    BY DEF ConfirmLink
  <1> HIDE DEF f
  <1>3. c \in Call /\ c.pc = "link" /\ c.user = u /\ c.freja = f
    BY <1>1, NoCallIdle DEF Call, Pcs
  <1> HIDE DEF c
  <1>4. call' \in [Calls -> Call] /\ OthersKeep(p) /\ call'[p] = c
    BY <1>2, <1>3, ServeEffect
  <1> QED
    BY <1>1, <1>3, <1>4 DEF f

LEMMA LookUpSubjectEffect ==
  ASSUME TypeOK, NEW p \in Calls, NEW f \in Asserted, LookUpSubject(p, f)
  PROVE  /\ call' \in [Calls -> Call] /\ OthersKeep(p)
         /\ \/ call'[p].pc = "session" /\ call'[p].user \in Users
            \/ call'[p].pc = "fallback" /\ call'[p].freja \in Freja
  <1>1. ASSUME NEW i \in identities,
               Serve(p, [NoCall EXCEPT !.pc = "session", !.user = i.user])
        PROVE  /\ call' \in [Calls -> Call] /\ OthersKeep(p)
               /\ call'[p].pc = "session" /\ call'[p].user \in Users
    <2> DEFINE u == i.user
               c == [NoCall EXCEPT !.pc = "session", !.user = u]
    <2>1. u \in Users /\ Serve(p, c)
      BY <1>1 DEF TypeOK
    <2> HIDE DEF u
    <2>2. c \in Call /\ c.pc = "session" /\ c.user = u
      BY <2>1, NoCallIdle DEF Call, Pcs
    <2> HIDE DEF c
    <2> QED
      BY <2>1, <2>2, ServeEffect
  <1>2. ASSUME Serve(p, [NoCall EXCEPT !.pc = "fallback", !.freja = f])
        PROVE  /\ call' \in [Calls -> Call] /\ OthersKeep(p)
               /\ call'[p].pc = "fallback" /\ call'[p].freja \in Freja
    <2> DEFINE c == [NoCall EXCEPT !.pc = "fallback", !.freja = f]
    <2>1. f \in Freja /\ Serve(p, c)
      BY <1>2, AssertedAssumption
    <2>2. c \in Call /\ c.pc = "fallback" /\ c.freja = f
      BY <2>1, NoCallIdle DEF Call, Pcs
    <2> HIDE DEF c
    <2> QED
      BY <2>1, <2>2, ServeEffect
  <1> QED
    BY <1>1, <1>2 DEF LookUpSubject

LEMMA LookUpEmailEffect ==
  ASSUME TypeOK, NEW p \in Calls, Carries(p), LookUpEmail(p)
  PROVE  /\ call' \in [Calls -> Call] /\ OthersKeep(p)
         /\ \/ call'[p].pc = "idle"
            \/ /\ call'[p].pc = "adopt"
               /\ call'[p].user \in Users /\ call'[p].freja \in Freja
  <1>1. ASSUME NEW i \in identities, Serve(p, [call[p] EXCEPT !.pc = "adopt", !.user = i.user])
        PROVE  /\ call' \in [Calls -> Call] /\ OthersKeep(p)
               /\ call'[p].pc = "adopt"
               /\ call'[p].user \in Users /\ call'[p].freja \in Freja
    <2> DEFINE u == i.user
               c == [call[p] EXCEPT !.pc = "adopt", !.user = u]
    <2>1. u \in Users /\ Serve(p, c) /\ call[p] \in Call /\ call[p].freja \in Freja
      BY <1>1 DEF TypeOK, LookUpEmail, Carries, At
    <2> HIDE DEF u
    <2>2. c \in Call /\ c.pc = "adopt" /\ c.user = u /\ c.freja = call[p].freja
      BY <2>1 DEF Call, Pcs
    <2> HIDE DEF c
    <2> QED
      BY <2>1, <2>2, ServeEffect
  <1> QED
    BY <1>1, ReturnEffect DEF LookUpEmail

\* The requests that counted the deleted passkey become stale; nothing else about
\* them changes.
LEMMA DeleteEffect ==
  ASSUME TypeOK, NEW p \in Calls, DeletePasskey(p)
  PROVE  /\ call' \in [Calls -> Call] /\ call'[p].pc = "idle"
         /\ passkeys' = passkeys \ {[user |-> call[p].user, cred |-> call[p].cred]}
         /\ \A q \in Calls \ {p} :
              /\ call'[q].pc = call[q].pc /\ call'[q].user = call[q].user
              /\ call'[q].cred = call[q].cred /\ call'[q].freja = call[q].freja
              /\ ~call'[q].stale =>
                   /\ ~call[q].stale
                   /\ Counted(q) /\ call[q].user = call[p].user => passkeys' = passkeys
  <1> DEFINE k == [user |-> call[p].user, cred |-> call[p].cred]
  <1>1. passkeys' = passkeys \ {k}
    BY DEF DeletePasskey
  <1>2. \A q \in Calls : [call[q] EXCEPT !.stale = TRUE] \in Call /\ call[q] \in Call
    BY DEF TypeOK, Call
  <1>3. call' = [q \in Calls |->
                   IF q = p THEN NoCall
                   ELSE IF Counted(q) /\ call[q].user = k.user /\ k \in passkeys
                          THEN [call[q] EXCEPT !.stale = TRUE] ELSE call[q]]
    BY DEF DeletePasskey
  <1>4. call' \in [Calls -> Call] /\ call'[p].pc = "idle"
    BY <1>2, <1>3, NoCallIdle
  <1>5. ASSUME NEW q \in Calls \ {p}
        PROVE  /\ call'[q].pc = call[q].pc /\ call'[q].user = call[q].user
               /\ call'[q].cred = call[q].cred /\ call'[q].freja = call[q].freja
               /\ ~call'[q].stale =>
                    /\ ~call[q].stale
                    /\ Counted(q) /\ call[q].user = call[p].user => k \notin passkeys
    <2>1. CASE call'[q] = [call[q] EXCEPT !.stale = TRUE]
      BY <1>2, <2>1 DEF Call
    <2>2. CASE call'[q] = call[q] /\ ~(Counted(q) /\ call[q].user = k.user /\ k \in passkeys)
      BY <2>2
    <2> QED
      BY <1>3, <2>1, <2>2
  <1>6. k \notin passkeys => passkeys' = passkeys
    BY <1>1
  <1> QED
    BY <1>1, <1>4, <1>5, <1>6

LEMMA Known ==
  ASSUME IInv, NEW p \in Calls
  PROVE  TypeOK /\ LinkInv /\ call[p] \in Call /\ Carries(p)
  BY DEF IInv, TypeOK

-----------------------------------------------------------------------------
(* Links, identities and passkeys, table by table. *)

LinksStep ==
  /\ links' \in [LinkTokens -> Link]
  /\ \A t \in LinkTokens :
       /\ links[t].state = "used" =>
            /\ links'[t].state = "used" /\ links'[t].user = links[t].user
            /\ links'[t].freja = links[t].freja
       /\ links'[t].state = "open" =>
            links'[t].user \in Users /\ links'[t].freja \in Freja

\* A row of freja_link_confirmations is spent and keeps whose it was.
LEMMA SpendEffect ==
  ASSUME IInv, NEW t \in LinkTokens, links' = [links EXCEPT ![t].state = "used"]
  PROVE  /\ LinksStep
         /\ links'[t].state = "used" /\ links'[t].user = links[t].user
         /\ links'[t].freja = links[t].freja
  <1> DEFINE x == [links[t] EXCEPT !.state = "used"]
  <1>1. links \in [LinkTokens -> Link] /\ links[t] \in Link /\ LinkInv
    BY DEF IInv, TypeOK
  <1>2. x \in Link /\ x.state = "used" /\ x.user = links[t].user /\ x.freja = links[t].freja
    BY <1>1 DEF Link
  <1>3. links' = [links EXCEPT ![t] = x]
    OBVIOUS
  <1> HIDE DEF x
  <1>4. links' \in [LinkTokens -> Link] /\ links'[t] = x
        /\ \A s \in LinkTokens \ {t} : links'[s] = links[s]
    BY <1>1, <1>2, <1>3
  <1>5. LinksStep
    BY <1>1, <1>2, <1>4 DEF LinksStep, LinkInv
  <1> QED
    BY <1>2, <1>4, <1>5

LEMMA Links ==
  ASSUME IInv, Next
  PROVE  LinksStep
  <1>0. links \in [LinkTokens -> Link] /\ LinkInv
    BY DEF IInv, TypeOK
  <1>1. CASE UNCHANGED links
    BY <1>0, <1>1 DEF LinksStep, LinkInv
  <1>2. ASSUME NEW u \in Users, NEW f \in Asserted, NEW t \in LinkTokens, FrejaLink(u, f, t)
        PROVE  LinksStep
    <2> DEFINE x == [state |-> "open", user |-> u, freja |-> f]
    <2>1. /\ x \in Link /\ f \in Freja /\ x.user = u /\ x.freja = f
      BY AssertedAssumption DEF Link
    <2>2. links' = [links EXCEPT ![t] = x] /\ links[t].state = "new"
      BY <1>2 DEF FrejaLink
    <2> HIDE DEF x
    <2> QED
      BY <1>0, <2>1, <2>2 DEF LinksStep, LinkInv
  <1>3. ASSUME NEW t \in LinkTokens, ExpireLink(t) PROVE LinksStep
    BY <1>3, SpendEffect DEF ExpireLink
  <1>4. ASSUME NEW p \in Calls, NEW u \in Users, NEW t \in LinkTokens, ConfirmLink(p, u, t)
        PROVE  LinksStep
    BY <1>4, SpendEffect DEF ConfirmLink
  <1> QED
    BY <1>1, <1>2, <1>3, <1>4
       DEF Next, Handle, Crash, StorePasskey, DeletePasskey, Unlink, LinkIdentity,
           AnnounceLinked, LookUpEmail, AdoptSubject, CreateSession, Disconnect,
           LookUpSubject, TakeCeremony, CountForUnlink, CountPasskeys, ExpireCeremony,
           CreateWithPasskey, BeginAddPasskey, CreateWithFreja, SyncProviderEmail,
           UpsertIdentity

Identity == [user: Users, sub: Subs, email: Emails]

\* One subject, one user: after the step, and across it.
IdentitiesStep ==
  /\ identities' \subseteq Identity
  /\ SubjectInv'
  /\ \A i \in identities, j \in identities' : i.sub = j.sub => i.user = j.user

\* No way to sign in with Freja is lost, but by unlinking.
FrejaStays(u) == IdentitiesOf(u) # {} => \E i \in identities' : i.user = u

LEMMA InsertIdentityEffect ==
  ASSUME IInv, NEW u \in Users, NEW f \in Freja, InsertIdentity(u, f)
  PROVE  IdentitiesStep /\ identities \subseteq identities'
  <1> DEFINE x == [user |-> u, sub |-> f.sub, email |-> f.email]
  <1>1. x \in Identity /\ x.user = u /\ x.sub = f.sub
    BY DEF Freja, Identity
  <1>2. identities \subseteq Identity /\ SubjectInv
    BY DEF IInv, TypeOK, Identity
  <1>3. \/ UNCHANGED identities
        \/ identities' = identities \cup {x} /\ \A i \in identities : i.sub # f.sub
    BY DEF InsertIdentity
  <1> HIDE DEF x
  <1> QED
    BY <1>1, <1>2, <1>3 DEF IdentitiesStep, SubjectInv

\* The identities of one user are replaced.
LEMMA RewriteEffect ==
  ASSUME IInv, NEW u \in Users, NEW S,
         IdentitiesOf(u) # {} => S # {},
         \A j \in S : /\ j \in Identity /\ j.user = u
                      /\ \A i \in identities : i.sub = j.sub => i.user = u,
         identities' = (identities \ IdentitiesOf(u)) \cup S
  PROVE  IdentitiesStep /\ \A v \in Users : FrejaStays(v)
  <1>1. identities \subseteq Identity /\ SubjectInv
    BY DEF IInv, TypeOK, Identity
  <1>2. IdentitiesStep
    BY <1>1 DEF IdentitiesStep, SubjectInv, IdentitiesOf
  <1>3. ASSUME NEW v \in Users PROVE FrejaStays(v)
    BY DEF FrejaStays, IdentitiesOf
  <1> QED
    BY <1>2, <1>3

LEMMA AdoptEffect ==
  ASSUME IInv, NEW p \in Calls, AdoptSubject(p)
  PROVE  IdentitiesStep /\ \A v \in Users : FrejaStays(v)
  <1>1. PICK u \in Users, f \in Freja : call[p].user = u /\ call[p].freja = f
    BY Known DEF AdoptSubject, At, Carries
  <1>2. identities \subseteq Identity /\ SubjectInv
    BY DEF IInv, TypeOK, Identity
  <1>3. CASE UNCHANGED identities
    BY <1>2, <1>3 DEF IdentitiesStep, SubjectInv, FrejaStays, IdentitiesOf
  <1>4. CASE /\ \A i \in identities : i.sub = f.sub => i.user = u
             /\ identities' = (identities \ IdentitiesOf(u))
                                \cup {[i EXCEPT !.sub = f.sub] : i \in IdentitiesOf(u)}
    <2> DEFINE S == {[i EXCEPT !.sub = f.sub] : i \in IdentitiesOf(u)}
    <2>1. \A i \in IdentitiesOf(u) : i \in Identity /\ i.user = u
      BY <1>2 DEF IdentitiesOf
    <2>2. f.sub \in Subs
      BY DEF Freja
    <2>3. \A j \in S : j \in Identity /\ j.user = u /\ j.sub = f.sub
      BY <2>1, <2>2 DEF Identity
    <2>4. IdentitiesOf(u) # {} => S # {}
      OBVIOUS
    <2>5. identities' = (identities \ IdentitiesOf(u)) \cup S
      BY <1>4
    <2> HIDE DEF S
    <2> QED
      BY <1>4, <2>3, <2>4, <2>5, RewriteEffect
  <1> QED
    BY <1>1, <1>3, <1>4 DEF AdoptSubject

LEMMA SyncEffect ==
  ASSUME IInv, NEW u \in Users, NEW e \in Emails, SyncProviderEmail(u, e)
  PROVE  IdentitiesStep /\ \A v \in Users : FrejaStays(v)
  <1> DEFINE S == {[i EXCEPT !.email = e] : i \in IdentitiesOf(u)}
  <1>1. identities \subseteq Identity /\ SubjectInv
    BY DEF IInv, TypeOK, Identity
  <1>2. \A i \in IdentitiesOf(u) : i \in identities /\ i \in Identity /\ i.user = u
    BY <1>1 DEF IdentitiesOf
  <1>3. \A j \in S : /\ j \in Identity /\ j.user = u
                     /\ \E i \in IdentitiesOf(u) : i.sub = j.sub
    BY <1>2 DEF Identity
  <1>4. \A j \in S : \A i \in identities : i.sub = j.sub => i.user = u
    BY <1>1, <1>2, <1>3 DEF SubjectInv
  <1>5. IdentitiesOf(u) # {} => S # {}
    OBVIOUS
  <1>6. identities' = (identities \ IdentitiesOf(u)) \cup S
    BY DEF SyncProviderEmail
  <1> HIDE DEF S
  <1> QED
    BY <1>3, <1>4, <1>5, <1>6, RewriteEffect

\* The upsert writes an address, or adds a row for a subject that has none.
LEMMA UpsertEffect ==
  ASSUME IInv, NEW u \in Users, NEW f \in Freja, UpsertIdentity(u, f)
  PROVE  IdentitiesStep /\ \A v \in Users : FrejaStays(v)
  <1>1. identities \subseteq Identity /\ SubjectInv
    BY DEF IInv, TypeOK, Identity
  <1>2. CASE \E i \in identities : i.sub = f.sub
    <2> DEFINE g(i) == IF i.sub = f.sub THEN [i EXCEPT !.email = f.email] ELSE i
    <2>1. ASSUME NEW i \in identities
          PROVE  g(i) \in Identity /\ g(i).user = i.user /\ g(i).sub = i.sub
      BY <1>1 DEF Identity, Freja
    <2>2. identities' = {g(i) : i \in identities}
      BY <1>2 DEF UpsertIdentity
    <2> HIDE DEF g
    <2>3. \A j \in identities' : \E i \in identities :
            j \in Identity /\ j.user = i.user /\ j.sub = i.sub
      BY <2>1, <2>2
    <2>4. IdentitiesStep
      BY <1>1, <2>3 DEF IdentitiesStep, SubjectInv
    <2>5. \A v \in Users : FrejaStays(v)
      BY <2>1, <2>2 DEF FrejaStays, IdentitiesOf
    <2> QED
      BY <2>4, <2>5
  <1>3. CASE \A i \in identities : i.sub # f.sub
    <2>1. InsertIdentity(u, f)
      BY <1>3 DEF UpsertIdentity, InsertIdentity
    <2> QED
      BY <2>1, InsertIdentityEffect DEF FrejaStays, IdentitiesOf
  <1> QED
    BY <1>2, <1>3

LEMMA Identities ==
  ASSUME IInv, Next
  PROVE  /\ IdentitiesStep
         /\ \/ \A v \in Users : FrejaStays(v)
            \/ \E p \in Calls : Unlink(p)
  <1>0. identities \subseteq Identity /\ SubjectInv
    BY DEF IInv, TypeOK, Identity
  <1>a. identities \subseteq identities' => \A v \in Users : FrejaStays(v)
    BY DEF FrejaStays, IdentitiesOf
  <1>1. CASE UNCHANGED identities
    BY <1>0, <1>1, <1>a DEF IdentitiesStep, SubjectInv
  <1>2. ASSUME NEW p \in Calls, Unlink(p) PROVE IdentitiesStep
    BY <1>0, <1>2 DEF Unlink, IdentitiesStep, SubjectInv
  <1>3. ASSUME NEW p \in Calls, LinkIdentity(p)
        PROVE  IdentitiesStep /\ \A v \in Users : FrejaStays(v)
    <2>1. /\ call[p].user \in Users /\ call[p].freja \in Freja
          /\ InsertIdentity(call[p].user, call[p].freja)
      BY <1>3, Known DEF LinkIdentity, At, Carries
    <2> QED
      BY <1>a, <2>1, InsertIdentityEffect
  <1>4. ASSUME NEW u \in Users, NEW f \in Asserted, CreateWithFreja(u, f)
        PROVE  IdentitiesStep /\ \A v \in Users : FrejaStays(v)
    BY <1>4, <1>a, AssertedAssumption, InsertIdentityEffect DEF CreateWithFreja
  <1>5. ASSUME NEW u \in Users, NEW f \in Asserted, UpsertIdentity(u, f)
        PROVE  IdentitiesStep /\ \A v \in Users : FrejaStays(v)
    BY <1>5, AssertedAssumption, UpsertEffect
  <1> QED
    BY <1>1, <1>2, <1>3, <1>4, <1>5, AdoptEffect, SyncEffect
       DEF Next, Handle, Crash, StorePasskey, DeletePasskey, AnnounceLinked, LookUpEmail,
           CreateSession, Disconnect, LookUpSubject, TakeCeremony, CountForUnlink,
           CountPasskeys, ConfirmLink, ExpireCeremony, CreateWithPasskey,
           BeginAddPasskey, FrejaLink, ExpireLink

\* No passkey is lost, but by deleting it.
PasskeysStep ==
  /\ passkeys' \subseteq [user: Users, cred: Creds]
  /\ IsFiniteSet(passkeys')
  /\ passkeys \subseteq passkeys' \/ \E p \in Calls : DeletePasskey(p)

LEMMA Passkeys ==
  ASSUME IInv, Next
  PROVE  PasskeysStep
  <1>0. IsFiniteSet(passkeys) /\ passkeys \subseteq [user: Users, cred: Creds]
    BY DEF IInv, TypeOK
  <1>1. CASE UNCHANGED passkeys
    BY <1>0, <1>1 DEF PasskeysStep
  <1>2. ASSUME NEW u \in Users, NEW c \in Creds,
               passkeys' = passkeys \cup {[user |-> u, cred |-> c]}
        PROVE  PasskeysStep
    <2> DEFINE k == [user |-> u, cred |-> c]
    <2>1. IsFiniteSet(passkeys \cup {k})
      BY <1>0, FS_AddElement
    <2>2. IsFiniteSet(passkeys')
      BY <1>2, <2>1
    <2> QED
      BY <1>0, <1>2, <2>2 DEF PasskeysStep
  <1>3. ASSUME NEW p \in Calls, StorePasskey(p) PROVE PasskeysStep
    <2>1. PICK u \in Users, c \in Creds : call[p].user = u /\ call[p].cred = c
      BY <1>3, Known DEF StorePasskey, At, Carries
    <2> QED
      BY <1>1, <1>2, <1>3, <2>1 DEF StorePasskey
  <1>4. ASSUME NEW u \in Users, NEW c \in Creds, CreateWithPasskey(u, c) PROVE PasskeysStep
    BY <1>2, <1>4 DEF CreateWithPasskey
  <1>5. ASSUME NEW p \in Calls, DeletePasskey(p) PROVE PasskeysStep
    <2>1. passkeys' \subseteq passkeys
      BY <1>5 DEF DeletePasskey
    <2> QED
      BY <1>0, <1>5, <2>1, FS_Subset DEF PasskeysStep
  <1> QED
    BY <1>1, <1>3, <1>4, <1>5
       DEF Next, Handle, Crash, Unlink, LinkIdentity, AnnounceLinked, LookUpEmail,
           AdoptSubject, CreateSession, Disconnect, LookUpSubject, TakeCeremony,
           CountForUnlink, CountPasskeys, ConfirmLink, ExpireCeremony, BeginAddPasskey,
           CreateWithFreja, FrejaLink, ExpireLink, SyncProviderEmail,
           UpsertIdentity

-----------------------------------------------------------------------------
(* Types, and what requests carry. *)

\* What a step does to the request it serves, and to the others: a deletion may mark
\* them stale.
CallStep ==
  /\ call' \in [Calls -> Call]
  /\ \A q \in Calls : Carries(q)'

LEMMA Serving ==
  ASSUME IInv, NEW p \in Calls, call' \in [Calls -> Call], OthersKeep(p), Carries(p)'
  PROVE  CallStep
  BY Known DEF CallStep, OthersKeep, Carries, At

LEMMA Requests ==
  ASSUME IInv, Next
  PROVE  CallStep
  <1>0. TypeOK /\ LinkInv
    BY DEF IInv
  <1>a. CASE UNCHANGED call
    BY <1>0, <1>a, Known DEF CallStep, Carries, At, TypeOK
  <1>i. ASSUME NEW p \in Calls, call' \in [Calls -> Call], OthersKeep(p),
               call'[p].pc \in {"idle", "linked"}
        PROVE  CallStep
    BY <1>i, Serving DEF Carries, At
  <1>1. ASSUME Crash PROVE CallStep
    BY <1>1, NoCallIdle DEF Crash, CallStep, Carries, At
  <1>2. ASSUME NEW p \in Calls,
               StorePasskey(p) \/ Unlink(p) \/ AnnounceLinked(p) \/ CreateSession(p)
                 \/ Disconnect(p)
        PROVE  CallStep
    BY <1>0, <1>2, <1>i, ReturnEffect
       DEF StorePasskey, Unlink, AnnounceLinked, CreateSession, Disconnect
  <1>3. ASSUME NEW p \in Calls, DeletePasskey(p) PROVE CallStep
    <2>1. call' \in [Calls -> Call] /\ Carries(p)'
      BY <1>0, <1>3, DeleteEffect DEF Carries, At
    <2>2. ASSUME NEW q \in Calls \ {p} PROVE Carries(q)'
      BY <1>0, <1>3, Known, DeleteEffect DEF Carries, At
    <2> QED
      BY <2>1, <2>2 DEF CallStep
  <1>4. ASSUME NEW p \in Calls, LinkIdentity(p) PROVE CallStep
    BY <1>0, <1>4, <1>i, GotoEffect DEF LinkIdentity
  <1>5. ASSUME NEW p \in Calls, LookUpEmail(p) PROVE CallStep
    <2>1. call' \in [Calls -> Call] /\ OthersKeep(p) /\ Carries(p)'
      BY <1>0, <1>5, Known, LookUpEmailEffect DEF Carries, At
    <2> QED
      BY <2>1, Serving
  <1>6. ASSUME NEW p \in Calls, AdoptSubject(p) PROVE CallStep
    <2>1. call[p].user \in Users
      BY <1>6, Known DEF AdoptSubject, At, Carries
    <2>2. call' \in [Calls -> Call] /\ OthersKeep(p) /\ Carries(p)'
      BY <1>0, <1>6, <2>1, GotoEffect DEF AdoptSubject, Carries, At
    <2> QED
      BY <2>2, Serving
  <1>7. ASSUME NEW p \in Calls, NEW f \in Asserted, LookUpSubject(p, f) PROVE CallStep
    <2>1. call' \in [Calls -> Call] /\ OthersKeep(p) /\ Carries(p)'
      BY <1>0, <1>7, LookUpSubjectEffect DEF Carries, At
    <2> QED
      BY <2>1, Serving
  <1>8. ASSUME NEW p \in Calls, NEW u \in Users, TakeCeremony(p, u) PROVE CallStep
    <2>1. CASE ~UNCHANGED call
      <3>1. call' \in [Calls -> Call] /\ OthersKeep(p) /\ Carries(p)'
        BY <1>0, <1>8, <2>1, TakeEffect DEF Carries, At
      <3> QED
        BY <3>1, Serving
    <2> QED
      BY <1>a, <2>1
  <1>9. ASSUME NEW p \in Calls, NEW u \in Users, CountForUnlink(p, u) PROVE CallStep
    <2>1. call' \in [Calls -> Call] /\ OthersKeep(p) /\ Carries(p)'
      BY <1>0, <1>9, CountForUnlinkEffect DEF Carries, At
    <2> QED
      BY <2>1, Serving
  <1>10. ASSUME NEW p \in Calls, NEW u \in Users, NEW c \in Creds, CountPasskeys(p, u, c)
         PROVE  CallStep
    <2>1. call' \in [Calls -> Call] /\ OthersKeep(p) /\ Carries(p)'
      BY <1>0, <1>10, CountPasskeysEffect DEF Carries, At
    <2> QED
      BY <2>1, Serving
  <1>11. ASSUME NEW p \in Calls, NEW u \in Users, NEW t \in LinkTokens, ConfirmLink(p, u, t)
         PROVE  CallStep
    <2>1. call' \in [Calls -> Call] /\ OthersKeep(p) /\ Carries(p)'
      BY <1>0, <1>11, ConfirmLinkEffect DEF Carries, At
    <2> QED
      BY <2>1, Serving
  <1> QED
    BY <1>a, <1>1, <1>2, <1>3, <1>4, <1>5, <1>6, <1>7, <1>8, <1>9, <1>10, <1>11
       DEF Next, Handle, ExpireCeremony, CreateWithPasskey, BeginAddPasskey,
           CreateWithFreja, FrejaLink, SyncProviderEmail, UpsertIdentity, ExpireLink

LEMMA CeremonyType ==
  ASSUME IInv, Next
  PROVE  ceremony' \in [Users -> Creds \cup {None}]
  <1>0. TypeOK
    BY DEF IInv
  <1>1. ASSUME NEW p \in Calls, NEW u \in Users, TakeCeremony(p, u)
        PROVE  ceremony' \in [Users -> Creds \cup {None}]
    BY <1>0, <1>1, TakeEffect
  <1> QED
    BY <1>0, <1>1
       DEF Next, Handle, Crash, StorePasskey, DeletePasskey, Unlink, LinkIdentity,
           AnnounceLinked, LookUpEmail, AdoptSubject, CreateSession, Disconnect,
           LookUpSubject, CountForUnlink, CountPasskeys, ConfirmLink, ExpireCeremony,
           CreateWithPasskey, BeginAddPasskey, CreateWithFreja, FrejaLink, ExpireLink,
           SyncProviderEmail, UpsertIdentity, TypeOK

LEMMA TypeStep ==
  ASSUME IInv, Next
  PROVE  TypeOK'
  <1>0. TypeOK /\ LinksStep /\ IdentitiesStep /\ PasskeysStep /\ CallStep
    BY Links, Identities, Passkeys, Requests DEF IInv
  <1>1. accounts' \subseteq Users
    BY <1>0
       DEF Next, Handle, Crash, StorePasskey, DeletePasskey, Unlink, LinkIdentity,
           AnnounceLinked, LookUpEmail, AdoptSubject, CreateSession, Disconnect,
           LookUpSubject, TakeCeremony, CountForUnlink, CountPasskeys, ConfirmLink,
           ExpireCeremony, CreateWithPasskey, BeginAddPasskey, CreateWithFreja, FrejaLink,
           ExpireLink, SyncProviderEmail, UpsertIdentity, TypeOK
  <1>2. sessions' \subseteq Users
    <2>1. ASSUME NEW p \in Calls, CreateSession(p) PROVE sessions' \subseteq Users
      BY <1>0, <2>1, Known DEF CreateSession, At, Carries, TypeOK
    <2> QED
      BY <1>0, <2>1
         DEF Next, Handle, Crash, StorePasskey, DeletePasskey, Unlink, LinkIdentity,
             AnnounceLinked, LookUpEmail, AdoptSubject, Disconnect, LookUpSubject,
             TakeCeremony, CountForUnlink, CountPasskeys, ConfirmLink, ExpireCeremony,
             CreateWithPasskey, BeginAddPasskey, CreateWithFreja, FrejaLink, ExpireLink,
             SyncProviderEmail, UpsertIdentity, TypeOK
  <1> QED
    BY <1>0, <1>1, <1>2, CeremonyType
       DEF TypeOK, LinksStep, IdentitiesStep, PasskeysStep, CallStep, Identity

-----------------------------------------------------------------------------
(* One challenge, one passkey. *)

Stores(p) == call[p].pc = "store"

LEMMA CeremonyKept ==
  ASSUME IInv,
         \A u \in Users : ceremony'[u] \in {ceremony[u], None},
         passkeys' \subseteq passkeys,
         \A q \in Calls : Stores(q)' => Stores(q) /\ call'[q].cred = call[q].cred
  PROVE  CeremonyInv' /\ ChallengeRedeemedOnce'
  <1>0. CeremonyInv /\ ChallengeRedeemedOnce
    BY DEF IInv
  <1>1. CeremonyInv'
    BY <1>0 DEF CeremonyInv
  <1>2. \A q \in Calls : Stores(q) => call[q].cred # None
    BY Known, NoneAssumption DEF Carries, At, Stores
  <1>3. ChallengeRedeemedOnce'
    BY <1>0, <1>2 DEF ChallengeRedeemedOnce, At, Stores
  <1> QED
    BY <1>1, <1>3

LEMMA CeremonyStep ==
  ASSUME IInv, Next
  PROVE  CeremonyInv' /\ ChallengeRedeemedOnce'
  <1>0. TypeOK /\ LinkInv /\ CeremonyInv /\ ChallengeRedeemedOnce
    BY DEF IInv
  <1>a. ASSUME UNCHANGED <<ceremony, passkeys>>, NEW p \in Calls, OthersKeep(p), ~Stores(p)'
        PROVE  CeremonyInv' /\ ChallengeRedeemedOnce'
    <2>1. \A q \in Calls : Stores(q)' => Stores(q) /\ call'[q].cred = call[q].cred
      BY <1>a DEF OthersKeep, Stores
    <2> QED
      BY <1>a, <2>1, CeremonyKept
  <1>b. ASSUME UNCHANGED <<ceremony, passkeys, call>>
        PROVE  CeremonyInv' /\ ChallengeRedeemedOnce'
    BY <1>b, CeremonyKept DEF Stores
  <1>1. ASSUME Crash PROVE CeremonyInv' /\ ChallengeRedeemedOnce'
    BY <1>1, CeremonyKept, NoCallIdle DEF Crash, Stores
  <1>2. ASSUME NEW p \in Calls, NEW u \in Users, TakeCeremony(p, u)
        PROVE  CeremonyInv' /\ ChallengeRedeemedOnce'
    <2>1. \A v \in Users : ceremony'[v] \in {ceremony[v], None}
      BY <1>0, <1>2, TakeEffect
    <2>2. UNCHANGED passkeys
      BY <1>2 DEF TakeCeremony
    <2>3. CASE UNCHANGED call
      BY <2>1, <2>2, <2>3, CeremonyKept DEF Stores
    <2>4. CASE ~UNCHANGED call
      <3>1. /\ OthersKeep(p) /\ Stores(p)' /\ call'[p].cred = ceremony[u]
            /\ ceremony[u] \in Creds /\ ceremony'[u] = None
            /\ \A v \in Users \ {u} : ceremony'[v] = ceremony[v]
        BY <1>0, <1>2, <2>4, TakeEffect DEF Stores
      <3>2. ceremony[u] # None
        BY <3>1, NoneAssumption
      <3>3. /\ \A v \in Users : ceremony'[v] # ceremony[u]
            /\ \A k \in passkeys : k.cred # ceremony[u]
            /\ \A q \in Calls : Stores(q) => call[q].cred # ceremony[u]
        BY <1>0, <3>1, <3>2 DEF CeremonyInv, ChallengeRedeemedOnce, At, Stores
      <3>4. \A q \in Calls \ {p} : Stores(q)' => Stores(q) /\ call'[q] = call[q]
        BY <3>1 DEF OthersKeep, Stores
      <3>5. \A q \in Calls : Stores(q) => call[q].cred # None
        BY Known, NoneAssumption DEF Carries, At, Stores
      <3>6. CeremonyInv'
        BY <1>0, <2>1, <2>2 DEF CeremonyInv
      <3>7. ASSUME NEW q \in Calls, Stores(q)'
            PROVE  /\ \A v \in Users : ceremony'[v] # call'[q].cred
                   /\ \A r \in Calls \ {q} : Stores(r)' => call'[r].cred # call'[q].cred
                   /\ \A k \in passkeys' : k.cred # call'[q].cred
        <4>1. CASE q = p
          BY <2>2, <3>1, <3>3, <3>4, <4>1
        <4>2. CASE q # p
          <5>1. /\ \A v \in Users : ceremony[v] # call[q].cred
                /\ \A r \in Calls \ {q} : Stores(r) => call[r].cred # call[q].cred
                /\ \A k \in passkeys : k.cred # call[q].cred
            BY <1>0, <3>4, <3>7, <4>2 DEF ChallengeRedeemedOnce, At, Stores
          <5> QED
            BY <2>1, <2>2, <3>1, <3>3, <3>4, <3>5, <3>7, <4>2, <5>1
        <4> QED
          BY <4>1, <4>2
      <3>8. ChallengeRedeemedOnce'
        BY <3>7 DEF ChallengeRedeemedOnce, At, Stores
      <3> QED
        BY <3>6, <3>8
    <2> QED
      BY <2>3, <2>4
  <1>3. ASSUME NEW p \in Calls, StorePasskey(p)
        PROVE  CeremonyInv' /\ ChallengeRedeemedOnce'
    <2>1. /\ OthersKeep(p) /\ call'[p].pc = "idle" /\ Stores(p) /\ UNCHANGED ceremony
      BY <1>0, <1>3, ReturnEffect DEF StorePasskey, At, Stores
    <2>2. /\ \A v \in Users : ceremony[v] # call[p].cred
          /\ \A q \in Calls \ {p} : Stores(q) => call[q].cred # call[p].cred
      BY <1>0, <2>1 DEF ChallengeRedeemedOnce, At, Stores
    <2>3. \A k \in passkeys' : k \in passkeys \/ k.cred = call[p].cred
      BY <1>3 DEF StorePasskey
    <2>4. CeremonyInv'
      BY <1>0, <2>1, <2>2, <2>3 DEF CeremonyInv
    <2>5. \A q \in Calls : Stores(q)' => Stores(q) /\ call'[q] = call[q] /\ q # p
      BY <2>1 DEF OthersKeep, Stores
    <2>6. ChallengeRedeemedOnce'
      BY <1>0, <2>1, <2>2, <2>3, <2>5 DEF ChallengeRedeemedOnce, At, Stores
    <2> QED
      BY <2>4, <2>6
  <1>4. ASSUME NEW u \in Users, NEW c \in Creds, CreateWithPasskey(u, c)
        PROVE  CeremonyInv' /\ ChallengeRedeemedOnce'
    <2>1. /\ UNCHANGED <<ceremony, call>> /\ Unused(c)
          /\ \A k \in passkeys' : k \in passkeys \/ k.cred = c
      BY <1>4 DEF CreateWithPasskey
    <2>2. CeremonyInv'
      BY <1>0, <2>1 DEF CeremonyInv, Unused
    <2>3. ChallengeRedeemedOnce'
      BY <1>0, <2>1 DEF ChallengeRedeemedOnce, Unused, At
    <2> QED
      BY <2>2, <2>3
  <1>5. ASSUME NEW u \in Users, NEW c \in Creds, BeginAddPasskey(u, c)
        PROVE  CeremonyInv' /\ ChallengeRedeemedOnce'
    <2>1. /\ UNCHANGED <<passkeys, call>> /\ Unused(c) /\ ceremony'[u] = c
          /\ \A v \in Users \ {u} : ceremony'[v] = ceremony[v]
      BY <1>0, <1>5 DEF BeginAddPasskey, TypeOK
    <2>2. CeremonyInv'
      BY <1>0, <2>1 DEF CeremonyInv, Unused
    <2>3. ChallengeRedeemedOnce'
      BY <1>0, <2>1 DEF ChallengeRedeemedOnce, Unused, At
    <2> QED
      BY <2>2, <2>3
  <1>6. ASSUME NEW u \in Users, ExpireCeremony(u)
        PROVE  CeremonyInv' /\ ChallengeRedeemedOnce'
    <2>1. UNCHANGED <<passkeys, call>> /\ \A v \in Users : ceremony'[v] \in {ceremony[v], None}
      BY <1>0, <1>6 DEF ExpireCeremony, TypeOK
    <2> QED
      BY <2>1, CeremonyKept DEF Stores
  <1>7. ASSUME NEW p \in Calls, DeletePasskey(p)
        PROVE  CeremonyInv' /\ ChallengeRedeemedOnce'
    <2>1. UNCHANGED ceremony
      BY <1>7 DEF DeletePasskey
    <2>2. /\ passkeys' \subseteq passkeys
          /\ \A q \in Calls : Stores(q)' => Stores(q) /\ call'[q].cred = call[q].cred
      BY <1>0, <1>7, DeleteEffect DEF Stores
    <2> QED
      BY <2>1, <2>2, CeremonyKept
  <1>8. ASSUME NEW p \in Calls,
               Unlink(p) \/ LinkIdentity(p) \/ AnnounceLinked(p) \/ AdoptSubject(p)
                 \/ CreateSession(p) \/ Disconnect(p)
        PROVE  CeremonyInv' /\ ChallengeRedeemedOnce'
    BY <1>0, <1>8, <1>a, ReturnEffect, GotoEffect
       DEF Unlink, LinkIdentity, AnnounceLinked, AdoptSubject, CreateSession, Disconnect,
           Stores
  <1>9. ASSUME NEW p \in Calls, LookUpEmail(p)
        PROVE  CeremonyInv' /\ ChallengeRedeemedOnce'
    <2>1. UNCHANGED <<ceremony, passkeys>>
      BY <1>9 DEF LookUpEmail
    <2> QED
      BY <1>0, <1>9, <1>a, <2>1, Known, LookUpEmailEffect DEF Stores
  <1>10. ASSUME NEW p \in Calls, NEW f \in Asserted, LookUpSubject(p, f)
         PROVE  CeremonyInv' /\ ChallengeRedeemedOnce'
    <2>1. UNCHANGED <<ceremony, passkeys>>
      BY <1>10 DEF LookUpSubject
    <2> QED
      BY <1>0, <1>10, <1>a, <2>1, LookUpSubjectEffect DEF Stores
  <1>11. ASSUME NEW p \in Calls, NEW u \in Users, CountForUnlink(p, u)
         PROVE  CeremonyInv' /\ ChallengeRedeemedOnce'
    <2>1. UNCHANGED <<ceremony, passkeys>>
      BY <1>11 DEF CountForUnlink
    <2> QED
      BY <1>0, <1>11, <1>a, <2>1, CountForUnlinkEffect DEF Stores
  <1>12. ASSUME NEW p \in Calls, NEW u \in Users, NEW c \in Creds, CountPasskeys(p, u, c)
         PROVE  CeremonyInv' /\ ChallengeRedeemedOnce'
    <2>1. UNCHANGED <<ceremony, passkeys>>
      BY <1>12 DEF CountPasskeys
    <2> QED
      BY <1>0, <1>12, <1>a, <2>1, CountPasskeysEffect DEF Stores
  <1>13. ASSUME NEW p \in Calls, NEW u \in Users, NEW t \in LinkTokens, ConfirmLink(p, u, t)
         PROVE  CeremonyInv' /\ ChallengeRedeemedOnce'
    <2>1. UNCHANGED <<ceremony, passkeys>>
      BY <1>13 DEF ConfirmLink
    <2> QED
      BY <1>0, <1>13, <1>a, <2>1, ConfirmLinkEffect DEF Stores
  <1>14. ASSUME \/ \E u \in Users :
                     \E f \in Asserted :
                       \/ CreateWithFreja(u, f) \/ UpsertIdentity(u, f)
                       \/ \E t \in LinkTokens : FrejaLink(u, f, t)
                \/ \E u \in Users : \E e \in Emails : SyncProviderEmail(u, e)
                \/ \E t \in LinkTokens : ExpireLink(t)
         PROVE  CeremonyInv' /\ ChallengeRedeemedOnce'
    BY <1>14, <1>b
       DEF CreateWithFreja, UpsertIdentity, FrejaLink, SyncProviderEmail, ExpireLink
  <1> QED
    BY <1>1, <1>2, <1>3, <1>4, <1>5, <1>6, <1>7, <1>8, <1>9, <1>10, <1>11, <1>12,
       <1>13, <1>14 DEF Next, Handle

-----------------------------------------------------------------------------
(* Links and counts that requests rely on. *)

\* How a request comes to rely on a link or a count.
Reliance(q) ==
  \/ call'[q] = call[q]
  \/ \E p \in Calls \ {q} : DeletePasskey(p)
  \/ \E u \in Users : \/ CountForUnlink(q, u)
                      \/ \E c \in Creds : CountPasskeys(q, u, c)
                      \/ \E t \in LinkTokens : ConfirmLink(q, u, t)

LEMMA Relies ==
  ASSUME IInv, Next, NEW q \in Calls, call'[q].pc \in {"delete", "unlink", "link"}
  PROVE  Reliance(q)
  <1>0. TypeOK /\ LinkInv
    BY DEF IInv
  <1>a. ASSUME NEW p \in Calls, OthersKeep(p),
               call'[p].pc \notin {"delete", "unlink", "link"}
        PROVE  Reliance(q)
    BY <1>a DEF OthersKeep, Reliance
  <1>b. ASSUME NEW p \in Calls, OthersKeep(p), q # p PROVE Reliance(q)
    BY <1>b DEF OthersKeep, Reliance
  <1>1. ASSUME Crash PROVE Reliance(q)
    BY <1>1, NoCallIdle DEF Crash, Reliance
  <1>2. ASSUME NEW p \in Calls, DeletePasskey(p) PROVE Reliance(q)
    BY <1>0, <1>2, DeleteEffect DEF Reliance
  <1>3. ASSUME NEW p \in Calls,
               StorePasskey(p) \/ Unlink(p) \/ LinkIdentity(p) \/ AnnounceLinked(p)
                 \/ AdoptSubject(p) \/ CreateSession(p) \/ Disconnect(p)
        PROVE  Reliance(q)
    <2>1. OthersKeep(p) /\ call'[p].pc \notin {"delete", "unlink", "link"}
      BY <1>0, <1>3, ReturnEffect, GotoEffect
         DEF StorePasskey, Unlink, LinkIdentity, AnnounceLinked, AdoptSubject,
             CreateSession, Disconnect
    <2> QED
      BY <1>a, <2>1
  <1>4. ASSUME NEW p \in Calls, LookUpEmail(p) PROVE Reliance(q)
    <2>1. OthersKeep(p) /\ call'[p].pc \notin {"delete", "unlink", "link"}
      BY <1>0, <1>4, Known, LookUpEmailEffect
    <2> QED
      BY <1>a, <2>1
  <1>5. ASSUME NEW p \in Calls, NEW f \in Asserted, LookUpSubject(p, f) PROVE Reliance(q)
    <2>1. OthersKeep(p) /\ call'[p].pc \notin {"delete", "unlink", "link"}
      BY <1>0, <1>5, LookUpSubjectEffect
    <2> QED
      BY <1>a, <2>1
  <1>6. ASSUME NEW p \in Calls, NEW u \in Users, TakeCeremony(p, u) PROVE Reliance(q)
    <2>1. \/ UNCHANGED call
          \/ OthersKeep(p) /\ call'[p].pc \notin {"delete", "unlink", "link"}
      BY <1>0, <1>6, TakeEffect
    <2> QED
      BY <1>a, <2>1 DEF Reliance
  <1>7. ASSUME NEW p \in Calls, NEW u \in Users, CountForUnlink(p, u) PROVE Reliance(q)
    BY <1>0, <1>7, <1>b, CountForUnlinkEffect DEF Reliance
  <1>8. ASSUME NEW p \in Calls, NEW u \in Users, NEW c \in Creds, CountPasskeys(p, u, c)
        PROVE  Reliance(q)
    BY <1>0, <1>8, <1>b, CountPasskeysEffect DEF Reliance
  <1>9. ASSUME NEW p \in Calls, NEW u \in Users, NEW t \in LinkTokens, ConfirmLink(p, u, t)
        PROVE  Reliance(q)
    BY <1>0, <1>9, <1>b, ConfirmLinkEffect DEF Reliance
  <1>10. CASE UNCHANGED call
    BY <1>10 DEF Reliance
  <1>11. ASSUME NEW p \in Calls, Handle(p) PROVE Reliance(q)
    BY <1>2, <1>3, <1>4, <1>11 DEF Handle
  <1> QED
    BY <1>1, <1>3, <1>5, <1>6, <1>7, <1>8, <1>9, <1>10, <1>11
       DEF Next, ExpireCeremony, CreateWithPasskey, BeginAddPasskey, CreateWithFreja,
           UpsertIdentity, FrejaLink, SyncProviderEmail, ExpireLink

LEMMA LinkedStep ==
  ASSUME IInv, Next
  PROVE  LinkedByPresenter'
  <1>0. TypeOK /\ LinkInv /\ LinkedByPresenter /\ LinksStep
    BY Links DEF IInv
  <1> SUFFICES ASSUME NEW q \in Calls, call'[q].pc = "link"
               PROVE  \E t \in LinkTokens : /\ links'[t].state = "used"
                                            /\ links'[t].user = call'[q].user
                                            /\ links'[t].freja = call'[q].freja
    BY DEF LinkedByPresenter, At
  <1>1. CASE /\ call[q].pc = "link" /\ call'[q].user = call[q].user
             /\ call'[q].freja = call[q].freja
    <2>1. PICK t \in LinkTokens : /\ links[t].state = "used"
                                  /\ links[t].user = call[q].user
                                  /\ links[t].freja = call[q].freja
      BY <1>0, <1>1 DEF LinkedByPresenter, At
    <2> QED
      BY <1>0, <1>1, <2>1 DEF LinksStep
  <1>2. ASSUME NEW u \in Users, NEW t \in LinkTokens, ConfirmLink(q, u, t)
        PROVE  \E s \in LinkTokens : /\ links'[s].state = "used"
                                     /\ links'[s].user = call'[q].user
                                     /\ links'[s].freja = call'[q].freja
    <2>1. /\ links'[t].state = "used" /\ links'[t].user = links[t].user
          /\ links'[t].freja = links[t].freja
      BY <1>2, SpendEffect DEF ConfirmLink
    <2> QED
      BY <1>0, <1>2, <2>1, ConfirmLinkEffect
  <1>3. ASSUME NEW p \in Calls \ {q}, DeletePasskey(p)
        PROVE  /\ call[q].pc = "link" /\ call'[q].user = call[q].user
               /\ call'[q].freja = call[q].freja
    BY <1>0, <1>3, DeleteEffect
  <1>4. ASSUME NEW u \in Users, CountForUnlink(q, u) \/ \E c \in Creds : CountPasskeys(q, u, c)
        PROVE  FALSE
    BY <1>0, <1>4, CountForUnlinkEffect, CountPasskeysEffect
  <1> QED
    BY <1>1, <1>2, <1>3, <1>4, Relies DEF Reliance

\* Of more than one passkey there are two.
LEMMA Two ==
  ASSUME NEW S, IsFiniteSet(S), Cardinality(S) > 1
  PROVE  \E k, l \in S : k # l
  <1>1. CASE S = {}
    BY <1>1, FS_EmptySet
  <1>2. CASE S # {} /\ \A k, l \in S : k = l
    <2>1. PICK k \in S : S = {k}
      BY <1>2
    <2>2. Cardinality(S) = 1
      BY <2>1, FS_Singleton
    <2> QED
      BY <2>2
  <1> QED
    BY <1>1, <1>2

LEMMA CountStep ==
  ASSUME IInv, Next
  PROVE  CountInv'
  <1>0. TypeOK /\ LinkInv /\ CountInv /\ PasskeysStep
    BY Passkeys DEF IInv
  <1> DEFINE Holds(q, u) ==
        /\ call'[q].pc = "delete" => \E k, l \in passkeys' : k.user = u /\ l.user = u /\ k # l
        /\ call'[q].pc = "unlink" => \E k \in passkeys' : k.user = u
  <1> SUFFICES ASSUME NEW q \in Calls, NEW u \in Users, call'[q].user = u, ~call'[q].stale,
                      call'[q].pc \in {"delete", "unlink"}
               PROVE  Holds(q, u)
    BY DEF CountInv, At, PasskeysOf
  <1>1. CASE /\ call[q].pc = call'[q].pc /\ call[q].user = u /\ ~call[q].stale
             /\ passkeys \subseteq passkeys'
    BY <1>0, <1>1 DEF CountInv, At, PasskeysOf
  <1>2. ASSUME NEW p \in Calls \ {q}, DeletePasskey(p)
        PROVE  Holds(q, u)
    <2>1. /\ call[q].pc = call'[q].pc /\ call[q].user = u /\ ~call[q].stale
          /\ call[p].user = u => passkeys' = passkeys
          /\ passkeys' = passkeys \ {[user |-> call[p].user, cred |-> call[p].cred]}
      BY <1>0, <1>2, DeleteEffect DEF Counted, At
    <2>2. \A k \in passkeys : k.user = u => k \in passkeys'
      BY <2>1
    <2> QED
      BY <1>0, <2>1, <2>2 DEF CountInv, At, PasskeysOf
  <1>3. ASSUME NEW v \in Users, CountForUnlink(q, v)
        PROVE  Holds(q, u)
    <2>1. call'[q].pc = "unlink" /\ v = u
      BY <1>0, <1>3, CountForUnlinkEffect
    <2> QED
      BY <1>3, <2>1 DEF CountForUnlink, PasskeysOf
  <1>4. ASSUME NEW v \in Users, NEW c \in Creds, CountPasskeys(q, v, c)
        PROVE  Holds(q, u)
    <2>1. call'[q].pc = "delete" /\ v = u
      BY <1>0, <1>4, CountPasskeysEffect
    <2>2. Cardinality(PasskeysOf(u)) > 1 /\ UNCHANGED passkeys
      BY <1>4, <2>1 DEF CountPasskeys
    <2>3. IsFiniteSet(PasskeysOf(u))
      BY FS_Subset DEF IInv, PasskeysOf
    <2>4. \E k, l \in PasskeysOf(u) : k # l
      BY <2>2, <2>3, Two
    <2> QED
      BY <2>1, <2>2, <2>4 DEF PasskeysOf
  <1>5. ASSUME NEW v \in Users, NEW t \in LinkTokens, ConfirmLink(q, v, t)
        PROVE  FALSE
    BY <1>0, <1>5, ConfirmLinkEffect
  <1>6. ASSUME NEW p \in Calls, DeletePasskey(p)
        PROVE  p # q
    BY <1>0, <1>6, DeleteEffect
  <1> HIDE DEF Holds
  <1> QED
    BY <1>0, <1>1, <1>2, <1>3, <1>4, <1>5, <1>6, Relies DEF PasskeysStep, Reliance

\* The last way to sign in goes by a deletion or an unlinking of a request that is
\* stale.
LEMMA LoginStep ==
  ASSUME IInv, Next, NEW u \in Users, HasLogin(u), ~HasLogin(u)'
  PROVE  \E p \in Calls : call[p].stale /\ call[p].user = u
  <1>0. TypeOK /\ CountInv /\ PasskeysStep
    BY Passkeys DEF IInv
  <1>1. /\ \A k \in passkeys' : k.user # u
        /\ \A i \in identities' : i.user # u
        /\ PasskeysOf(u) # {} \/ IdentitiesOf(u) # {}
    BY DEF HasLogin, PasskeysOf, IdentitiesOf
  <1>2. ASSUME NEW p \in Calls, DeletePasskey(p), PasskeysOf(u) # {}
        PROVE  call[p].stale /\ call[p].user = u
    <2>1. /\ At(p, "delete")
          /\ passkeys' = passkeys \ {[user |-> call[p].user, cred |-> call[p].cred]}
      BY <1>2 DEF DeletePasskey
    <2>2. call[p].user = u
      BY <1>1, <1>2, <2>1 DEF PasskeysOf
    <2>3. ~ \E k, l \in PasskeysOf(u) : k # l
      BY <1>1, <2>1, <2>2 DEF PasskeysOf
    <2>4. call[p].stale
      BY <1>0, <2>1, <2>2, <2>3 DEF CountInv
    <2> QED
      BY <2>2, <2>4
  <1>3. ASSUME NEW p \in Calls, Unlink(p), IdentitiesOf(u) # {}
        PROVE  call[p].stale /\ call[p].user = u
    <2>1. /\ At(p, "unlink") /\ identities' = identities \ IdentitiesOf(call[p].user)
          /\ UNCHANGED passkeys
      BY <1>3 DEF Unlink
    <2>2. call[p].user = u
      BY <1>1, <1>3, <2>1 DEF IdentitiesOf
    <2>3. PasskeysOf(u) = {}
      BY <1>1, <2>1 DEF PasskeysOf
    <2>4. call[p].stale
      BY <1>0, <2>1, <2>2, <2>3 DEF CountInv
    <2> QED
      BY <2>2, <2>4
  <1>4. CASE PasskeysOf(u) # {}
    BY <1>0, <1>1, <1>2, <1>4 DEF PasskeysStep, PasskeysOf
  <1>5. CASE IdentitiesOf(u) # {}
    <2>1. ~FrejaStays(u)
      BY <1>1, <1>5 DEF FrejaStays
    <2> QED
      BY <1>3, <1>5, <2>1, Identities
  <1> QED
    BY <1>1, <1>4, <1>5

-----------------------------------------------------------------------------
(* The theorems. *)

LEMMA InvInit ==
  Init => IInv
  <1> SUFFICES ASSUME Init PROVE IInv
    OBVIOUS
  <1>1. TypeOK
    <2>1. NewLink \in Link
      BY DEF NewLink, Link
    <2> QED
      BY <2>1, NoCallIdle DEF Init, TypeOK
  <1>2. IsFiniteSet(passkeys)
    BY FS_EmptySet DEF Init
  <1>3. LinkInv /\ CeremonyInv /\ SubjectInv
    BY DEF Init, LinkInv, NewLink, CeremonyInv, SubjectInv
  <1>4. /\ \A p \in Calls : Carries(p)
        /\ CountInv /\ ChallengeRedeemedOnce /\ LinkedByPresenter
    BY NoCallIdle DEF Init, Carries, CountInv, ChallengeRedeemedOnce, LinkedByPresenter, At
  <1> QED
    BY <1>1, <1>2, <1>3, <1>4 DEF IInv

LEMMA InvStep ==
  IInv /\ [Next]_vars => IInv'
  <1> SUFFICES ASSUME IInv, [Next]_vars PROVE IInv'
    OBVIOUS
  <1>1. CASE Next
    <2>1. LinkInv'
      <3>1. LinksStep
        BY <1>1, Links
      <3> QED
        BY <3>1 DEF LinksStep, LinkInv
    <2>2. IsFiniteSet(passkeys)'
      BY <1>1, Passkeys DEF PasskeysStep
    <2>3. SubjectInv' /\ \A p \in Calls : Carries(p)'
      BY <1>1, Identities, Requests DEF IdentitiesStep, CallStep
    <2> QED
      BY <1>1, <2>1, <2>2, <2>3, TypeStep, CeremonyStep, LinkedStep, CountStep DEF IInv
  <1>2. CASE UNCHANGED vars
    <2>1. TypeOK' /\ IsFiniteSet(passkeys)' /\ LinkInv'
      BY <1>2 DEF IInv, vars, TypeOK, LinkInv
    <2>2. \A p \in Calls : Carries(p)'
      BY <1>2 DEF IInv, vars, Carries, At
    <2>3. CeremonyInv' /\ ChallengeRedeemedOnce'
      BY <1>2, CeremonyKept DEF vars, Stores
    <2>4. SubjectInv' /\ CountInv' /\ LinkedByPresenter'
      BY <1>2 DEF IInv, vars, SubjectInv, CountInv, LinkedByPresenter, PasskeysOf, At
    <2> QED
      BY <2>1, <2>2, <2>3, <2>4 DEF IInv
  <1> QED
    BY <1>1, <1>2

\* The inductive invariant: a challenge is in one place, a subject is one user's, and
\* what a request counted is still there unless it is marked stale.
THEOREM Invariant == Spec => []IInv
  BY InvInit, InvStep, PTL DEF Spec

\* The rows of webauthn_credentials, webauthn_add_sessions, user_identities and
\* freja_link_confirmations, and what requests carry, have the types of the schema.
THEOREM TypeCorrect == Spec => []TypeOK
  <1>1. IInv => TypeOK
    BY DEF IInv
  <1> QED
    BY <1>1, Invariant, PTL

\* DELETE ... RETURNING in finishAddPasskey gives a challenge to one of any number of
\* requests, and what it registers is not stored twice.
THEOREM ChallengesRedeemedOnce == Spec => []ChallengeRedeemedOnce
  <1>1. IInv => ChallengeRedeemedOnce
    BY DEF IInv
  <1> QED
    BY <1>1, Invariant, PTL

\* frejaLinkConfirm inserts an identity only for the user whose session opened the
\* link (AND user_id = ? of its DELETE).
THEOREM LinkedByItsPresenter == Spec => []LinkedByPresenter
  <1>1. IInv => LinkedByPresenter
    BY DEF IInv
  <1> QED
    BY <1>1, Invariant, PTL

\* UNIQUE (provider, provider_subject) and the statements of frejaLinkConfirm,
\* frejaLogin, frejaUnlink and confirmEmailChange never move a subject from one
\* account to another.
THEOREM SubjectsStay == Spec => SubjectStays
  <1>1. IInv /\ [Next]_vars =>
          [\A i \in identities, j \in identities' : i.sub = j.sub => i.user = j.user]_vars
    BY Identities DEF IdentitiesStep
  <1> QED
    BY <1>1, Invariant, PTL DEF Spec, SubjectStays

\* However requests interleave, deletePasskey and frejaUnlink leave an account without
\* a way to sign in only when another deletion came between count and removal.
THEOREM LastLoginStays == Spec => LastLoginLostOnlyByRace
  <1>1. IInv /\ [Next]_vars =>
          [\A u \in Users :
             HasLogin(u) /\ ~HasLogin(u)' =>
               \E p \in Calls : call[p].stale /\ call[p].user = u]_vars
    BY LoginStep
  <1> QED
    BY <1>1, Invariant, PTL DEF Spec, LastLoginLostOnlyByRace

=============================================================================
