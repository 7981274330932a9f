------------------------- MODULE EmailChange_proofs -------------------------
(***************************************************************************)
(* Theorems about EmailChange, for any users, mailboxes, links and number  *)
(* of concurrent requests.                                                 *)
(***************************************************************************)
EXTENDS EmailChange, TLAPS

-----------------------------------------------------------------------------
(* The inductive invariant. *)

\* A token's row names a user and the mailbox its link goes to, and nothing else
\* ever does; a link that was applied was followed.
LinkInv ==
  \A l \in Links :
    /\ token[l].state # "unused" =>
         token[l].user \in Members /\ token[l].mailbox \in Mailboxes
    /\ l \in applied =>
         token[l].state = "gone" /\ <<token[l].mailbox, l>> \in mailed
    /\ \A m \in Mailboxes : <<m, l>> \in mailed =>
         token[l].state # "unused" /\ token[l].mailbox = m

Serves(p) ==
  ~At(p, "idle") => call[p].user \in Members /\ call[p].mailbox \in Mailboxes

Copies(p) ==
  /\ call[p].link \in Links
  /\ token[call[p].link].user = call[p].user
  /\ token[call[p].link].mailbox = call[p].mailbox

\* A request that mails a link stored the token.
Mails(p) == At(p, "mail") => Copies(p) /\ token[call[p].link].state # "unused"

Confirms(p) == call[p].pc \in {"username", "identity", "hook"}

\* A request that confirms a change holds what the token said.
Confirmed(p) ==
  Confirms(p) =>
    /\ Copies(p)
    /\ token[call[p].link].state = "gone"
    /\ <<call[p].mailbox, call[p].link>> \in mailed
    /\ call[p].link \in applied <=> ~At(p, "username")

\* What a confirmation or an approval has still to pass on is what it wrote, or a
\* change crossed it; resetFreja's address is the username, or the request is stale.
Latest(p) ==
  /\ At(p, "identity") =>
       \/ username[call[p].user].mailbox = call[p].mailbox
       \/ <<call[p].user, "identity">> \in crossed
  /\ call[p].pc \in {"notify", "identity", "hook"} =>
       \/ username[call[p].user].mailbox = call[p].mailbox
       \/ <<call[p].user, "told">> \in crossed
  /\ At(p, "upsert") =>
       /\ call[p].sub \in Subs
       /\ username[call[p].user].mailbox = call[p].mailbox \/ p \in stale

CallInv ==
  \A p \in Calls : Serves(p) /\ Mails(p) /\ Confirmed(p) /\ Latest(p)

\* A link is redeemed by one request.
OneRedeems ==
  \A p, q \in Calls :
    At(p, "username") /\ At(q, "username") /\ call[p].link = call[q].link => p = q

\* A row of user_identities is one of a user with an account.
UserInv ==
  \A s \in Subs : identity[s] # NoIdentity =>
    identity[s].user \in Members /\ identity[s].mailbox \in Mailboxes

IInv ==
  /\ TypeOK /\ LinkInv /\ CallInv /\ OneRedeems /\ UserInv
  /\ UsernameIsProven /\ IdentityInStep /\ HostHasAddress

-----------------------------------------------------------------------------
(* What the helpers do to the record of one request. *)

OthersKeep(p) == \A q \in Calls \ {p} : call'[q] = call[q]

LEMMA NoCallIdle == NoCall \in Call /\ NoCall.pc = "idle"
  BY DEF NoCall, Call

LEMMA ServeEffect ==
  ASSUME TypeOK, NEW p \in Calls, NEW c \in Call, Serve(p, c)
  PROVE  call' \in [Calls -> Call] /\ call'[p] = c /\ OthersKeep(p)
  BY DEF TypeOK, Serve, OthersKeep

LEMMA ReturnEffect ==
  ASSUME TypeOK, NEW p \in Calls, Return(p)
  PROVE  call' \in [Calls -> Call] /\ call'[p].pc = "idle" /\ OthersKeep(p)
  BY ServeEffect, NoCallIdle DEF Return

LEMMA GotoEffect ==
  ASSUME TypeOK, NEW p \in Calls, NEW pc \in {"identity", "hook"}, Goto(p, pc)
  PROVE  /\ call' \in [Calls -> Call] /\ OthersKeep(p)
         /\ call'[p].pc = pc /\ call'[p].user = call[p].user
         /\ call'[p].mailbox = call[p].mailbox /\ call'[p].link = call[p].link
  <1> DEFINE c == [call[p] EXCEPT !.pc = pc]
  <1>1. call[p] \in Call
    BY DEF TypeOK
  <1>2. /\ c \in Call /\ c.pc = pc /\ c.user = call[p].user
        /\ c.mailbox = call[p].mailbox /\ c.link = call[p].link
    BY <1>1 DEF Call
  <1>3. Serve(p, c)
    BY DEF Goto, Serve
  <1> QED
    BY <1>2, <1>3, ServeEffect

LEMMA RequestEffect ==
  ASSUME TypeOK, NEW p \in Calls, NEW u \in Users, NEW m \in Mailboxes,
         RequestEmailChange(p, u, m)
  PROVE  /\ call' \in [Calls -> Call] /\ OthersKeep(p)
         /\ call'[p].pc = "insert" /\ call'[p].user = u /\ call'[p].mailbox = m
  <1> DEFINE c == [NoCall EXCEPT !.pc = "insert", !.user = u, !.mailbox = m]
  <1>1. c \in Call /\ c.pc = "insert" /\ c.user = u /\ c.mailbox = m
    BY DEF NoCall, Call
  <1>2. Serve(p, c)
    BY DEF RequestEmailChange
  <1> QED
    BY <1>1, <1>2, ServeEffect

LEMMA InsertEffect ==
  ASSUME TypeOK, NEW p \in Calls, NEW l \in Links, InsertToken(p, l)
  PROVE  /\ call' \in [Calls -> Call] /\ OthersKeep(p)
         /\ call'[p].pc = "mail" /\ call'[p].user = call[p].user
         /\ call'[p].mailbox = call[p].mailbox /\ call'[p].link = l
  <1> DEFINE c == [call[p] EXCEPT !.pc = "mail", !.link = l]
  <1>1. call[p] \in Call
    BY DEF TypeOK
  <1>2. /\ c \in Call /\ c.pc = "mail" /\ c.user = call[p].user
        /\ c.mailbox = call[p].mailbox /\ c.link = l
    BY <1>1 DEF Call
  <1>3. Serve(p, c)
    BY DEF InsertToken, Serve
  <1> QED
    BY <1>2, <1>3, ServeEffect

LEMMA ConfirmEffect ==
  ASSUME TypeOK, NEW p \in Calls, NEW m \in Mailboxes, NEW l \in Links,
         ConfirmEmailChange(p, m, l)
  PROVE  /\ call' \in [Calls -> Call] /\ OthersKeep(p)
         /\ call'[p].pc = "username" /\ call'[p].user = token[l].user
         /\ call'[p].mailbox = token[l].mailbox /\ call'[p].link = l
  <1> DEFINE c == [NoCall EXCEPT !.pc = "username", !.user = token[l].user,
                                !.mailbox = token[l].mailbox, !.link = l]
  <1>1. /\ c \in Call /\ c.pc = "username" /\ c.user = token[l].user
        /\ c.mailbox = token[l].mailbox /\ c.link = l
    BY DEF TypeOK, Token, NoCall, Call
  <1>2. Serve(p, c)
    BY DEF ConfirmEmailChange
  <1> QED
    BY <1>1, <1>2, ServeEffect

LEMMA JoinEffect ==
  ASSUME TypeOK, NEW p \in Calls, NEW u \in Users, NEW a \in Address,
         NEW s \in Subs \cup {None}, Join(p, u, a, s)
  PROVE  /\ call' \in [Calls -> Call] /\ OthersKeep(p)
         /\ call'[p].pc = "notify" /\ call'[p].user = u
         /\ call'[p].mailbox = a.mailbox /\ a.mailbox \in Mailboxes
  <1> DEFINE c == [NoCall EXCEPT !.pc = "notify", !.user = u, !.mailbox = a.mailbox]
  <1>1. /\ c \in Call /\ c.pc = "notify" /\ c.user = u /\ c.mailbox = a.mailbox
        /\ a.mailbox \in Mailboxes
    BY DEF NoCall, Call, Address
  <1>2. Serve(p, c)
    BY DEF Join
  <1> QED
    BY <1>1, <1>2, ServeEffect

LEMMA ResetEffect ==
  ASSUME TypeOK, NEW p \in Calls, NEW u \in Users, NEW s \in Subs, ResetFreja(p, u, s)
  PROVE  /\ call' \in [Calls -> Call] /\ OthersKeep(p)
         /\ call'[p].pc = "upsert" /\ call'[p].user = u /\ call'[p].sub = s
         /\ call'[p].mailbox = username[u].mailbox /\ username[u].mailbox \in Mailboxes
  <1> DEFINE c == [NoCall EXCEPT !.pc = "upsert", !.user = u, !.sub = s,
                                !.mailbox = username[u].mailbox]
  <1>1. username[u].mailbox \in Mailboxes
    BY DEF ResetFreja, Members, TypeOK, Address
  <1>2. /\ c \in Call /\ c.pc = "upsert" /\ c.user = u /\ c.sub = s
        /\ c.mailbox = username[u].mailbox
    BY <1>1 DEF NoCall, Call
  <1>3. Serve(p, c)
    BY DEF ResetFreja
  <1> QED
    BY <1>1, <1>2, <1>3, ServeEffect

LEMMA LowerIsAddress ==
  ASSUME NEW m \in Mailboxes
  PROVE  Lower(m) \in Address /\ Lower(m) # None /\ Lower(m).mailbox = m
  BY NoneAssumption DEF Lower, Address, Spellings

\* What each request knows, without quantifiers.
LEMMA Known ==
  ASSUME IInv, NEW p \in Calls
  PROVE  /\ TypeOK /\ call[p] \in Call
         /\ Serves(p) /\ Mails(p) /\ Confirmed(p) /\ Latest(p)
  BY DEF IInv, TypeOK, CallInv

\* The UPDATE of users either fails or writes the address.
LEMMA SetUsernameEffect ==
  ASSUME IInv, NEW p \in Calls, SetUsername(p)
  PROVE  /\ call[p].user \in Users /\ call[p].mailbox \in Mailboxes
         /\ call[p].link \in Links
         /\ \/ Return(p) /\ UNCHANGED <<username, applied, stale, crossed>>
            \/ /\ Goto(p, "identity")
               /\ username' = [username EXCEPT ![call[p].user] = Lower(call[p].mailbox)]
               /\ applied' = applied \cup {call[p].link}
               /\ stale' = stale \cup Others(p, {"upsert"})
               /\ crossed' \subseteq Users \X {"identity", "told"}
               /\ \A u \in Users \ {call[p].user}, f \in {"identity", "told"} :
                    <<u, f>> \in crossed' <=> <<u, f>> \in crossed
               /\ \A q \in Others(p, {"identity"}) :
                    <<call[p].user, "identity">> \in crossed'
               /\ \A q \in Others(p, {"notify", "identity", "hook"}) :
                    <<call[p].user, "told">> \in crossed'
  <1>1. /\ call[p].user \in Users /\ call[p].mailbox \in Mailboxes
        /\ call[p].link \in Links
    BY Known DEF SetUsername, At, Serves, Confirmed, Confirms, Copies, Members
  <1>2. crossed \subseteq Users \X {"identity", "told"}
    BY Known DEF TypeOK
  <1> QED
    BY <1>1, <1>2 DEF SetUsername

LEMMA NoIdentityType == NoIdentity \in Identity
  BY DEF NoIdentity, Identity

\* The upsert writes the address into the row of an owner, and says so in "crossed"
\* when the owner is another user or the address has been overtaken.
Upserts(p, owner) ==
  /\ identity' = [identity EXCEPT ![call[p].sub] =
                    [user |-> owner, mailbox |-> call[p].mailbox]]
  /\ crossed' = crossed \/ crossed' = crossed \cup {<<owner, "identity">>}
  /\ \/ owner = call[p].user /\ p \notin stale
     \/ <<owner, "identity">> \in crossed'

LEMMA UpsertEffect ==
  ASSUME IInv, NEW p \in Calls, UpsertIdentity(p)
  PROVE  /\ \E owner \in Members : Upserts(p, owner)
         /\ call[p].user \in Members /\ call[p].mailbox \in Mailboxes
         /\ call[p].sub \in Subs
  <1>1. /\ call[p].user \in Members /\ call[p].mailbox \in Mailboxes
        /\ call[p].sub \in Subs
    BY Known DEF UpsertIdentity, At, Serves, Latest
  <1>2. CASE identity[call[p].sub] = NoIdentity
    <2>1. Upserts(p, call[p].user)
      BY <1>2 DEF UpsertIdentity, Upserts
    <2> QED
      BY <1>1, <2>1
  <1>3. CASE identity[call[p].sub] # NoIdentity
    <2>1. identity[call[p].sub].user \in Members
      BY <1>1, <1>3 DEF IInv, UserInv
    <2>2. Upserts(p, identity[call[p].sub].user)
      BY <1>3 DEF UpsertIdentity, Upserts
    <2> QED
      BY <1>1, <2>1, <2>2
  <1> QED
    BY <1>1, <1>2, <1>3

-----------------------------------------------------------------------------
(* Types. *)

LEMMA TypeStep ==
  ASSUME IInv, Next
  PROVE  TypeOK'
  <1>0. TypeOK
    BY DEF IInv
  <1>1. ASSUME Crash PROVE TypeOK'
    <2>1. call' \in [Calls -> Call]
      BY <1>1, NoCallIdle DEF Crash
    <2>2. crossed' \subseteq Users \X {"identity", "told"}
      <3>1. \A p \in Calls :
              call[p].pc \in {"notify", "identity", "hook"} => call[p].user \in Users
        BY Known DEF Serves, At, Members
      <3> QED
        BY <1>0, <1>1, <3>1 DEF Crash, TypeOK, At
    <2> QED
      BY <1>0, <1>1, <2>1, <2>2 DEF Crash, TypeOK
  <1>2. ASSUME NEW p \in Calls, SendEmailChange(p) PROVE TypeOK'
    <2>1. call' \in [Calls -> Call]
      BY <1>0, <1>2, ReturnEffect DEF SendEmailChange
    <2>2. call[p].mailbox \in Mailboxes /\ call[p].link \in Links
      BY <1>2, Known DEF SendEmailChange, At, Serves, Mails, Copies
    <2>3. mailed' \subseteq Mailboxes \X Links
      <3>1. <<call[p].mailbox, call[p].link>> \in Mailboxes \X Links
        BY <2>2
      <3>2. mailed \subseteq Mailboxes \X Links
        BY <1>0 DEF TypeOK
      <3> QED
        BY <1>2, <3>1, <3>2 DEF SendEmailChange
    <2> QED
      BY <1>0, <1>2, <2>1, <2>3 DEF SendEmailChange, TypeOK, history
  <1>3. ASSUME NEW p \in Calls, SetUsername(p) PROVE TypeOK'
    <2>1. call' \in [Calls -> Call]
      BY <1>0, <1>3, SetUsernameEffect, ReturnEffect, GotoEffect
    <2>2. username' \in [Users -> Address \cup {None}]
      <3>1. Lower(call[p].mailbox) \in Address
        BY <1>3, SetUsernameEffect, LowerIsAddress
      <3>2. \/ username' = username
            \/ username' = [username EXCEPT ![call[p].user] = Lower(call[p].mailbox)]
        BY <1>3, SetUsernameEffect
      <3> QED
        BY <1>0, <3>1, <3>2 DEF TypeOK
    <2>3. /\ applied' \subseteq Links /\ stale' \subseteq Calls
          /\ crossed' \subseteq Users \X {"identity", "told"}
      BY <1>0, <1>3, SetUsernameEffect DEF TypeOK, Others
    <2> QED
      BY <1>0, <1>3, <2>1, <2>2, <2>3 DEF SetUsername, TypeOK
  <1>4. ASSUME NEW p \in Calls, SetIdentity(p) PROVE TypeOK'
    <2>1. call' \in [Calls -> Call]
      BY <1>0, <1>4, GotoEffect DEF SetIdentity
    <2>2. call[p].user \in Users /\ call[p].mailbox \in Mailboxes
      BY <1>4, Known DEF SetIdentity, At, Serves, Members
    <2>3. identity' \in [Subs -> Identity]
      BY <1>0, <1>4, <2>2 DEF SetIdentity, WithAddress, TypeOK, Identity
    <2> QED
      BY <1>0, <1>4, <2>1, <2>3 DEF SetIdentity, TypeOK, history
  <1>5. ASSUME NEW p \in Calls, CallOnEmailChanged(p) PROVE TypeOK'
    <2>1. call' \in [Calls -> Call]
      BY <1>0, <1>5, ReturnEffect DEF CallOnEmailChanged
    <2>2. told' \in [Users -> Mailboxes \cup {None}]
      BY <1>0, <1>5, Known DEF CallOnEmailChanged, TypeOK, At, Serves
    <2> QED
      BY <1>0, <1>5, <2>1, <2>2 DEF CallOnEmailChanged, TypeOK, history
  <1>6. ASSUME NEW p \in Calls, Disconnect(p) PROVE TypeOK'
    <2>1. call' \in [Calls -> Call]
      BY <1>0, <1>6, ReturnEffect, GotoEffect DEF Disconnect
    <2>2. crossed' \subseteq Users \X {"identity", "told"}
      BY <1>0, <1>6, Known DEF Disconnect, TypeOK, At, Serves, Members
    <2> QED
      BY <1>0, <1>6, <2>1, <2>2 DEF Disconnect, TypeOK
  <1>7. ASSUME NEW p \in Calls, NEW l \in Links, InsertToken(p, l) PROVE TypeOK'
    <2>1. call' \in [Calls -> Call]
      BY <1>0, <1>7, InsertEffect
    <2>2. call[p].user \in Users /\ call[p].mailbox \in Mailboxes
      BY <1>7, Known DEF InsertToken, At, Serves, Members
    <2>3. token' \in [Links -> Token]
      BY <1>0, <1>7, <2>2 DEF InsertToken, TypeOK, Token
    <2> QED
      BY <1>0, <1>7, <2>1, <2>3 DEF InsertToken, TypeOK, history
  <1>8. ASSUME NEW p \in Calls, NEW u \in Users, NEW m \in Mailboxes,
               RequestEmailChange(p, u, m)
        PROVE  TypeOK'
    BY <1>0, <1>8, RequestEffect DEF RequestEmailChange, TypeOK, history
  <1>9. ASSUME NEW p \in Calls, NEW m \in Mailboxes, NEW l \in Links,
               ConfirmEmailChange(p, m, l)
        PROVE  TypeOK'
    <2>1. call' \in [Calls -> Call]
      BY <1>0, <1>9, ConfirmEffect
    <2>2. token' \in [Links -> Token]
      BY <1>0, <1>9 DEF ConfirmEmailChange, TypeOK, Token
    <2> QED
      BY <1>0, <1>9, <2>1, <2>2 DEF ConfirmEmailChange, TypeOK, history
  <1>10. ASSUME NEW u \in Users, UnlinkFreja(u) PROVE TypeOK'
    BY <1>0, <1>10, NoIdentityType DEF UnlinkFreja, TypeOK, history
  <1>11. ASSUME NEW p \in Calls, NEW u \in Users, NEW a \in Address,
                NEW s \in Subs \cup {None}, Join(p, u, a, s)
         PROVE  TypeOK'
    <2>1. call' \in [Calls -> Call] /\ a.mailbox \in Mailboxes
      BY <1>0, <1>11, JoinEffect
    <2>2. identity' \in [Subs -> Identity]
      BY <1>0, <1>11, <2>1 DEF Join, TypeOK, Identity
    <2> QED
      BY <1>0, <1>11, <2>1, <2>2 DEF Join, TypeOK
  <1>12. ASSUME NEW u \in Users, NEW s \in Subs, NEW m \in Mailboxes,
                LinkFreja(u, s, m)
         PROVE  TypeOK'
    BY <1>0, <1>12 DEF LinkFreja, TypeOK, Identity
  <1>13. ASSUME NEW l \in Links, ExpireToken(l) PROVE TypeOK'
    <2>1. token' \in [Links -> Token]
      BY <1>0, <1>13 DEF ExpireToken, TypeOK, Token
    <2> QED
      BY <1>0, <1>13, <2>1 DEF ExpireToken, TypeOK, history
  <1>14. ASSUME NEW p \in Calls, CallOnUserCreated(p) PROVE TypeOK'
    <2>1. call' \in [Calls -> Call]
      BY <1>0, <1>14, ReturnEffect DEF CallOnUserCreated
    <2>2. told' \in [Users -> Mailboxes \cup {None}]
      BY <1>0, <1>14, Known DEF CallOnUserCreated, TypeOK, At, Serves
    <2> QED
      BY <1>0, <1>14, <2>1, <2>2 DEF CallOnUserCreated, TypeOK, history
  <1>15. ASSUME NEW p \in Calls, NEW u \in Users, NEW s \in Subs, ResetFreja(p, u, s)
         PROVE  TypeOK'
    BY <1>0, <1>15, ResetEffect DEF ResetFreja, TypeOK, history
  <1>16. ASSUME NEW p \in Calls, UpsertIdentity(p) PROVE TypeOK'
    <2>1. call' \in [Calls -> Call]
      BY <1>0, <1>16, ReturnEffect DEF UpsertIdentity
    <2>2. PICK owner \in Users : Upserts(p, owner)
      BY <1>16, UpsertEffect DEF Members
    <2>3. call[p].mailbox \in Mailboxes
      BY <1>16, UpsertEffect
    <2>4. identity' \in [Subs -> Identity]
      <3>1. [user |-> owner, mailbox |-> call[p].mailbox] \in Identity
        BY <2>3 DEF Identity
      <3> QED
        BY <1>0, <2>2, <3>1 DEF Upserts, TypeOK
    <2>5. crossed' \subseteq Users \X {"identity", "told"}
      <3>1. <<owner, "identity">> \in Users \X {"identity", "told"}
        OBVIOUS
      <3>2. crossed' \subseteq crossed \cup {<<owner, "identity">>}
        BY <2>2 DEF Upserts
      <3> QED
        BY <1>0, <3>1, <3>2 DEF TypeOK
    <2> QED
      BY <1>0, <1>16, <2>1, <2>4, <2>5 DEF UpsertIdentity, TypeOK
  <1>17. ASSUME NEW t \in Subs, NEW s \in Subs, AdoptSubject(t, s) PROVE TypeOK'
    BY <1>0, <1>17, NoIdentityType DEF AdoptSubject, TypeOK, history
  <1> QED
    BY <1>1, <1>2, <1>3, <1>4, <1>5, <1>6, <1>7, <1>8, <1>9, <1>10, <1>11, <1>12,
       <1>13, <1>14, <1>15, <1>16, <1>17 DEF Next

-----------------------------------------------------------------------------
(* Rows are added and used up, and never become another's. *)

Grows ==
  /\ \A u \in Users : username[u] # None => username'[u] # None
  /\ \A l \in Links :
       /\ token[l].state # "unused" =>
            /\ token'[l].state # "unused"
            /\ token'[l].user = token[l].user
            /\ token'[l].mailbox = token[l].mailbox
       /\ token[l].state = "gone" => token'[l].state = "gone"
  /\ mailed \subseteq mailed'
  /\ applied \subseteq applied'

LEMMA GrowsStep ==
  ASSUME IInv, Next
  PROVE  Grows
  <1>0. TypeOK
    BY DEF IInv
  <1>1. ASSUME Crash PROVE Grows
    BY <1>1 DEF Crash, Grows
  <1>2. ASSUME NEW p \in Calls, SendEmailChange(p) PROVE Grows
    BY <1>2 DEF SendEmailChange, Grows, history
  <1>3. ASSUME NEW p \in Calls, SetUsername(p) PROVE Grows
    <2>1. UNCHANGED <<token, mailed>>
      BY <1>3 DEF SetUsername
    <2>2. Lower(call[p].mailbox) # None
      BY <1>3, SetUsernameEffect, LowerIsAddress
    <2>3. \/ UNCHANGED <<username, applied>>
          \/ /\ username' = [username EXCEPT ![call[p].user] = Lower(call[p].mailbox)]
             /\ applied' = applied \cup {call[p].link}
      BY <1>3, SetUsernameEffect
    <2> QED
      BY <1>0, <2>1, <2>2, <2>3 DEF TypeOK, Grows
  <1>4. ASSUME NEW p \in Calls, SetIdentity(p) PROVE Grows
    BY <1>4 DEF SetIdentity, Grows, history
  <1>5. ASSUME NEW p \in Calls, CallOnEmailChanged(p) PROVE Grows
    BY <1>5 DEF CallOnEmailChanged, Grows, history
  <1>6. ASSUME NEW p \in Calls, Disconnect(p) PROVE Grows
    BY <1>6 DEF Disconnect, Grows
  <1>7. ASSUME NEW p \in Calls, NEW l \in Links, InsertToken(p, l) PROVE Grows
    BY <1>0, <1>7 DEF InsertToken, TypeOK, Grows, history
  <1>8. ASSUME NEW p \in Calls, NEW u \in Users, NEW m \in Mailboxes,
               RequestEmailChange(p, u, m)
        PROVE  Grows
    BY <1>8 DEF RequestEmailChange, Grows, history
  <1>9. ASSUME NEW p \in Calls, NEW m \in Mailboxes, NEW l \in Links,
               ConfirmEmailChange(p, m, l)
        PROVE  Grows
    BY <1>0, <1>9 DEF ConfirmEmailChange, TypeOK, Token, Grows, history
  <1>10. ASSUME NEW u \in Users, UnlinkFreja(u) PROVE Grows
    BY <1>10 DEF UnlinkFreja, Grows, history
  <1>11. ASSUME NEW p \in Calls, NEW u \in Users, NEW a \in Address,
                NEW s \in Subs \cup {None}, Join(p, u, a, s)
         PROVE  Grows
    BY <1>0, <1>11 DEF Join, TypeOK, Grows
  <1>12. ASSUME NEW u \in Users, NEW s \in Subs, NEW m \in Mailboxes,
                LinkFreja(u, s, m)
         PROVE  Grows
    BY <1>12 DEF LinkFreja, Grows
  <1>13. ASSUME NEW l \in Links, ExpireToken(l) PROVE Grows
    BY <1>0, <1>13 DEF ExpireToken, TypeOK, Token, Grows, history
  <1>14. ASSUME NEW p \in Calls, CallOnUserCreated(p)
         PROVE  Grows
    BY <1>14 DEF CallOnUserCreated, Grows, history
  <1>15. ASSUME NEW p \in Calls, NEW u \in Users, NEW s \in Subs, ResetFreja(p, u, s)
         PROVE  Grows
    BY <1>15 DEF ResetFreja, Grows, history
  <1>16. ASSUME NEW p \in Calls, UpsertIdentity(p)
         PROVE  Grows
    BY <1>16 DEF UpsertIdentity, Grows, history
  <1>17. ASSUME NEW t \in Subs, NEW s \in Subs, AdoptSubject(t, s)
         PROVE  Grows
    BY <1>17 DEF AdoptSubject, Grows, history
  <1> QED
    BY <1>1, <1>2, <1>3, <1>4, <1>5, <1>6, <1>7, <1>8, <1>9, <1>10, <1>11, <1>12,
       <1>13, <1>14, <1>15, <1>16, <1>17 DEF Next

-----------------------------------------------------------------------------
(* The links. *)

\* Steps that neither issue a token, nor mail a link, nor apply one.
LEMMA LinkInvKept ==
  ASSUME IInv, Grows, TypeOK', mailed' = mailed, applied' = applied,
         \A l \in Links : token'[l].state # "unused" => token[l].state # "unused"
  PROVE  LinkInv'
  BY DEF IInv, LinkInv, Grows, Members, TypeOK, Token

LEMMA LinkStep ==
  ASSUME IInv, Next
  PROVE  LinkInv'
  <1>0. TypeOK /\ LinkInv /\ TypeOK' /\ Grows
    BY TypeStep, GrowsStep DEF IInv
  <1>1. ASSUME Crash PROVE LinkInv'
    BY <1>0, <1>1, LinkInvKept DEF Crash
  <1>2. ASSUME NEW p \in Calls, SendEmailChange(p) PROVE LinkInv'
    <2>1. /\ call[p].link \in Links /\ token[call[p].link].mailbox = call[p].mailbox
          /\ token[call[p].link].state # "unused"
      BY <1>2, Known DEF SendEmailChange, At, Mails, Copies
    <2>2. \A m \in Mailboxes, l \in Links :
            <<m, l>> \in mailed' => \/ <<m, l>> \in mailed
                                    \/ m = call[p].mailbox /\ l = call[p].link
      BY <1>2 DEF SendEmailChange
    <2>3. UNCHANGED <<username, token, applied>>
      BY <1>2 DEF SendEmailChange, history
    <2> QED
      BY <1>0, <2>1, <2>2, <2>3 DEF LinkInv, Grows, Members
  <1>3. ASSUME NEW p \in Calls, SetUsername(p) PROVE LinkInv'
    <2>1. /\ token[call[p].link].state = "gone"
          /\ <<token[call[p].link].mailbox, call[p].link>> \in mailed
      BY <1>3, Known DEF SetUsername, At, Confirmed, Confirms, Copies
    <2>2. UNCHANGED <<token, mailed>>
      BY <1>3 DEF SetUsername
    <2>3. applied' \subseteq applied \cup {call[p].link}
      BY <1>3, SetUsernameEffect
    <2> QED
      BY <1>0, <2>1, <2>2, <2>3 DEF LinkInv, Grows, Members
  <1>4. ASSUME NEW p \in Calls, SetIdentity(p) PROVE LinkInv'
    BY <1>0, <1>4, LinkInvKept DEF SetIdentity, history
  <1>5. ASSUME NEW p \in Calls, CallOnEmailChanged(p) PROVE LinkInv'
    BY <1>0, <1>5, LinkInvKept DEF CallOnEmailChanged, history
  <1>6. ASSUME NEW p \in Calls, Disconnect(p) PROVE LinkInv'
    BY <1>0, <1>6, LinkInvKept DEF Disconnect
  <1>7. ASSUME NEW p \in Calls, NEW l \in Links, InsertToken(p, l) PROVE LinkInv'
    <2>1. call[p].user \in Members /\ call[p].mailbox \in Mailboxes
      BY <1>7, Known DEF InsertToken, At, Serves
    <2>2. /\ token' = [token EXCEPT ![l] = [state |-> "open", user |-> call[p].user,
                                            mailbox |-> call[p].mailbox]]
          /\ token[l].state = "unused"
          /\ UNCHANGED <<username, mailed, applied>>
      BY <1>7 DEF InsertToken, history
    <2> QED
      BY <1>0, <2>1, <2>2 DEF LinkInv, Members, TypeOK
  <1>8. ASSUME NEW p \in Calls, NEW u \in Users, NEW m \in Mailboxes,
               RequestEmailChange(p, u, m)
        PROVE  LinkInv'
    BY <1>0, <1>8, LinkInvKept DEF RequestEmailChange, history
  <1>9. ASSUME NEW p \in Calls, NEW m \in Mailboxes, NEW l \in Links,
               ConfirmEmailChange(p, m, l)
        PROVE  LinkInv'
    <2>1. \A k \in Links : token'[k].state # "unused" => token[k].state # "unused"
      BY <1>0, <1>9 DEF ConfirmEmailChange, TypeOK
    <2> QED
      BY <1>0, <1>9, <2>1, LinkInvKept DEF ConfirmEmailChange, history
  <1>10. ASSUME NEW u \in Users, UnlinkFreja(u) PROVE LinkInv'
    BY <1>0, <1>10, LinkInvKept DEF UnlinkFreja, history
  <1>11. ASSUME NEW p \in Calls, NEW u \in Users, NEW a \in Address,
                NEW s \in Subs \cup {None}, Join(p, u, a, s)
         PROVE  LinkInv'
    BY <1>0, <1>11, LinkInvKept DEF Join
  <1>12. ASSUME NEW u \in Users, NEW s \in Subs, NEW m \in Mailboxes,
                LinkFreja(u, s, m)
         PROVE  LinkInv'
    BY <1>0, <1>12, LinkInvKept DEF LinkFreja
  <1>13. ASSUME NEW l \in Links, ExpireToken(l) PROVE LinkInv'
    <2>1. \A k \in Links : token'[k].state # "unused" => token[k].state # "unused"
      BY <1>0, <1>13 DEF ExpireToken, TypeOK
    <2> QED
      BY <1>0, <1>13, <2>1, LinkInvKept DEF ExpireToken, history
  <1>14. ASSUME NEW p \in Calls, CallOnUserCreated(p)
         PROVE  LinkInv'
    BY <1>0, <1>14, LinkInvKept DEF CallOnUserCreated, history
  <1>15. ASSUME NEW p \in Calls, NEW u \in Users, NEW s \in Subs, ResetFreja(p, u, s)
         PROVE  LinkInv'
    BY <1>0, <1>15, LinkInvKept DEF ResetFreja, history
  <1>16. ASSUME NEW p \in Calls, UpsertIdentity(p)
         PROVE  LinkInv'
    BY <1>0, <1>16, LinkInvKept DEF UpsertIdentity, history
  <1>17. ASSUME NEW t \in Subs, NEW s \in Subs, AdoptSubject(t, s)
         PROVE  LinkInv'
    BY <1>0, <1>17, LinkInvKept DEF AdoptSubject, history
  <1> QED
    BY <1>1, <1>2, <1>3, <1>4, <1>5, <1>6, <1>7, <1>8, <1>9, <1>10, <1>11, <1>12,
       <1>13, <1>14, <1>15, <1>16, <1>17 DEF Next

-----------------------------------------------------------------------------
(* What each request knows. *)

Knows(q) == Serves(q) /\ Mails(q) /\ Confirmed(q) /\ Latest(q)

LEMMA IdleKnows ==
  ASSUME NEW q \in Calls, call'[q].pc = "idle"
  PROVE  Knows(q)'
  BY DEF Knows, Serves, Mails, Confirmed, Confirms, Latest, At

\* A step of others leaves a request what it knows, unless it applies its link
\* or writes its user's name unnoticed.
LEMMA KnowsKept ==
  ASSUME IInv, Grows, NEW q \in Calls, call'[q] = call[q],
         At(q, "username") => call[q].link \notin applied' \ applied,
         \A f \in {"identity", "told"} :
           <<call[q].user, f>> \in crossed => <<call[q].user, f>> \in crossed',
         q \in stale => q \in stale',
         ~At(q, "idle") => username'[call[q].user] = username[call[q].user]
  PROVE  Knows(q)'
  <1>1. Serves(q)'
    BY Known DEF Serves, At, Members, Grows
  <1>2. Mails(q)'
    BY Known DEF Mails, Copies, At, Grows
  <1>3. Confirmed(q)'
    BY Known DEF Confirmed, Confirms, Copies, At, Grows
  <1>4. Latest(q)'
    BY Known DEF Latest, At
  <1> QED
    BY <1>1, <1>2, <1>3, <1>4 DEF Knows

LEMMA OthersKnow ==
  ASSUME IInv, Grows, NEW p \in Calls, OthersKeep(p), UNCHANGED applied,
         crossed \subseteq crossed', stale \ {p} \subseteq stale',
         \A u \in Users : username[u] # None => username'[u] = username[u], Knows(p)'
  PROVE  CallInv'
  <1>1. ASSUME NEW q \in Calls \ {p} PROVE Knows(q)'
    <2>1. ~At(q, "idle") => username'[call[q].user] = username[call[q].user]
      BY Known DEF Serves, Members
    <2> QED
      BY <2>1, KnowsKept DEF OthersKeep
  <1> QED
    BY <1>1 DEF CallInv, Knows

LEMMA AllKnow ==
  ASSUME IInv, Grows, UNCHANGED <<call, applied, stale>>, crossed \subseteq crossed',
         \A u \in Users : username[u] # None => username'[u] = username[u]
  PROVE  CallInv'
  <1>1. ASSUME NEW q \in Calls PROVE Knows(q)'
    <2>1. ~At(q, "idle") => username'[call[q].user] = username[call[q].user]
      BY Known DEF Serves, Members
    <2> QED
      BY <2>1, KnowsKept
  <1> QED
    BY <1>1 DEF CallInv, Knows

LEMMA CallStep ==
  ASSUME IInv, Next
  PROVE  CallInv'
  <1>0. TypeOK /\ Grows /\ OneRedeems
    BY GrowsStep DEF IInv
  <1>1. ASSUME Crash PROVE CallInv'
    BY <1>1, NoCallIdle, IdleKnows DEF Crash, CallInv, Knows
  <1>2. ASSUME NEW p \in Calls, SendEmailChange(p) PROVE CallInv'
    BY <1>0, <1>2, ReturnEffect, IdleKnows, OthersKnow DEF SendEmailChange, history
  <1>3. ASSUME NEW p \in Calls, SetUsername(p) PROVE CallInv'
    <2> DEFINE u == call[p].user
    <2>1. CASE Return(p) /\ UNCHANGED <<username, applied, stale, crossed>>
      BY <1>0, <2>1, ReturnEffect, IdleKnows, OthersKnow
    <2>2. CASE Goto(p, "identity")
               /\ username' = [username EXCEPT ![u] = Lower(call[p].mailbox)]
               /\ applied' = applied \cup {call[p].link}
               /\ stale' = stale \cup Others(p, {"upsert"})
      <3>1. /\ OthersKeep(p)
            /\ call'[p].pc = "identity" /\ call'[p].user = u
            /\ call'[p].mailbox = call[p].mailbox /\ call'[p].link = call[p].link
        BY <1>0, <2>2, GotoEffect
      <3>2. /\ u \in Members /\ u \in Users /\ call[p].mailbox \in Mailboxes
            /\ At(p, "username") /\ Copies(p)
            /\ token[call[p].link].state = "gone"
            /\ <<call[p].mailbox, call[p].link>> \in mailed
        BY <1>3, Known DEF SetUsername, At, Serves, Members, Confirmed, Confirms
      <3>3. username'[u] = Lower(call[p].mailbox) /\ username'[u].mailbox = call[p].mailbox
        BY <1>0, <2>2, <3>2, LowerIsAddress DEF TypeOK
      <3>4. Knows(p)'
        <4>1. Serves(p)' /\ Mails(p)' /\ Latest(p)'
          BY <1>0, <3>1, <3>2, <3>3 DEF Serves, Mails, Latest, At, Members, Grows
        <4>2. Confirmed(p)'
          BY <1>0, <2>2, <3>1, <3>2 DEF Confirmed, Confirms, Copies, At, Grows
        <4> QED
          BY <4>1, <4>2 DEF Knows
      <3>5. ASSUME NEW q \in Calls \ {p} PROVE Knows(q)'
        <4>1. call'[q] = call[q]
          BY <3>1 DEF OthersKeep
        <4>2. At(q, "username") => call[q].link \notin applied' \ applied
          BY <1>0, <2>2, <3>2 DEF OneRedeems
        <4>3. Serves(q)' /\ Mails(q)'
          BY <1>0, <4>1, Known DEF Serves, Mails, Copies, At, Members, Grows
        <4>4. Confirmed(q)'
          BY <1>0, <4>1, <4>2, Known DEF Confirmed, Confirms, Copies, At, Grows
        <4>5. CASE call[q].user # u
          <5>1. \A f \in {"identity", "told"} :
                  <<call[q].user, f>> \in crossed => <<call[q].user, f>> \in crossed'
            BY <1>0, <1>3, <4>5, SetUsernameEffect DEF TypeOK
          <5>2. username'[call[q].user] = username[call[q].user]
            BY <2>2, <4>5
          <5> QED
            BY <1>0, <2>2, <4>1, <4>2, <5>1, <5>2, KnowsKept
        <4>6. CASE call[q].user = u
          <5>1. /\ At(q, "identity") => <<u, "identity">> \in crossed'
                /\ call[q].pc \in {"notify", "identity", "hook"} =>
                     <<u, "told">> \in crossed'
                /\ At(q, "upsert") => q \in stale'
            <6>1. ~At(p, "idle")
                  /\ ~(Return(p) /\ UNCHANGED <<username, applied, stale, crossed>>)
              BY <1>0, <2>2, <3>1, ReturnEffect, <3>2 DEF At
            <6>2. \A pcs : call[q].pc \in pcs => q \in Others(p, pcs)
              BY <4>6 DEF Others
            <6> QED
              BY <1>3, <2>2, <6>1, <6>2, SetUsernameEffect DEF At
          <5>2. At(q, "upsert") => call[q].sub \in Subs
            BY Known DEF Latest
          <5> QED
            BY <4>1, <4>3, <4>4, <4>6, <5>1, <5>2 DEF Knows, Latest, At
        <4> QED
          BY <4>5, <4>6
      <3> QED
        BY <3>4, <3>5 DEF CallInv, Knows
    <2> QED
      BY <1>3, <2>1, <2>2, SetUsernameEffect
  <1>4. ASSUME NEW p \in Calls, SetIdentity(p) PROVE CallInv'
    <2>1. /\ OthersKeep(p) /\ call'[p].pc = "hook" /\ call'[p].user = call[p].user
          /\ call'[p].mailbox = call[p].mailbox /\ call'[p].link = call[p].link
      BY <1>0, <1>4, GotoEffect DEF SetIdentity
    <2>2. /\ UNCHANGED <<username, token, mailed, applied, stale, crossed>>
          /\ call[p].pc = "identity"
      BY <1>4 DEF SetIdentity, history, At
    <2>3. Knows(p)'
      BY <2>1, <2>2, Known
         DEF Knows, Serves, Mails, Confirmed, Confirms, Copies, Latest, At, Members
    <2> QED
      BY <1>0, <2>1, <2>2, <2>3, OthersKnow
  <1>5. ASSUME NEW p \in Calls, CallOnEmailChanged(p) PROVE CallInv'
    BY <1>0, <1>5, ReturnEffect, IdleKnows, OthersKnow DEF CallOnEmailChanged, history
  <1>6. ASSUME NEW p \in Calls, Disconnect(p) PROVE CallInv'
    <2>1. /\ UNCHANGED <<username, token, mailed, applied>>
          /\ crossed \subseteq crossed' /\ stale \ {p} \subseteq stale'
      BY <1>6 DEF Disconnect
    <2>2. CASE Return(p)
      BY <1>0, <2>1, <2>2, ReturnEffect, IdleKnows, OthersKnow
    <2>3. CASE At(p, "identity") /\ Goto(p, "hook")
      <3>1. /\ OthersKeep(p) /\ call'[p].pc = "hook" /\ call'[p].user = call[p].user
            /\ call'[p].mailbox = call[p].mailbox /\ call'[p].link = call[p].link
        BY <1>0, <2>3, GotoEffect
      <3>2. Knows(p)'
        BY <2>1, <2>3, <3>1, Known
           DEF Knows, Serves, Mails, Confirmed, Confirms, Copies, Latest, At, Members
      <3> QED
        BY <1>0, <2>1, <3>1, <3>2, OthersKnow
    <2> QED
      BY <1>6, <2>2, <2>3 DEF Disconnect
  <1>7. ASSUME NEW p \in Calls, NEW l \in Links, InsertToken(p, l) PROVE CallInv'
    <2>1. /\ OthersKeep(p) /\ call'[p].pc = "mail" /\ call'[p].user = call[p].user
          /\ call'[p].mailbox = call[p].mailbox /\ call'[p].link = l
      BY <1>0, <1>7, InsertEffect
    <2>2. UNCHANGED <<username, applied, stale, crossed>> /\ At(p, "insert")
      BY <1>7 DEF InsertToken, history
    <2>3. /\ token'[l].state = "open" /\ token'[l].user = call[p].user
          /\ token'[l].mailbox = call[p].mailbox
      BY <1>0, <1>7 DEF InsertToken, TypeOK
    <2>4. Knows(p)'
      BY <2>1, <2>2, <2>3, Known
         DEF Knows, Serves, Mails, Confirmed, Confirms, Copies, Latest, At, Members
    <2> QED
      BY <1>0, <2>1, <2>2, <2>4, OthersKnow
  <1>8. ASSUME NEW p \in Calls, NEW u \in Users, NEW m \in Mailboxes,
               RequestEmailChange(p, u, m)
        PROVE  CallInv'
    <2>1. /\ OthersKeep(p) /\ call'[p].pc = "insert" /\ call'[p].user = u
          /\ call'[p].mailbox = m
      BY <1>0, <1>8, RequestEffect
    <2>2. UNCHANGED <<username, applied, stale, crossed>> /\ u \in Members
      BY <1>8 DEF RequestEmailChange, history
    <2>3. Knows(p)'
      BY <2>1, <2>2 DEF Knows, Serves, Mails, Confirmed, Confirms, Latest, At, Members
    <2> QED
      BY <1>0, <2>1, <2>2, <2>3, OthersKnow
  <1>9. ASSUME NEW p \in Calls, NEW m \in Mailboxes, NEW l \in Links,
               ConfirmEmailChange(p, m, l)
        PROVE  CallInv'
    <2>1. /\ OthersKeep(p) /\ call'[p].pc = "username"
          /\ call'[p].user = token[l].user /\ call'[p].mailbox = token[l].mailbox
          /\ call'[p].link = l
      BY <1>0, <1>9, ConfirmEffect
    <2>2. /\ UNCHANGED <<username, mailed, applied, stale, crossed>>
          /\ <<m, l>> \in mailed /\ token[l].state = "open"
      BY <1>9 DEF ConfirmEmailChange, history
    <2>3. /\ token'[l].state = "gone" /\ token'[l].user = token[l].user
          /\ token'[l].mailbox = token[l].mailbox
      BY <1>0, <1>9 DEF ConfirmEmailChange, TypeOK, Token
    <2>4. /\ token[l].user \in Members /\ token[l].mailbox = m /\ m \in Mailboxes
          /\ l \notin applied
      BY <2>2 DEF IInv, LinkInv
    <2>5. Knows(p)'
      BY <2>1, <2>2, <2>3, <2>4
         DEF Knows, Serves, Mails, Confirmed, Confirms, Copies, Latest, At, Members
    <2> QED
      BY <1>0, <2>1, <2>2, <2>5, OthersKnow
  <1>10. ASSUME NEW u \in Users, UnlinkFreja(u) PROVE CallInv'
    BY <1>0, <1>10, AllKnow DEF UnlinkFreja, history
  <1>11. ASSUME NEW p \in Calls, NEW u \in Users, NEW a \in Address,
                NEW s \in Subs \cup {None}, Join(p, u, a, s)
         PROVE  CallInv'
    <2>1. /\ OthersKeep(p) /\ call'[p].pc = "notify" /\ call'[p].user = u
          /\ call'[p].mailbox = a.mailbox /\ a.mailbox \in Mailboxes
      BY <1>0, <1>11, JoinEffect
    <2>2. /\ UNCHANGED <<applied, stale, crossed>> /\ username'[u] = a
          /\ \A v \in Users : username[v] # None => username'[v] = username[v]
      BY <1>0, <1>11 DEF Join, TypeOK
    <2>3. a # None
      BY NoneAssumption
    <2>4. Knows(p)'
      BY <2>1, <2>2, <2>3
         DEF Knows, Serves, Mails, Confirmed, Confirms, Latest, At, Members
    <2> QED
      BY <1>0, <2>1, <2>2, <2>4, OthersKnow
  <1>12. ASSUME NEW u \in Users, NEW s \in Subs, NEW m \in Mailboxes,
                LinkFreja(u, s, m)
         PROVE  CallInv'
    BY <1>0, <1>12, AllKnow DEF LinkFreja
  <1>13. ASSUME NEW l \in Links, ExpireToken(l) PROVE CallInv'
    BY <1>0, <1>13, AllKnow DEF ExpireToken, history
  <1>14. ASSUME NEW p \in Calls, CallOnUserCreated(p) PROVE CallInv'
    BY <1>0, <1>14, ReturnEffect, IdleKnows, OthersKnow DEF CallOnUserCreated, history
  <1>15. ASSUME NEW p \in Calls, NEW u \in Users, NEW s \in Subs, ResetFreja(p, u, s)
         PROVE  CallInv'
    <2>1. /\ OthersKeep(p) /\ call'[p].pc = "upsert" /\ call'[p].user = u
          /\ call'[p].sub = s /\ call'[p].mailbox = username[u].mailbox
          /\ username[u].mailbox \in Mailboxes
      BY <1>0, <1>15, ResetEffect
    <2>2. UNCHANGED <<username, applied, stale, crossed>> /\ u \in Members
      BY <1>15 DEF ResetFreja, history
    <2>3. Knows(p)'
      BY <2>1, <2>2 DEF Knows, Serves, Mails, Confirmed, Confirms, Latest, At, Members
    <2> QED
      BY <1>0, <2>1, <2>2, <2>3, OthersKnow
  <1>16. ASSUME NEW p \in Calls, UpsertIdentity(p) PROVE CallInv'
    <2>1. OthersKeep(p) /\ call'[p].pc = "idle"
      BY <1>0, <1>16, ReturnEffect DEF UpsertIdentity
    <2>2. /\ UNCHANGED <<username, applied>> /\ stale' = stale \ {p}
          /\ crossed \subseteq crossed'
      BY <1>16 DEF UpsertIdentity
    <2> QED
      BY <1>0, <2>1, <2>2, IdleKnows, OthersKnow
  <1>17. ASSUME NEW t \in Subs, NEW s \in Subs, AdoptSubject(t, s) PROVE CallInv'
    BY <1>0, <1>17, AllKnow DEF AdoptSubject, history
  <1> QED
    BY <1>1, <1>2, <1>3, <1>4, <1>5, <1>6, <1>7, <1>8, <1>9, <1>10, <1>11, <1>12,
       <1>13, <1>14, <1>15, <1>16, <1>17 DEF Next

\* DELETE ... RETURNING gives a token to one request.
LEMMA RedeemStep ==
  ASSUME IInv, Next
  PROVE  OneRedeems'
  <1>0. TypeOK /\ OneRedeems
    BY DEF IInv
  <1>a. ASSUME NEW p \in Calls, OthersKeep(p), call'[p].pc # "username"
        PROVE  OneRedeems'
    BY <1>0, <1>a DEF OneRedeems, OthersKeep, At
  <1>b. ASSUME UNCHANGED call PROVE OneRedeems'
    BY <1>0, <1>b DEF OneRedeems, At
  <1>1. ASSUME Crash PROVE OneRedeems'
    BY <1>1, NoCallIdle DEF Crash, OneRedeems, At
  <1>2. ASSUME NEW p \in Calls, SendEmailChange(p) PROVE OneRedeems'
    BY <1>0, <1>2, <1>a, ReturnEffect DEF SendEmailChange
  <1>3. ASSUME NEW p \in Calls, SetUsername(p) PROVE OneRedeems'
    BY <1>0, <1>3, <1>a, SetUsernameEffect, ReturnEffect, GotoEffect
  <1>4. ASSUME NEW p \in Calls, SetIdentity(p) PROVE OneRedeems'
    BY <1>0, <1>4, <1>a, GotoEffect DEF SetIdentity
  <1>5. ASSUME NEW p \in Calls, CallOnEmailChanged(p) PROVE OneRedeems'
    BY <1>0, <1>5, <1>a, ReturnEffect DEF CallOnEmailChanged
  <1>6. ASSUME NEW p \in Calls, Disconnect(p) PROVE OneRedeems'
    BY <1>0, <1>6, <1>a, ReturnEffect, GotoEffect DEF Disconnect
  <1>7. ASSUME NEW p \in Calls, NEW l \in Links, InsertToken(p, l) PROVE OneRedeems'
    BY <1>0, <1>7, <1>a, InsertEffect
  <1>8. ASSUME NEW p \in Calls, NEW u \in Users, NEW m \in Mailboxes,
               RequestEmailChange(p, u, m)
        PROVE  OneRedeems'
    BY <1>0, <1>8, <1>a, RequestEffect
  <1>9. ASSUME NEW p \in Calls, NEW m \in Mailboxes, NEW l \in Links,
               ConfirmEmailChange(p, m, l)
        PROVE  OneRedeems'
    <2>1. OthersKeep(p) /\ call'[p].link = l
      BY <1>0, <1>9, ConfirmEffect
    <2>2. \A q \in Calls \ {p} : At(q, "username") => call[q].link # l
      BY <1>9, Known DEF ConfirmEmailChange, At, Confirmed, Confirms
    <2> QED
      BY <1>0, <2>1, <2>2 DEF OneRedeems, OthersKeep, At
  <1>10. ASSUME NEW u \in Users, UnlinkFreja(u) PROVE OneRedeems'
    BY <1>10, <1>b DEF UnlinkFreja
  <1>11. ASSUME NEW p \in Calls, NEW u \in Users, NEW a \in Address,
                NEW s \in Subs \cup {None}, Join(p, u, a, s)
         PROVE  OneRedeems'
    BY <1>0, <1>11, <1>a, JoinEffect
  <1>12. ASSUME NEW u \in Users, NEW s \in Subs, NEW m \in Mailboxes,
                LinkFreja(u, s, m)
         PROVE  OneRedeems'
    BY <1>12, <1>b DEF LinkFreja
  <1>13. ASSUME NEW l \in Links, ExpireToken(l) PROVE OneRedeems'
    BY <1>13, <1>b DEF ExpireToken
  <1>14. ASSUME NEW p \in Calls, CallOnUserCreated(p) PROVE OneRedeems'
    BY <1>0, <1>14, <1>a, ReturnEffect DEF CallOnUserCreated
  <1>15. ASSUME NEW p \in Calls, NEW u \in Users, NEW s \in Subs, ResetFreja(p, u, s)
         PROVE  OneRedeems'
    BY <1>0, <1>15, <1>a, ResetEffect
  <1>16. ASSUME NEW p \in Calls, UpsertIdentity(p) PROVE OneRedeems'
    BY <1>0, <1>16, <1>a, ReturnEffect DEF UpsertIdentity
  <1>17. ASSUME NEW t \in Subs, NEW s \in Subs, AdoptSubject(t, s) PROVE OneRedeems'
    BY <1>17, <1>b DEF AdoptSubject
  <1> QED
    BY <1>1, <1>2, <1>3, <1>4, <1>5, <1>6, <1>7, <1>8, <1>9, <1>10, <1>11, <1>12,
       <1>13, <1>14, <1>15, <1>16, <1>17 DEF Next

-----------------------------------------------------------------------------
(* Usernames and identities. *)

\* A row after the step: one that was there (under this subject or, in frejaLogin,
\* another), or one that was written.
Kept(s) == identity'[s] = NoIdentity \/ \E t \in Subs : identity'[s] = identity[t]

Written(s, u, m) == identity'[s] = [user |-> u, mailbox |-> m]

LEMMA UserStep ==
  ASSUME IInv, Next
  PROVE  UserInv'
  <1>0. TypeOK /\ UserInv /\ Grows
    BY GrowsStep DEF IInv
  <1>a. ASSUME NEW u \in Users, NEW m \in Mailboxes, username'[u] # None,
               \A s \in Subs : Kept(s) \/ Written(s, u, m)
        PROVE  UserInv'
    BY <1>0, <1>a DEF UserInv, Kept, Written, Grows, Members
  <1>b. ASSUME \A s \in Subs : Kept(s) PROVE UserInv'
    BY <1>0, <1>b DEF UserInv, Kept, Grows, Members
  <1>1. ASSUME NEW p \in Calls, SetIdentity(p) PROVE UserInv'
    <2>0. PICK u \in Users, m \in Mailboxes :
            u = call[p].user /\ m = call[p].mailbox /\ username[u] # None
      BY <1>1, Known DEF SetIdentity, At, Serves, Members
    <2>1. \A s \in Subs : Kept(s) \/ Written(s, u, m)
      BY <1>1, <2>0 DEF SetIdentity, WithAddress, Kept, Written
    <2>2. username'[u] # None
      BY <1>1, <2>0 DEF SetIdentity
    <2> QED
      BY <2>1, <2>2, <1>a
  <1>2. ASSUME NEW u \in Users, UnlinkFreja(u) PROVE UserInv'
    BY <1>2, <1>b DEF UnlinkFreja, Kept
  <1>3. ASSUME NEW u \in Users, NEW s \in Subs, NEW m \in Mailboxes,
               LinkFreja(u, s, m)
        PROVE  UserInv'
    <2>1. \A t \in Subs : Kept(t) \/ Written(t, u, m)
      BY <1>0, <1>3 DEF LinkFreja, TypeOK, Kept, Written
    <2>2. username'[u] # None
      BY <1>3 DEF LinkFreja, Members
    <2> QED
      BY <2>1, <2>2, <1>a
  <1>4. ASSUME NEW p \in Calls, NEW u \in Users, NEW a \in Address,
               NEW s \in Subs \cup {None}, Join(p, u, a, s)
        PROVE  UserInv'
    <2>0. PICK m \in Mailboxes : m = a.mailbox
      BY <1>0, <1>4, JoinEffect
    <2>1. \A t \in Subs : Kept(t) \/ Written(t, u, m)
      BY <1>4, <2>0 DEF Join, Kept, Written
    <2>2. username'[u] # None
      BY <1>0, <1>4, NoneAssumption DEF Join, TypeOK
    <2> QED
      BY <2>1, <2>2, <1>a
  <1>5. ASSUME NEW p \in Calls, UpsertIdentity(p) PROVE UserInv'
    <2>0. PICK u \in Users, m \in Mailboxes :
            Upserts(p, u) /\ m = call[p].mailbox /\ username[u] # None
      BY <1>5, UpsertEffect DEF Members
    <2>1. \A t \in Subs : Kept(t) \/ Written(t, u, m)
      BY <1>0, <2>0 DEF Upserts, TypeOK, Kept, Written
    <2>2. username'[u] # None
      BY <1>5, <2>0 DEF UpsertIdentity
    <2> QED
      BY <2>1, <2>2, <1>a
  <1>6. ASSUME NEW t \in Subs, NEW s \in Subs, AdoptSubject(t, s) PROVE UserInv'
    <2>1. \A r \in Subs : Kept(r)
      BY <1>0, <1>6 DEF AdoptSubject, TypeOK, Kept
    <2> QED
      BY <2>1, <1>b
  <1>7. ASSUME UNCHANGED identity PROVE UserInv'
    BY <1>7, <1>b DEF Kept
  <1> QED
    BY <1>1, <1>2, <1>3, <1>4, <1>5, <1>6, <1>7
       DEF Next, Crash, SendEmailChange, SetUsername, CallOnEmailChanged, Disconnect,
           InsertToken, RequestEmailChange, ConfirmEmailChange, ExpireToken,
           CallOnUserCreated, ResetFreja

LEMMA ProvenStep ==
  ASSUME IInv, Next
  PROVE  UsernameIsProven'
  <1>0. TypeOK /\ LinkInv /\ UsernameIsProven /\ Grows
    BY GrowsStep DEF IInv
  <1>a. ASSUME NEW u \in Users, username[u] # None, username'[u] = username[u],
               joined'[u] = joined[u]
        PROVE  \/ username'[u].mailbox = joined'[u]
               \/ \E l \in applied' : token'[l].user = u
                                      /\ <<username'[u].mailbox, l>> \in mailed'
    <2>1. CASE username[u].mailbox = joined[u]
      BY <1>a, <2>1
    <2>2. ASSUME NEW l \in applied, token[l].user = u,
                 <<username[u].mailbox, l>> \in mailed
          PROVE  /\ l \in applied' /\ token'[l].user = u
                 /\ <<username'[u].mailbox, l>> \in mailed'
      BY <1>0, <1>a, <2>2 DEF TypeOK, LinkInv, Grows
    <2> QED
      BY <1>0, <1>a, <2>1, <2>2 DEF UsernameIsProven, Members
  <1>1. ASSUME NEW p \in Calls, SetUsername(p) PROVE UsernameIsProven'
    <2>1. CASE UNCHANGED username
      BY <1>0, <1>1, <1>a, <2>1 DEF UsernameIsProven, Members, SetUsername
    <2>2. CASE /\ username' = [username EXCEPT ![call[p].user] = Lower(call[p].mailbox)]
               /\ applied' = applied \cup {call[p].link}
      <3> DEFINE l == call[p].link
      <3>1. /\ call[p].user \in Users /\ call[p].mailbox \in Mailboxes
            /\ token[l].user = call[p].user /\ <<call[p].mailbox, l>> \in mailed
            /\ l \in applied'
        BY <1>1, <2>2, Known, SetUsernameEffect
           DEF SetUsername, At, Confirmed, Confirms, Copies
      <3>2. username'[call[p].user].mailbox = call[p].mailbox
        BY <1>0, <2>2, <3>1, LowerIsAddress DEF TypeOK
      <3>3. UNCHANGED <<token, mailed, joined>>
        BY <1>1 DEF SetUsername
      <3>4. \A u \in Users \ {call[p].user} : username'[u] = username[u]
        BY <1>0, <2>2 DEF TypeOK
      <3> HIDE DEF l
      <3> QED
        BY <1>a, <3>1, <3>2, <3>3, <3>4 DEF UsernameIsProven, Members
    <2> QED
      BY <1>1, <2>1, <2>2, SetUsernameEffect
  <1>2. ASSUME NEW p \in Calls, NEW u \in Users, NEW a \in Address,
               NEW s \in Subs \cup {None}, Join(p, u, a, s)
        PROVE  UsernameIsProven'
    <2>1. username'[u] = a /\ joined'[u] = a.mailbox
      BY <1>0, <1>2 DEF Join, TypeOK
    <2>2. \A v \in Users \ {u} : username'[v] = username[v] /\ joined'[v] = joined[v]
      BY <1>0, <1>2 DEF Join, TypeOK
    <2> QED
      BY <1>a, <2>1, <2>2 DEF UsernameIsProven, Members
  <1>3. ASSUME UNCHANGED <<username, joined>> PROVE UsernameIsProven'
    BY <1>3, <1>a DEF UsernameIsProven, Members
  <1> QED
    BY <1>1, <1>2, <1>3
       DEF Next, Crash, SendEmailChange, SetIdentity, CallOnEmailChanged, Disconnect,
           InsertToken, RequestEmailChange, ConfirmEmailChange, UnlinkFreja, LinkFreja,
           ExpireToken, CallOnUserCreated, ResetFreja, UpsertIdentity, AdoptSubject,
           history

Copying(u) == \E p \in Calls : At(p, "identity") /\ call[p].user = u

\* The address m in a row of u is what IdentityInStep asks for.
InStep(u, m) ==
  \/ m = username[u].mailbox
  \/ <<u, "identity">> \in crossed
  \/ Copying(u)

\* What is in step stays so, as long as it is there.
StaysInStep(u) ==
  \A m \in Mailboxes : username[u] # None /\ InStep(u, m) => InStep(u, m)'

LEMMA IdentityStep ==
  ASSUME IInv, Next
  PROVE  IdentityInStep'
  <1>0. /\ TypeOK /\ UserInv /\ Grows
        /\ \A u \in Users, s \in Subs :
             username[u] # None /\ identity[s].user = u => InStep(u, identity[s].mailbox)
    BY GrowsStep DEF IInv, IdentityInStep, Members, InStep, Copying
  <1>new. ASSUME NEW v \in Users, NEW n \in Mailboxes, InStep(v, n)',
                 \A s \in Subs : Kept(s) \/ Written(s, v, n),
                 \A u \in Users : StaysInStep(u)
          PROVE  IdentityInStep'
    <2>1. ASSUME NEW u \in Users, NEW s \in Subs, identity'[s].user = u
          PROVE  \E m \in Mailboxes : identity'[s].mailbox = m /\ InStep(u, m)'
      <3>1. CASE Written(s, v, n)
        BY <1>new, <2>1, <3>1 DEF Written
      <3>2. CASE Kept(s)
        <4>1. identity'[s] # NoIdentity
          BY <2>1, NoneAssumption DEF NoIdentity
        <4>2. PICK t \in Subs : identity'[s] = identity[t]
          BY <3>2, <4>1 DEF Kept
        <4>3. PICK m \in Mailboxes : identity[t].mailbox = m
          BY <1>0, <4>1, <4>2 DEF UserInv
        <4>4. username[u] # None /\ InStep(u, m)
          BY <1>0, <2>1, <4>1, <4>2, <4>3 DEF UserInv, Members
        <4> QED
          BY <1>new, <4>2, <4>3, <4>4 DEF StaysInStep
      <3> QED
        BY <1>new, <3>1, <3>2
    <2> QED
      BY <2>1 DEF IdentityInStep, Members, InStep, Copying
  <1>old. ASSUME \A s \in Subs : Kept(s), \A u \in Users : StaysInStep(u)
          PROVE  IdentityInStep'
    <2>1. ASSUME NEW u \in Users, NEW s \in Subs, identity'[s].user = u
          PROVE  \E m \in Mailboxes : identity'[s].mailbox = m /\ InStep(u, m)'
      <3>1. identity'[s] # NoIdentity
        BY <2>1, NoneAssumption DEF NoIdentity
      <3>2. PICK t \in Subs : identity'[s] = identity[t]
        BY <1>old, <3>1 DEF Kept
      <3>3. PICK m \in Mailboxes : identity[t].mailbox = m
        BY <1>0, <3>1, <3>2 DEF UserInv
      <3>4. username[u] # None /\ InStep(u, m)
        BY <1>0, <2>1, <3>1, <3>2, <3>3 DEF UserInv, Members
      <3> QED
        BY <1>old, <3>2, <3>3, <3>4 DEF StaysInStep
    <2> QED
      BY <2>1 DEF IdentityInStep, Members, InStep, Copying
  <1>stays. ASSUME NEW u \in Users, username[u] # None => username'[u] = username[u],
                   <<u, "identity">> \in crossed => <<u, "identity">> \in crossed',
                   Copying(u) => Copying(u)' \/ <<u, "identity">> \in crossed'
            PROVE  StaysInStep(u)
    BY <1>stays DEF StaysInStep, InStep
  <1>others. ASSUME NEW p \in Calls, OthersKeep(p), ~At(p, "identity")
             PROVE  \A u \in Users : Copying(u) => Copying(u)'
    BY <1>others DEF OthersKeep, Copying, At
  <1>same. ASSUME UNCHANGED call PROVE \A u \in Users : Copying(u) => Copying(u)'
    BY <1>same DEF Copying, At
  \* A step of a request that has nothing to do with usernames and identities.
  <1>aside. ASSUME NEW p \in Calls, OthersKeep(p), ~At(p, "identity"),
                   UNCHANGED <<username, identity>>, crossed \subseteq crossed'
            PROVE  IdentityInStep'
    BY <1>aside, <1>old, <1>stays, <1>others DEF Kept
  <1>1. ASSUME Crash PROVE IdentityInStep'
    <2>1. \A u \in Users : Copying(u) => <<u, "identity">> \in crossed'
      BY <1>1 DEF Crash, Copying
    <2>2. UNCHANGED <<username, identity>> /\ crossed \subseteq crossed'
      BY <1>1 DEF Crash
    <2> QED
      BY <1>old, <1>stays, <2>1, <2>2 DEF Kept
  <1>2. ASSUME NEW p \in Calls, SendEmailChange(p) PROVE IdentityInStep'
    BY <1>0, <1>2, <1>aside, ReturnEffect DEF SendEmailChange, At, history
  <1>3. ASSUME NEW p \in Calls, SetUsername(p) PROVE IdentityInStep'
    <2>0. PICK u \in Users : call[p].user = u
      BY <1>3, Known DEF SetUsername, Serves, At, Members
    <2>1. UNCHANGED identity /\ ~At(p, "identity")
      BY <1>3 DEF SetUsername, At
    <2>2. CASE Return(p) /\ UNCHANGED <<username, applied, stale, crossed>>
      BY <1>0, <2>1, <2>2, <1>aside, ReturnEffect
    <2>3. CASE /\ Goto(p, "identity")
               /\ username' = [username EXCEPT ![u] = Lower(call[p].mailbox)]
               /\ \A v \in Users \ {u}, f \in {"identity", "told"} :
                    <<v, f>> \in crossed' <=> <<v, f>> \in crossed
      <3>1. OthersKeep(p) /\ call'[p].pc = "identity" /\ call'[p].user = u
        BY <1>0, <2>0, <2>3, GotoEffect
      <3>2. StaysInStep(u)
        BY <3>1 DEF StaysInStep, InStep, Copying, At
      <3>3. ASSUME NEW v \in Users \ {u} PROVE StaysInStep(v)
        <4>1. username'[v] = username[v]
          BY <1>0, <2>3 DEF TypeOK
        <4>2. Copying(v) => Copying(v)'
          BY <1>others, <2>1, <3>1
        <4>3. <<v, "identity">> \in crossed => <<v, "identity">> \in crossed'
          BY <2>3
        <4> QED
          BY <4>1, <4>2, <4>3, <1>stays
      <3> QED
        BY <1>old, <2>1, <3>2, <3>3 DEF Kept
    <2> QED
      BY <1>3, <2>0, <2>2, <2>3, SetUsernameEffect
  <1>4. ASSUME NEW p \in Calls, SetIdentity(p) PROVE IdentityInStep'
    <2>0. PICK u \in Users, m \in Mailboxes :
            call[p].user = u /\ call[p].mailbox = m
      BY <1>4, Known DEF SetIdentity, Serves, At, Members
    <2>1. /\ OthersKeep(p) /\ call'[p].pc = "hook" /\ call[p].pc = "identity"
      BY <1>0, <1>4, GotoEffect DEF SetIdentity, At
    <2>2. UNCHANGED <<username, crossed>> /\ identity' = WithAddress(u, m)
      BY <1>4, <2>0 DEF SetIdentity, history
    <2>3. InStep(u, m)'
      <3>1. username[u].mailbox = m \/ <<u, "identity">> \in crossed
        BY <2>0, <2>1, Known DEF Latest, At
      <3> QED
        BY <2>2, <3>1 DEF InStep
    <2>4. ASSUME NEW v \in Users \ {u} PROVE StaysInStep(v)
      <3>1. Copying(v) => Copying(v)'
        BY <2>0, <2>1 DEF OthersKeep, Copying, At
      <3> QED
        BY <2>2, <3>1, <1>stays
    <2>5. ASSUME NEW v \in Users, NEW s \in Subs, username'[v] # None,
                 identity'[s].user = v
          PROVE  \E n \in Mailboxes : identity'[s].mailbox = n /\ InStep(v, n)'
      <3>1. CASE identity[s].user = u
        <4>1. identity'[s] = [user |-> u, mailbox |-> m]
          BY <2>2, <3>1 DEF WithAddress
        <4> QED
          BY <2>3, <2>5, <4>1
      <3>2. CASE identity[s].user # u
        <4>1. identity'[s] = identity[s] /\ v \in Users \ {u}
          BY <2>2, <2>5, <3>2 DEF WithAddress
        <4>2. identity[s] # NoIdentity
          BY <2>5, <4>1, NoneAssumption DEF NoIdentity
        <4>3. PICK n \in Mailboxes : identity[s].mailbox = n
          BY <1>0, <4>2 DEF UserInv
        <4>4. username[v] # None /\ InStep(v, n)
          BY <1>0, <2>2, <2>5, <4>1, <4>3
        <4> QED
          BY <2>4, <4>1, <4>3, <4>4 DEF StaysInStep
      <3> QED
        BY <3>1, <3>2
    <2> QED
      BY <2>5 DEF IdentityInStep, Members, InStep, Copying
  <1>5. ASSUME NEW p \in Calls, CallOnEmailChanged(p) PROVE IdentityInStep'
    BY <1>0, <1>5, <1>aside, ReturnEffect DEF CallOnEmailChanged, At, history
  <1>6. ASSUME NEW p \in Calls, Disconnect(p) PROVE IdentityInStep'
    <2>1. UNCHANGED <<username, identity>> /\ crossed \subseteq crossed'
      BY <1>6 DEF Disconnect
    <2>2. CASE call[p].pc \in {"insert", "username", "upsert"} /\ Return(p)
      BY <1>0, <2>1, <2>2, <1>aside, ReturnEffect DEF At
    <2>3. CASE /\ At(p, "identity") /\ Goto(p, "hook")
               /\ <<call[p].user, "identity">> \in crossed'
      <3>1. OthersKeep(p)
        BY <1>0, <2>3, GotoEffect
      <3>2. \A u \in Users : Copying(u) => Copying(u)' \/ <<u, "identity">> \in crossed'
        BY <2>3, <3>1 DEF OthersKeep, Copying, At
      <3> QED
        BY <1>old, <1>stays, <2>1, <3>2 DEF Kept
    <2> QED
      BY <1>6, <2>2, <2>3 DEF Disconnect
  <1>7. ASSUME NEW p \in Calls, NEW l \in Links, InsertToken(p, l) PROVE IdentityInStep'
    BY <1>0, <1>7, <1>aside, InsertEffect DEF InsertToken, At, history
  <1>8. ASSUME NEW p \in Calls, NEW u \in Users, NEW m \in Mailboxes,
               RequestEmailChange(p, u, m)
        PROVE  IdentityInStep'
    BY <1>0, <1>8, <1>aside, RequestEffect DEF RequestEmailChange, At, history
  <1>9. ASSUME NEW p \in Calls, NEW m \in Mailboxes, NEW l \in Links,
               ConfirmEmailChange(p, m, l)
        PROVE  IdentityInStep'
    BY <1>0, <1>9, <1>aside, ConfirmEffect DEF ConfirmEmailChange, At, history
  <1>10. ASSUME NEW u \in Users, UnlinkFreja(u) PROVE IdentityInStep'
    <2>1. \A s \in Subs : Kept(s)
      BY <1>10 DEF UnlinkFreja, Kept
    <2>2. UNCHANGED <<username, call, crossed>>
      BY <1>10 DEF UnlinkFreja, history
    <2> QED
      BY <2>1, <2>2, <1>old, <1>stays, <1>same
  <1>11. ASSUME NEW p \in Calls, NEW u \in Users, NEW a \in Address,
                NEW s \in Subs \cup {None}, Join(p, u, a, s)
         PROVE  IdentityInStep'
    <2>0. PICK m \in Mailboxes : m = a.mailbox
      BY <1>0, <1>11, JoinEffect
    <2>1. \A t \in Subs : Kept(t) \/ Written(t, u, m)
      BY <1>11, <2>0 DEF Join, Kept, Written
    <2>2. /\ username'[u] = a /\ UNCHANGED crossed /\ ~At(p, "identity")
          /\ \A v \in Users : username[v] # None => username'[v] = username[v]
      BY <1>0, <1>11 DEF Join, TypeOK, At
    <2>3. InStep(u, m)'
      BY <2>0, <2>2 DEF InStep
    <2>4. OthersKeep(p)
      BY <1>0, <1>11, JoinEffect
    <2> QED
      BY <2>1, <2>2, <2>3, <2>4, <1>new, <1>stays, <1>others
  <1>12. ASSUME NEW u \in Users, NEW s \in Subs, NEW m \in Mailboxes,
                LinkFreja(u, s, m)
         PROVE  IdentityInStep'
    <2>1. \A t \in Subs : Kept(t) \/ Written(t, u, m)
      BY <1>0, <1>12 DEF LinkFreja, TypeOK, Kept, Written
    <2>2. /\ UNCHANGED <<username, call>> /\ crossed \subseteq crossed'
          /\ m = username[u].mailbox \/ <<u, "identity">> \in crossed'
      BY <1>12 DEF LinkFreja
    <2>3. InStep(u, m)'
      BY <2>2 DEF InStep
    <2> QED
      BY <2>1, <2>2, <2>3, <1>new, <1>stays, <1>same
  <1>13. ASSUME NEW l \in Links, ExpireToken(l) PROVE IdentityInStep'
    BY <1>13, <1>old, <1>stays, <1>same DEF ExpireToken, Kept, history
  <1>14. ASSUME NEW p \in Calls, CallOnUserCreated(p) PROVE IdentityInStep'
    BY <1>0, <1>14, <1>aside, ReturnEffect DEF CallOnUserCreated, At, history
  <1>15. ASSUME NEW p \in Calls, NEW u \in Users, NEW s \in Subs, ResetFreja(p, u, s)
         PROVE  IdentityInStep'
    BY <1>0, <1>15, <1>aside, ResetEffect DEF ResetFreja, At, history
  <1>16. ASSUME NEW p \in Calls, UpsertIdentity(p) PROVE IdentityInStep'
    <2>0. PICK u \in Users, m \in Mailboxes : Upserts(p, u) /\ m = call[p].mailbox
      BY <1>16, UpsertEffect DEF Members
    <2>1. \A t \in Subs : Kept(t) \/ Written(t, u, m)
      BY <1>0, <2>0 DEF Upserts, TypeOK, Kept, Written
    <2>2. /\ UNCHANGED username /\ crossed \subseteq crossed' /\ OthersKeep(p)
          /\ At(p, "upsert") /\ ~At(p, "identity")
      BY <1>0, <1>16, ReturnEffect DEF UpsertIdentity, At
    <2>3. username[u].mailbox = m \/ <<u, "identity">> \in crossed'
      BY <2>0, <2>2, Known DEF Upserts, Latest
    <2>4. InStep(u, m)'
      BY <2>2, <2>3 DEF InStep
    <2> QED
      BY <2>1, <2>2, <2>4, <1>new, <1>stays, <1>others
  <1>17. ASSUME NEW t \in Subs, NEW s \in Subs, AdoptSubject(t, s) PROVE IdentityInStep'
    <2>1. \A r \in Subs : Kept(r)
      BY <1>0, <1>17 DEF AdoptSubject, TypeOK, Kept
    <2>2. UNCHANGED <<username, call, crossed>>
      BY <1>17 DEF AdoptSubject, history
    <2> QED
      BY <2>1, <2>2, <1>old, <1>stays, <1>same
  <1> QED
    BY <1>1, <1>2, <1>3, <1>4, <1>5, <1>6, <1>7, <1>8, <1>9, <1>10, <1>11, <1>12,
       <1>13, <1>14, <1>15, <1>16, <1>17 DEF Next

Tells(pc) == pc \in {"notify", "identity", "hook"}

Telling(u) == \E p \in Calls : Tells(call[p].pc) /\ call[p].user = u

HasAddress(u) ==
  \/ told[u] = username[u].mailbox
  \/ <<u, "told">> \in crossed
  \/ Telling(u)

LEMMA HostStep ==
  ASSUME IInv, Next
  PROVE  HostHasAddress'
  <1>0. TypeOK /\ \A u \in Users : username[u] # None => HasAddress(u)
    BY DEF IInv, HostHasAddress, Members, HasAddress, Telling, Tells
  <1>goal. ASSUME \A u \in Users : username'[u] # None => HasAddress(u)'
           PROVE  HostHasAddress'
    BY <1>goal DEF HostHasAddress, Members, HasAddress, Telling, Tells
  <1>stays. ASSUME NEW u \in Users, username'[u] # None, username'[u] = username[u],
                   told'[u] = told[u],
                   <<u, "told">> \in crossed => <<u, "told">> \in crossed',
                   Telling(u) => Telling(u)' \/ <<u, "told">> \in crossed'
            PROVE  HasAddress(u)'
    BY <1>0, <1>stays DEF HasAddress
  <1>others. ASSUME NEW p \in Calls, OthersKeep(p), ~Tells(call[p].pc)
             PROVE  \A u \in Users : Telling(u) => Telling(u)'
    BY <1>others DEF OthersKeep, Telling
  \* A step of a request that tells the host nothing.
  <1>aside. ASSUME NEW p \in Calls, OthersKeep(p), ~Tells(call[p].pc),
                   UNCHANGED <<username, told>>, crossed \subseteq crossed'
            PROVE  HostHasAddress'
    BY <1>aside, <1>goal, <1>stays, <1>others
  <1>free. ASSUME UNCHANGED <<username, told, call>>, crossed \subseteq crossed'
           PROVE  HostHasAddress'
    <2>1. \A u \in Users : Telling(u) => Telling(u)'
      BY <1>free DEF Telling
    <2> QED
      BY <1>free, <1>goal, <1>stays, <2>1
  \* A hook that gives the host the address its request holds.
  <1>hook. ASSUME NEW p \in Calls, Return(p), Tells(call[p].pc), ~At(p, "idle"),
                  UNCHANGED <<username, crossed>>,
                  told' = [told EXCEPT ![call[p].user] = call[p].mailbox]
           PROVE  HostHasAddress'
    <2>0. PICK u \in Users : call[p].user = u
      BY <1>hook, Known DEF Serves, Members
    <2>1. OthersKeep(p)
      BY <1>0, <1>hook, ReturnEffect
    <2>2. HasAddress(u)'
      <3>1. told'[u] = call[p].mailbox
        BY <1>0, <1>hook, <2>0 DEF TypeOK
      <3>2. username[u].mailbox = call[p].mailbox \/ <<u, "told">> \in crossed
        BY <1>hook, <2>0, Known DEF Latest, Tells
      <3> QED
        BY <1>hook, <3>1, <3>2 DEF HasAddress
    <2>3. ASSUME NEW v \in Users \ {u}, username'[v] # None
          PROVE  HasAddress(v)'
      <3>1. Telling(v) => Telling(v)'
        BY <2>0, <2>1 DEF OthersKeep, Telling
      <3>2. told'[v] = told[v]
        BY <1>0, <1>hook, <2>0 DEF TypeOK
      <3> QED
        BY <1>hook, <1>stays, <2>3, <3>1, <3>2
    <2> QED
      BY <1>goal, <2>2, <2>3
  <1>1. ASSUME Crash PROVE HostHasAddress'
    <2>1. \A u \in Users : Telling(u) => <<u, "told">> \in crossed'
      BY <1>1 DEF Crash, Telling, Tells
    <2>2. UNCHANGED <<username, told>> /\ crossed \subseteq crossed'
      BY <1>1 DEF Crash
    <2> QED
      BY <1>goal, <1>stays, <2>1, <2>2
  <1>2. ASSUME NEW p \in Calls, SendEmailChange(p) PROVE HostHasAddress'
    BY <1>0, <1>2, <1>aside, ReturnEffect DEF SendEmailChange, At, Tells, history
  <1>3. ASSUME NEW p \in Calls, SetUsername(p) PROVE HostHasAddress'
    <2>0. PICK u \in Users : call[p].user = u
      BY <1>3, Known DEF SetUsername, Serves, At, Members
    <2>1. UNCHANGED told /\ ~Tells(call[p].pc)
      BY <1>3 DEF SetUsername, At, Tells
    <2>2. CASE Return(p) /\ UNCHANGED <<username, applied, stale, crossed>>
      BY <1>0, <2>1, <2>2, <1>aside, ReturnEffect
    <2>3. CASE /\ Goto(p, "identity")
               /\ username' = [username EXCEPT ![u] = Lower(call[p].mailbox)]
               /\ \A v \in Users \ {u}, f \in {"identity", "told"} :
                    <<v, f>> \in crossed' <=> <<v, f>> \in crossed
      <3>1. OthersKeep(p) /\ call'[p].pc = "identity" /\ call'[p].user = u
        BY <1>0, <2>0, <2>3, GotoEffect
      <3>2. HasAddress(u)'
        BY <3>1 DEF HasAddress, Telling, Tells
      <3>3. ASSUME NEW v \in Users \ {u}, username'[v] # None
            PROVE  HasAddress(v)'
        <4>1. username'[v] = username[v]
          BY <1>0, <2>3 DEF TypeOK
        <4>2. Telling(v) => Telling(v)'
          BY <1>others, <2>1, <3>1
        <4>3. <<v, "told">> \in crossed => <<v, "told">> \in crossed'
          BY <2>3
        <4> QED
          BY <2>1, <3>3, <4>1, <4>2, <4>3, <1>stays
      <3> QED
        BY <1>goal, <3>2, <3>3
    <2> QED
      BY <1>3, <2>0, <2>2, <2>3, SetUsernameEffect
  <1>4. ASSUME NEW p \in Calls, SetIdentity(p) PROVE HostHasAddress'
    <2>0. PICK u \in Users : call[p].user = u
      BY <1>4, Known DEF SetIdentity, Serves, At, Members
    <2>1. /\ OthersKeep(p) /\ call'[p].pc = "hook" /\ call'[p].user = u
          /\ UNCHANGED <<username, told, crossed>>
      BY <1>0, <1>4, <2>0, GotoEffect DEF SetIdentity, At, history
    <2>2. \A v \in Users : Telling(v) => Telling(v)'
      BY <2>0, <2>1 DEF OthersKeep, Telling, Tells
    <2> QED
      BY <1>goal, <1>stays, <2>1, <2>2
  <1>5. ASSUME NEW p \in Calls, CallOnEmailChanged(p) PROVE HostHasAddress'
    BY <1>5, <1>hook DEF CallOnEmailChanged, At, Tells, history
  <1>6. ASSUME NEW p \in Calls, Disconnect(p) PROVE HostHasAddress'
    <2>1. UNCHANGED <<username, told>> /\ crossed \subseteq crossed'
      BY <1>6 DEF Disconnect
    <2>2. CASE call[p].pc \in {"insert", "username", "upsert"} /\ Return(p)
      BY <1>0, <2>1, <2>2, <1>aside, ReturnEffect DEF Tells
    <2>3. CASE At(p, "identity") /\ Goto(p, "hook")
      <3>1. OthersKeep(p) /\ call'[p].pc = "hook" /\ call'[p].user = call[p].user
        BY <1>0, <2>3, GotoEffect
      <3>2. \A u \in Users : Telling(u) => Telling(u)'
        BY <2>3, <3>1 DEF OthersKeep, Telling, Tells
      <3> QED
        BY <1>goal, <1>stays, <2>1, <3>2
    <2> QED
      BY <1>6, <2>2, <2>3 DEF Disconnect
  <1>7. ASSUME NEW p \in Calls, NEW l \in Links, InsertToken(p, l) PROVE HostHasAddress'
    BY <1>0, <1>7, <1>aside, InsertEffect DEF InsertToken, At, Tells, history
  <1>8. ASSUME NEW p \in Calls, NEW u \in Users, NEW m \in Mailboxes,
               RequestEmailChange(p, u, m)
        PROVE  HostHasAddress'
    BY <1>0, <1>8, <1>aside, RequestEffect DEF RequestEmailChange, At, Tells, history
  <1>9. ASSUME NEW p \in Calls, NEW m \in Mailboxes, NEW l \in Links,
               ConfirmEmailChange(p, m, l)
        PROVE  HostHasAddress'
    BY <1>0, <1>9, <1>aside, ConfirmEffect DEF ConfirmEmailChange, At, Tells, history
  <1>10. ASSUME NEW u \in Users, UnlinkFreja(u) PROVE HostHasAddress'
    BY <1>10, <1>free DEF UnlinkFreja, history
  <1>11. ASSUME NEW p \in Calls, NEW u \in Users, NEW a \in Address,
                NEW s \in Subs \cup {None}, Join(p, u, a, s)
         PROVE  HostHasAddress'
    <2>1. OthersKeep(p) /\ call'[p].pc = "notify" /\ call'[p].user = u
      BY <1>0, <1>11, JoinEffect
    <2>2. /\ ~Tells(call[p].pc) /\ UNCHANGED <<told, crossed>>
          /\ \A v \in Users \ {u} : username'[v] = username[v]
      BY <1>0, <1>11 DEF Join, TypeOK, At, Tells
    <2>3. HasAddress(u)'
      BY <2>1 DEF HasAddress, Telling, Tells
    <2>4. ASSUME NEW v \in Users \ {u}, username'[v] # None PROVE HasAddress(v)'
      BY <2>1, <2>2, <2>4, <1>stays, <1>others
    <2> QED
      BY <1>goal, <2>3, <2>4
  <1>12. ASSUME NEW u \in Users, NEW s \in Subs, NEW m \in Mailboxes,
                LinkFreja(u, s, m)
         PROVE  HostHasAddress'
    BY <1>12, <1>free DEF LinkFreja
  <1>13. ASSUME NEW l \in Links, ExpireToken(l) PROVE HostHasAddress'
    BY <1>13, <1>free DEF ExpireToken, history
  <1>14. ASSUME NEW p \in Calls, CallOnUserCreated(p) PROVE HostHasAddress'
    BY <1>14, <1>hook DEF CallOnUserCreated, At, Tells, history
  <1>15. ASSUME NEW p \in Calls, NEW u \in Users, NEW s \in Subs, ResetFreja(p, u, s)
         PROVE  HostHasAddress'
    BY <1>0, <1>15, <1>aside, ResetEffect DEF ResetFreja, At, Tells, history
  <1>16. ASSUME NEW p \in Calls, UpsertIdentity(p) PROVE HostHasAddress'
    BY <1>0, <1>16, <1>aside, ReturnEffect DEF UpsertIdentity, At, Tells
  <1>17. ASSUME NEW t \in Subs, NEW s \in Subs, AdoptSubject(t, s) PROVE HostHasAddress'
    BY <1>17, <1>free DEF AdoptSubject, history
  <1> QED
    BY <1>1, <1>2, <1>3, <1>4, <1>5, <1>6, <1>7, <1>8, <1>9, <1>10, <1>11, <1>12,
       <1>13, <1>14, <1>15, <1>16, <1>17 DEF Next

-----------------------------------------------------------------------------
(* The theorems. *)

LEMMA InvInit == Init => IInv
  BY NoneAssumption, NoCallIdle
     DEF Init, IInv, TypeOK, LinkInv, CallInv, OneRedeems, UserInv, UsernameIsProven,
         IdentityInStep, HostHasAddress, Members, NoToken, Token, Serves, Mails,
         Confirmed, Confirms, Latest, At, Identity, NoIdentity

LEMMA InvStep == IInv /\ [Next]_vars => IInv'
  <1> SUFFICES ASSUME IInv, [Next]_vars PROVE IInv'
    OBVIOUS
  <1>1. CASE Next
    BY <1>1, TypeStep, LinkStep, CallStep, RedeemStep, UserStep, ProvenStep,
       IdentityStep, HostStep
       DEF IInv
  <1>2. CASE UNCHANGED vars
    <2>1. /\ UNCHANGED <<username, identity, token, mailed, told, call>>
          /\ UNCHANGED <<joined, applied, stale, crossed>>
      BY <1>2 DEF vars, history
    <2>2. TypeOK' /\ LinkInv' /\ UserInv' /\ UsernameIsProven'
      BY <2>1 DEF IInv, TypeOK, LinkInv, UserInv, UsernameIsProven, Members
    <2>3. CallInv' /\ OneRedeems'
      BY <2>1 DEF IInv, CallInv, OneRedeems, Members, Serves, Mails, Copies, Confirmed,
         Confirms, Latest, At
    <2>4. IdentityInStep' /\ HostHasAddress'
      BY <2>1 DEF IInv, IdentityInStep, HostHasAddress, Members, At
    <2> QED
      BY <2>2, <2>3, <2>4 DEF IInv
  <1> QED
    BY <1>1, <1>2

\* The invariant holds in every reachable state.
THEOREM Invariant == Spec => []IInv
  BY InvInit, InvStep, PTL DEF Spec

\* Every variable keeps its type: a request being served always has a user and
\* an address, and no column gets another kind of value.
THEOREM TypeCorrect == Spec => []TypeOK
  BY Invariant, PTL DEF IInv

\* A username is the address of the registration or one at which a link its user
\* asked for was followed (requestEmailChange, confirmEmailChange).
THEOREM UsernamesAreProven == Spec => []UsernameIsProven
  BY Invariant, PTL DEF IInv

\* provider_email follows its owner's username (confirmEmailChange's second UPDATE,
\* beside every writer of user_identities) but for the events the property names.
THEOREM IdentitiesFollow == Spec => []IdentityInStep
  BY Invariant, PTL DEF IInv

\* The host application knows the username but for crossings and cuts, and those
\* of an approval that has committed and not yet called OnUserCreated are included.
THEOREM HostIsTold == Spec => []HostHasAddress
  BY Invariant, PTL DEF IInv

-----------------------------------------------------------------------------
(* The refinement of OneTimeLink. *)

Redeeming(l) == \E p \in Calls : At(p, "username") /\ call[p].link = l

Same(l) == LinkState(l)' = LinkState(l)

\* A link that is open or unused has been applied by nobody and is in nobody's hands.
LEMMA LinkStates ==
  ASSUME IInv, NEW l \in Links
  PROVE  /\ token[l].state # "gone" => ~Redeeming(l) /\ l \notin applied
         /\ Redeeming(l) => l \notin applied
         /\ LinkState(l) = IF token[l].state # "gone" THEN token[l].state
                           ELSE IF l \in applied THEN "applied"
                           ELSE IF Redeeming(l) THEN "redeemed" ELSE "void"
         /\ LinkState(l)' = IF token'[l].state # "gone" THEN token'[l].state
                            ELSE IF l \in applied' THEN "applied"
                            ELSE IF Redeeming(l)' THEN "redeemed" ELSE "void"
  <1>1. \A p \in Calls : At(p, "username") =>
          token[call[p].link].state = "gone" /\ call[p].link \notin applied
    BY Known DEF Confirmed, Confirms, At
  <1>2. l \in applied => token[l].state = "gone"
    BY DEF IInv, LinkInv
  <1> QED
    BY <1>1, <1>2 DEF Redeeming, LinkState

\* Steps that leave a link where it is.
LEMMA LinkStays ==
  ASSUME IInv, NEW l \in Links, token'[l].state = token[l].state,
         l \in applied' <=> l \in applied, Redeeming(l)' <=> Redeeming(l)
  PROVE  Same(l)
  BY LinkStates DEF Same

LEMMA MoveLink ==
  ASSUME NEW l \in Links, NEW from, NEW to,
         LinkState(l) = from, LinkState(l)' = to, \A k \in Links \ {l} : Same(k)
  PROVE  OneTime!Become(l, from, to)
  BY DEF OneTime!Become, Same

LEMMA StayLinks ==
  ASSUME \A l \in Links : Same(l)
  PROVE  UNCHANGED [l \in Links |-> LinkState(l)]
  BY DEF Same

\* What is in requests' hands is given up.
LEMMA GiveUpLinks ==
  ASSUME NEW S \in SUBSET Links,
         \A l \in S : LinkState(l) = "redeemed" /\ LinkState(l)' = "void",
         \A l \in Links \ S : Same(l)
  PROVE  OneTime!GiveUp
  <1> DEFINE f == [l \in Links |-> LinkState(l)]
  <1>1. S \in SUBSET {l \in Links : f[l] = "redeemed"}
    OBVIOUS
  <1>2. [l \in Links |-> LinkState(l)'] = [l \in Links |-> IF l \in S THEN "void" ELSE f[l]]
    BY DEF Same
  <1> QED
    BY <1>1, <1>2 DEF OneTime!GiveUp

LEMMA OneTimeStep ==
  ASSUME IInv, Next
  PROVE  OneTime!Next \/ UNCHANGED [l \in Links |-> LinkState(l)]
  <1>0. TypeOK /\ OneRedeems
    BY DEF IInv
  <1>a. ASSUME UNCHANGED <<token, applied>>,
               \A l \in Links : Redeeming(l)' <=> Redeeming(l)
        PROVE  UNCHANGED [l \in Links |-> LinkState(l)]
    BY <1>a, LinkStays, StayLinks
  <1>b. ASSUME NEW p \in Calls, OthersKeep(p), ~At(p, "username"), call'[p].pc # "username"
        PROVE  \A l \in Links : Redeeming(l)' <=> Redeeming(l)
    BY <1>b DEF OthersKeep, Redeeming, At
  <1>c. ASSUME UNCHANGED call PROVE \A l \in Links : Redeeming(l)' <=> Redeeming(l)
    BY <1>c DEF Redeeming, At
  \* A request that lets its link go, applied or not.
  <1>d. ASSUME NEW p \in Calls, At(p, "username"), OthersKeep(p), call'[p].pc # "username"
        PROVE  /\ call[p].link \in Links /\ token[call[p].link].state = "gone"
               /\ LinkState(call[p].link) = "redeemed"
               /\ \A l \in Links \ {call[p].link} : Redeeming(l)' <=> Redeeming(l)
               /\ \A l \in Links : l = call[p].link => ~Redeeming(l)'
    <2>1. call[p].link \in Links /\ token[call[p].link].state = "gone"
      BY <1>d, Known DEF At, Confirmed, Confirms, Copies
    <2>2. Redeeming(call[p].link)
      BY <1>d DEF Redeeming
    <2>3. LinkState(call[p].link) = "redeemed"
      BY <2>1, <2>2, LinkStates
    <2>4. \A q \in Calls \ {p} : At(q, "username") => call[q].link # call[p].link
      BY <1>0, <1>d DEF OneRedeems
    <2> QED
      BY <1>d, <2>1, <2>3, <2>4 DEF OthersKeep, Redeeming, At
  <1>e. ASSUME NEW p \in Calls, At(p, "username"), OthersKeep(p), call'[p].pc # "username",
               UNCHANGED <<token, applied>>
        PROVE  OneTime!Next
    <2>0. PICK l \in Links : call[p].link = l
      BY <1>d, <1>e
    <2>1. LinkState(l) = "redeemed" /\ ~Redeeming(l)' /\ token[l].state = "gone"
      BY <1>d, <1>e, <2>0
    <2>2. \A k \in Links \ {l} : Same(k)
      BY <1>d, <1>e, <2>0, LinkStays
    <2>3. LinkState(l)' = "void"
      BY <1>e, <2>0, <2>1, LinkStates, Known DEF Confirmed, Confirms, At
    <2>4. OneTime!GiveUp
      <3> DEFINE S == {l}
      <3>1. /\ S \in SUBSET Links
            /\ \A k \in S : LinkState(k) = "redeemed" /\ LinkState(k)' = "void"
            /\ \A k \in Links \ S : Same(k)
        BY <2>1, <2>2, <2>3
      <3> HIDE DEF S
      <3> QED
        BY <3>1, GiveUpLinks
    <2> QED
      BY <2>4 DEF OneTime!Next
  <1>1. ASSUME Crash PROVE OneTime!Next
    <2> DEFINE S == {l \in Links : Redeeming(l)}
    <2>1. UNCHANGED <<token, applied>> /\ \A l \in Links : ~Redeeming(l)'
      BY <1>1, NoCallIdle DEF Crash, Redeeming, At
    <2>2. \A l \in S : LinkState(l) = "redeemed" /\ LinkState(l)' = "void"
      BY <2>1, LinkStates
    <2>3. \A l \in Links \ S : Same(l)
      BY <2>1, LinkStays
    <2>4. S \in SUBSET Links
      OBVIOUS
    <2> HIDE DEF S
    <2> QED
      BY <2>2, <2>3, <2>4, GiveUpLinks DEF OneTime!Next
  <1>2. ASSUME NEW p \in Calls, SendEmailChange(p)
        PROVE  UNCHANGED [l \in Links |-> LinkState(l)]
    BY <1>0, <1>2, <1>a, <1>b, ReturnEffect DEF SendEmailChange, history, At
  <1>3. ASSUME NEW p \in Calls, SetUsername(p) PROVE OneTime!Next
    <2>1. At(p, "username") /\ UNCHANGED token
      BY <1>3 DEF SetUsername
    <2>2. CASE Return(p) /\ UNCHANGED <<username, applied, stale, crossed>>
      BY <1>0, <1>e, <2>1, <2>2, ReturnEffect
    <2>3. CASE Goto(p, "identity") /\ applied' = applied \cup {call[p].link}
      <3>1. OthersKeep(p) /\ call'[p].pc # "username"
        BY <1>0, <2>3, GotoEffect
      <3>2. PICK l \in Links : call[p].link = l
        BY <1>d, <2>1, <3>1
      <3>3. LinkState(l) = "redeemed" /\ token[l].state = "gone"
        BY <1>d, <2>1, <3>1, <3>2
      <3>4. \A k \in Links \ {l} : Same(k)
        BY <1>d, <2>1, <2>3, <3>1, <3>2, LinkStays
      <3>5. LinkState(l)' = "applied"
        BY <2>1, <2>3, <3>2, <3>3, LinkStates
      <3> QED
        BY <3>3, <3>4, <3>5, MoveLink DEF OneTime!Next, OneTime!Apply
    <2> QED
      BY <1>3, <2>2, <2>3, SetUsernameEffect
  <1>4. ASSUME NEW p \in Calls, SetIdentity(p)
        PROVE  UNCHANGED [l \in Links |-> LinkState(l)]
    BY <1>0, <1>4, <1>a, <1>b, GotoEffect DEF SetIdentity, history, At
  <1>5. ASSUME NEW p \in Calls, CallOnEmailChanged(p)
        PROVE  UNCHANGED [l \in Links |-> LinkState(l)]
    BY <1>0, <1>5, <1>a, <1>b, ReturnEffect DEF CallOnEmailChanged, history, At
  <1>6. ASSUME NEW p \in Calls, Disconnect(p)
        PROVE  OneTime!Next \/ UNCHANGED [l \in Links |-> LinkState(l)]
    <2>1. UNCHANGED <<token, applied>>
      BY <1>6 DEF Disconnect
    <2>2. OthersKeep(p) /\ call'[p].pc # "username"
      BY <1>0, <1>6, ReturnEffect, GotoEffect DEF Disconnect
    <2> QED
      BY <1>a, <1>b, <1>e, <2>1, <2>2
  <1>7. ASSUME NEW p \in Calls, NEW l \in Links, InsertToken(p, l) PROVE OneTime!Next
    <2>1. OthersKeep(p) /\ ~At(p, "username") /\ call'[p].pc # "username"
      BY <1>0, <1>7, InsertEffect DEF InsertToken, At
    <2>2. /\ token[l].state = "unused" /\ token'[l].state = "open"
          /\ \A k \in Links \ {l} : token'[k] = token[k]
          /\ UNCHANGED applied
      BY <1>0, <1>7 DEF InsertToken, TypeOK, history
    <2>3. LinkState(l) = "unused" /\ LinkState(l)' = "open"
      BY <2>2, LinkStates
    <2>4. \A k \in Links \ {l} : Same(k)
      BY <1>b, <2>1, <2>2, LinkStays
    <2> QED
      BY <2>3, <2>4, MoveLink DEF OneTime!Next, OneTime!Issue
  <1>8. ASSUME NEW p \in Calls, NEW u \in Users, NEW m \in Mailboxes,
               RequestEmailChange(p, u, m)
        PROVE  UNCHANGED [l \in Links |-> LinkState(l)]
    BY <1>0, <1>8, <1>a, <1>b, RequestEffect DEF RequestEmailChange, history, At
  <1>9. ASSUME NEW p \in Calls, NEW m \in Mailboxes, NEW l \in Links,
               ConfirmEmailChange(p, m, l)
        PROVE  OneTime!Next
    <2>1. /\ OthersKeep(p) /\ call[p].pc # "username"
          /\ call'[p].pc = "username" /\ call'[p].link = l
      BY <1>0, <1>9, ConfirmEffect DEF ConfirmEmailChange, At
    <2>2. /\ token[l].state = "open" /\ token'[l].state = "gone"
          /\ \A k \in Links \ {l} : token'[k] = token[k]
          /\ UNCHANGED applied
      BY <1>0, <1>9 DEF ConfirmEmailChange, TypeOK, Token, history
    <2>3. Redeeming(l)' /\ \A k \in Links \ {l} : Redeeming(k)' <=> Redeeming(k)
      BY <2>1 DEF OthersKeep, Redeeming, At
    <2>4. LinkState(l) = "open" /\ LinkState(l)' = "redeemed"
      BY <2>2, <2>3, LinkStates
    <2>5. \A k \in Links \ {l} : Same(k)
      BY <2>2, <2>3, LinkStays
    <2> QED
      BY <2>4, <2>5, MoveLink DEF OneTime!Next, OneTime!Redeem
  <1>10. ASSUME NEW u \in Users, UnlinkFreja(u)
         PROVE  UNCHANGED [l \in Links |-> LinkState(l)]
    BY <1>10, <1>a, <1>c DEF UnlinkFreja, history
  <1>11. ASSUME NEW p \in Calls, NEW u \in Users, NEW a \in Address,
                NEW s \in Subs \cup {None}, Join(p, u, a, s)
         PROVE  UNCHANGED [l \in Links |-> LinkState(l)]
    <2>1. OthersKeep(p) /\ call'[p].pc # "username"
      BY <1>0, <1>11, JoinEffect
    <2>2. ~At(p, "username") /\ UNCHANGED <<token, applied>>
      BY <1>11 DEF Join, At
    <2> QED
      BY <2>1, <2>2, <1>a, <1>b
  <1>12. ASSUME NEW u \in Users, NEW s \in Subs, NEW m \in Mailboxes,
                LinkFreja(u, s, m)
         PROVE  UNCHANGED [l \in Links |-> LinkState(l)]
    BY <1>12, <1>a, <1>c DEF LinkFreja
  <1>13. ASSUME NEW l \in Links, ExpireToken(l) PROVE OneTime!Next
    <2>1. /\ token[l].state = "open" /\ token'[l].state = "gone"
          /\ \A k \in Links \ {l} : token'[k] = token[k]
          /\ UNCHANGED <<call, applied>>
      BY <1>0, <1>13 DEF ExpireToken, TypeOK, Token, history
    <2>2. LinkState(l) = "open" /\ LinkState(l)' = "void"
      BY <1>c, <2>1, LinkStates
    <2>3. \A k \in Links \ {l} : Same(k)
      BY <1>c, <2>1, LinkStays
    <2> QED
      BY <2>2, <2>3, MoveLink DEF OneTime!Next, OneTime!Expire
  <1>14. ASSUME NEW p \in Calls, CallOnUserCreated(p)
         PROVE  UNCHANGED [l \in Links |-> LinkState(l)]
    BY <1>0, <1>14, <1>a, <1>b, ReturnEffect DEF CallOnUserCreated, history, At
  <1>15. ASSUME NEW p \in Calls, NEW u \in Users, NEW s \in Subs, ResetFreja(p, u, s)
         PROVE  UNCHANGED [l \in Links |-> LinkState(l)]
    BY <1>0, <1>15, <1>a, <1>b, ResetEffect DEF ResetFreja, history, At
  <1>16. ASSUME NEW p \in Calls, UpsertIdentity(p)
         PROVE  UNCHANGED [l \in Links |-> LinkState(l)]
    BY <1>0, <1>16, <1>a, <1>b, ReturnEffect DEF UpsertIdentity, At
  <1>17. ASSUME NEW t \in Subs, NEW s \in Subs, AdoptSubject(t, s)
         PROVE  UNCHANGED [l \in Links |-> LinkState(l)]
    BY <1>17, <1>a, <1>c DEF AdoptSubject, history
  <1> QED
    BY <1>1, <1>2, <1>3, <1>4, <1>5, <1>6, <1>7, <1>8, <1>9, <1>10, <1>11, <1>12,
       <1>13, <1>14, <1>15, <1>16, <1>17 DEF Next

\* A mailed link is redeemed once and its change made once, or given up: the
\* handlers implement OneTimeLink.
THEOREM LinksAreOneTime == Spec => FollowsOneTimeLink
  <1>1. Init => OneTime!Init
    BY DEF Init, OneTime!Init, LinkState, NoToken
  <1>2. IInv /\ [Next]_vars => [OneTime!Next]_([l \in Links |-> LinkState(l)])
    <2>1. UNCHANGED vars => UNCHANGED [l \in Links |-> LinkState(l)]
      BY DEF vars, history, LinkState, At
    <2> QED
      BY <2>1, OneTimeStep
  <1> QED
    BY <1>1, <1>2, Invariant, PTL DEF Spec, FollowsOneTimeLink, OneTime!Spec

=============================================================================
