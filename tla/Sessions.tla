------------------------------ MODULE Sessions ------------------------------
(***************************************************************************)
(* Passkey login, sessions, and the two things administrators may change   *)
(* about a user: beginLogin, finishLogin, CreateSession, GetSession as     *)
(* RequireAuth and RequireRole use it, logout, CleanupSessions, banUser,   *)
(* unbanUser and setRole.                                                  *)
(*                                                                         *)
(* As in Registration, a statement is atomic, the statements of different  *)
(* requests interleave, and a member of Calls is a request being served.   *)
(* A user has at most one passkey, one that counts; one that does not      *)
(* reports 0 for ever and leaves sign_count alone.  A session id and a     *)
(* challenge are random, so each is used for one row only.                 *)
(***************************************************************************)
EXTENDS Naturals, FiniteSets

CONSTANTS Users,
          Admins,       \* those who are administrators to begin with
          PasskeyUsers, \* those who have a passkey
          FrejaUsers,   \* those who have a Freja eID
          Sids,         \* session ids
          Challenges,   \* WebAuthn login challenges
          Calls,        \* requests that may be served at the same time
          Changes,      \* bound: what administrators' forms ask for
          MaxChanges,   \* bound: how many of those forms are sent
          MaxCount,     \* bound: how often an authenticator signs
          None

ASSUME AdminsAssumption == Admins \subseteq Users /\ Admins # {}
ASSUME LoginMethodsAssumption == PasskeyUsers \cup FrejaUsers = Users
ASSUME BoundsAssumption == MaxCount \in Nat /\ MaxChanges \in Nat
ASSUME ChallengesAssumption == IsFiniteSet(Challenges)
ASSUME NoneAssumption == None \notin Users \cup Sids \cup Challenges

VARIABLES users,      \* role and is_banned
          sessions,   \* the sessions table, by id
          challenge,  \* webauthn_login_sessions: one row per user
          count,      \* sign_count of each user's passkey
          ceremony,   \* each challenge: whose it is, the count it was signed with
          told,       \* what the hooks last told the host application of a user
          call,       \* the requests being served
          changes     \* how many changes administrators asked for, for the bound

\* History, read by the properties only.
VARIABLES overtaken,  \* requests whose session, ban or role changed under them
          muddled,    \* columns of users whose changes or hooks were cut short, or crossed
          crossed,    \* users two of whose logins crossed, or one was cut short
          highest,    \* the highest count a login was accepted with
          forfeited   \* an administrator removed themselves, or acted though overtaken

history == <<overtaken, muddled, crossed, highest, forfeited>>

vars ==
  <<users, sessions, challenge, count, ceremony, told, call, changes, history>>

-----------------------------------------------------------------------------
(* The tables. *)

Roles == {"passive", "active", "admin"}

User == [role: Roles, banned: BOOLEAN]

\* "unused" and "gone" are the absence of a row; "expired" is expires_at <= now.
Session == [state: {"unused", "live", "expired", "gone"},
            user: Users \cup {None}, chal: Challenges \cup {None}]

NoSession == [state |-> "unused", user |-> None, chal |-> None]

\* What an administrator's form may ask for.
Change == [field: {"banned"}, to: BOOLEAN] \cup [field: {"role"}, to: Roles]

ASSUME ChangesAssumption == Changes \subseteq Change

NoChange == [field |-> "role", to |-> "passive"]

Call == [pc: {"idle", "store", "take", "read", "count", "insert",
              "logout", "change", "hook"},
         user: Users \cup {None}, sid: Sids \cup {None},
         chal: Challenges \cup {None}, count: 0..MaxCount,
         target: Users \cup {None}, change: Change]

NoCall == [pc |-> "idle", user |-> None, sid |-> None, chal |-> None,
           count |-> 0, target |-> None, change |-> NoChange]

Idle(p) == call[p].pc = "idle"

At(p, pc) == call[p].pc = pc

Goto(p, pc) == call' = [call EXCEPT ![p].pc = pc]

Serve(p, c) ==
  /\ call' = [call EXCEPT ![p] = c]
  /\ overtaken' = overtaken \ {p}

Return(p) == Serve(p, NoCall)

TypeOK ==
  /\ users \in [Users -> User]
  /\ sessions \in [Sids -> Session]
  /\ challenge \in [Users -> Challenges \cup {None}]
  /\ count \in [Users -> 0..MaxCount]
  /\ ceremony \in [Challenges -> [user: Users \cup {None}, count: 0..MaxCount]]
  /\ told \in [Users -> User]
  /\ call \in [Calls -> Call]
  /\ changes \in 0..MaxChanges
  /\ overtaken \subseteq Calls
  /\ muddled \subseteq Users \X {"banned", "role"}
  /\ crossed \subseteq Users
  /\ highest \in [Users -> 0..MaxCount]
  /\ forfeited \in BOOLEAN

InitialUser(u) ==
  [role |-> IF u \in Admins THEN "admin" ELSE "passive", banned |-> FALSE]

Init ==
  /\ users = [u \in Users |-> InitialUser(u)]
  /\ sessions = [s \in Sids |-> NoSession]
  /\ challenge = [u \in Users |-> None]
  /\ count = [u \in Users |-> 0]
  /\ ceremony = [c \in Challenges |-> [user |-> None, count |-> 0]]
  /\ told = users
  /\ call = [p \in Calls |-> NoCall]
  /\ changes = 0
  /\ overtaken = {}
  /\ muddled = {}
  /\ crossed = {}
  /\ highest = [u \in Users |-> 0]
  /\ forfeited = FALSE

-----------------------------------------------------------------------------
(* Passkey login. *)

\* beginLogin: SELECT ... WHERE is_banned = 0, and loadWAUser finds a passkey.
BeginLogin(p, u) ==
  /\ Idle(p)
  /\ u \in PasskeyUsers
  /\ ~users[u].banned
  /\ Serve(p, [NoCall EXCEPT !.pc = "store", !.user = u])
  /\ UNCHANGED <<changes, users, sessions, challenge, count, ceremony, told,
                 muddled, crossed, highest, forfeited>>

\* INSERT ... ON CONFLICT (user_id) DO UPDATE, and the options sent back.
StoreChallenge(p) ==
  /\ At(p, "store")
  /\ \E c \in Challenges :
       /\ ceremony[c].user = None
       /\ ceremony' = [ceremony EXCEPT ![c].user = call[p].user]
       /\ challenge' = [challenge EXCEPT ![call[p].user] = c]
  /\ Return(p)
  /\ UNCHANGED <<changes, users, sessions, count, told, muddled, crossed,
                 highest, forfeited>>

\* The authenticator signs a challenge and counts on by one.
Sign(c) ==
  LET u == ceremony[c].user
      signed == {d \in Challenges : ceremony[d].user = u
                                    /\ ceremony[d].count > 0} IN
  /\ u # None
  /\ ceremony[c].count = 0
  /\ Cardinality(signed) < MaxCount
  /\ ceremony' = [ceremony EXCEPT ![c].count = Cardinality(signed) + 1]
  /\ UNCHANGED <<changes, users, sessions, challenge, count, told, call,
                 history>>

\* The row's expires_at passes; no statement tells that from its absence.
ExpireChallenge(u) ==
  /\ challenge[u] # None
  /\ challenge' = [challenge EXCEPT ![u] = None]
  /\ UNCHANGED <<changes, users, sessions, count, ceremony, told, call,
                 history>>

\* finishLogin, possibly of an answer sent before: for a banned user the SELECT
\* leaves the id empty, and the DELETE finds no row of that id.
FinishLogin(p, c) ==
  LET u == ceremony[c].user IN
  /\ Idle(p)
  /\ ceremony[c].count > 0
  /\ ~users[u].banned
  /\ Serve(p, [NoCall EXCEPT !.pc = "take", !.user = u, !.chal = c,
                             !.count = ceremony[c].count])
  /\ UNCHANGED <<changes, users, sessions, challenge, count, ceremony, told,
                 muddled, crossed, highest, forfeited>>

\* Bug: the row is read and stays.
TakeChallenge_Select(p) ==
  /\ At(p, "take")
  /\ IF challenge[call[p].user] = call[p].chal
       THEN Goto(p, "read") /\ UNCHANGED overtaken
       ELSE Return(p)
  /\ UNCHANGED <<changes, users, sessions, challenge, count, ceremony, told,
                 muddled, crossed, highest, forfeited>>

\* DELETE ... RETURNING; FinishLogin refuses the answer to another challenge.
TakeChallenge(p) ==
  LET u == call[p].user IN
  /\ At(p, "take")
  /\ challenge' = [challenge EXCEPT ![u] = None]
  /\ IF challenge[u] = call[p].chal
       THEN Goto(p, "read") /\ UNCHANGED overtaken
       ELSE Return(p)
  /\ UNCHANGED <<changes, users, sessions, count, ceremony, told, muddled,
                 crossed, highest, forfeited>>

Highest(m, n) == IF m < n THEN n ELSE m

Counting(u) == {q \in Calls : At(q, "count") /\ call[q].user = u}

\* Bug: the signed count is added to the one that was read.
ReadCount_Added(p) ==
  LET u == call[p].user IN
  /\ At(p, "read")
  /\ call' = [call EXCEPT ![p].pc = "count", ![p].count = count[u] + @]
  /\ highest' = [highest EXCEPT ![u] = Highest(@, call[p].count)]
  /\ crossed' = IF Counting(u) = {} THEN crossed ELSE crossed \cup {u}
  /\ UNCHANGED <<changes, users, sessions, challenge, count, ceremony, told,
                 overtaken, muddled, forfeited>>

\* Bug: the count that was read is kept.
ReadCount_Kept(p) ==
  LET u == call[p].user IN
  /\ At(p, "read")
  /\ call' = [call EXCEPT ![p].pc = "count", ![p].count = count[u]]
  /\ highest' = [highest EXCEPT ![u] = Highest(@, call[p].count)]
  /\ crossed' = IF Counting(u) = {} THEN crossed ELSE crossed \cup {u}
  /\ UNCHANGED <<changes, users, sessions, challenge, count, ceremony, told,
                 overtaken, muddled, forfeited>>

\* loadWAUser reads sign_count; webauthn.FinishLogin takes the signed count if
\* it is higher, and otherwise only sets a warning nobody reads.
ReadCount(p) ==
  LET u == call[p].user IN
  /\ At(p, "read")
  /\ call' = [call EXCEPT ![p].pc = "count", ![p].count = Highest(count[u], @)]
  /\ highest' = [highest EXCEPT ![u] = Highest(@, call[p].count)]
  /\ crossed' = IF Counting(u) = {} THEN crossed ELSE crossed \cup {u}
  /\ UNCHANGED <<changes, users, sessions, challenge, count, ceremony, told,
                 overtaken, muddled, forfeited>>

StoreCount(p) ==
  /\ At(p, "count")
  /\ count' = [count EXCEPT ![call[p].user] = call[p].count]
  /\ Goto(p, "insert")
  /\ UNCHANGED <<changes, users, sessions, challenge, ceremony, told, history>>

\* The INSERT of CreateSession.
InsertSession(s, u, c) ==
  /\ sessions[s].state = "unused"
  /\ sessions' = [sessions EXCEPT ![s] = [state |-> "live", user |-> u, chal |-> c]]

\* OnLogin, called next, leaves nothing behind here.
CreateSession(p) ==
  /\ At(p, "insert")
  /\ \E s \in Sids : InsertSession(s, call[p].user, call[p].chal)
  /\ Return(p)
  /\ UNCHANGED <<changes, users, challenge, count, ceremony, told, muddled,
                 crossed, highest, forfeited>>

\* frejaLogin, frejaRegister and resetFreja: none of them reads is_banned before
\* CreateSession.
FrejaSession(u) ==
  /\ u \in FrejaUsers
  /\ \E s \in Sids : InsertSession(s, u, None)
  /\ UNCHANGED <<changes, users, challenge, count, ceremony, told, call,
                 history>>

-----------------------------------------------------------------------------
(* Requests with a session. *)

\* Bug: the WHERE of GetSession has lost its AND u.is_banned = 0.
GetSession_Banned(s) == sessions[s].state = "live"

\* The SELECT of GetSession; its UPDATE of last_seen_at changes nothing else.
GetSession(s) ==
  /\ sessions[s].state = "live"
  /\ ~users[sessions[s].user].banned

\* Bug: any role but the lowest will do.
RequireAdmin_NotPassive(s) == users[sessions[s].user].role # "passive"

\* The role is the one the SELECT of GetSession returned.
RequireAdmin(s) == users[sessions[s].user].role = "admin"

BeginLogout(p, s) ==
  /\ Idle(p)
  /\ GetSession(s)
  /\ Serve(p, [NoCall EXCEPT !.pc = "logout", !.user = sessions[s].user, !.sid = s])
  /\ UNCHANGED <<changes, users, sessions, challenge, count, ceremony, told,
                 muddled, crossed, highest, forfeited>>

\* banUser, unbanUser or setRole.
BeginChange(p, s, u, c) ==
  /\ Idle(p)
  /\ GetSession(s)
  /\ RequireAdmin(s)
  /\ changes < MaxChanges
  /\ changes' = changes + 1
  /\ Serve(p, [NoCall EXCEPT !.pc = "change", !.user = sessions[s].user, !.sid = s,
                             !.target = u, !.change = c])
  /\ UNCHANGED <<users, sessions, challenge, count, ceremony, told, muddled,
                 crossed, highest, forfeited>>

\* DeleteSession, and OnLogout, which leaves nothing behind here.
Logout(p) ==
  LET s == call[p].sid IN
  /\ At(p, "logout")
  /\ sessions' = [sessions EXCEPT ![s].state = "gone"]
  /\ call' = [call EXCEPT ![p] = NoCall]
  /\ overtaken' = (overtaken \cup {q \in Calls : call[q].sid = s}) \ {p}
  /\ UNCHANGED <<changes, users, challenge, count, ceremony, told, muddled,
                 crossed, highest, forfeited>>

Announcing(u, f) ==
  {q \in Calls : At(q, "hook") /\ call[q].target = u /\ call[q].change.field = f}

\* SetUserBan or SetUserRole: an UPDATE by the user's id alone.
SetUser(p) ==
  LET u == call[p].target  c == call[p].change IN
  /\ At(p, "change")
  /\ users' = [users EXCEPT ![u] =
                 IF c.field = "banned" THEN [@ EXCEPT !.banned = c.to]
                                       ELSE [@ EXCEPT !.role = c.to]]
  /\ Goto(p, "hook")
  /\ overtaken' = overtaken \cup {q \in Calls : call[q].user = u}
  /\ muddled' = IF Announcing(u, c.field) = {} THEN muddled
                                               ELSE muddled \cup {<<u, c.field>>}
  /\ forfeited' = (forfeited \/ p \in overtaken \/ u = call[p].user)
  /\ UNCHANGED <<changes, sessions, challenge, count, ceremony, told, crossed,
                 highest>>

\* Bug: unbanUser calls the hook of banUser.
CallHook_Banned(p) ==
  LET u == call[p].target  c == call[p].change IN
  /\ At(p, "hook")
  /\ told' = [told EXCEPT ![u] =
                IF c.field = "banned" THEN [@ EXCEPT !.banned = TRUE]
                                      ELSE [@ EXCEPT !.role = c.to]]
  /\ Return(p)
  /\ UNCHANGED <<changes, users, sessions, challenge, count, ceremony,
                 muddled, crossed, highest, forfeited>>

\* OnUserBanned, OnUserUnbanned or OnRoleChanged.
CallHook(p) ==
  LET u == call[p].target  c == call[p].change IN
  /\ At(p, "hook")
  /\ told' = [told EXCEPT ![u] =
                IF c.field = "banned" THEN [@ EXCEPT !.banned = c.to]
                                      ELSE [@ EXCEPT !.role = c.to]]
  /\ Return(p)
  /\ UNCHANGED <<changes, users, sessions, challenge, count, ceremony,
                 muddled, crossed, highest, forfeited>>

-----------------------------------------------------------------------------
(* What the code does not choose, and the hourly cleanup. *)

ExpireSession(s) ==
  /\ sessions[s].state = "live"
  /\ sessions' = [sessions EXCEPT ![s].state = "expired"]
  /\ overtaken' = overtaken \cup {q \in Calls : call[q].sid = s}
  /\ UNCHANGED <<changes, users, challenge, count, ceremony, told, call,
                 muddled, crossed, highest, forfeited>>

\* Bug: the comparison is the wrong way round.
CleanupSessions_Reversed ==
  /\ \E s \in Sids : sessions[s].state = "live"
  /\ sessions' = [s \in Sids |->
                    IF sessions[s].state = "live"
                      THEN [sessions[s] EXCEPT !.state = "gone"] ELSE sessions[s]]
  /\ UNCHANGED <<changes, users, challenge, count, ceremony, told, call,
                 history>>

CleanupSessions ==
  /\ \E s \in Sids : sessions[s].state = "expired"
  /\ sessions' = [s \in Sids |->
                    IF sessions[s].state = "expired"
                      THEN [sessions[s] EXCEPT !.state = "gone"] ELSE sessions[s]]
  /\ UNCHANGED <<changes, users, challenge, count, ceremony, told, call,
                 history>>

\* The client goes away and the statements that follow fail.  The errors of
\* SetUserBan and SetUserRole are not looked at: the hook is called all the same.
Disconnect(p) ==
  /\ ~Idle(p) /\ ~At(p, "hook")
  /\ IF At(p, "change")
       THEN /\ Goto(p, "hook")
            /\ muddled' = muddled \cup {<<call[p].target, call[p].change.field>>}
            /\ UNCHANGED overtaken
       ELSE Return(p) /\ UNCHANGED muddled
  /\ crossed' = IF At(p, "count") THEN crossed \cup {call[p].user} ELSE crossed
  /\ UNCHANGED <<changes, users, sessions, challenge, count, ceremony, told,
                 highest, forfeited>>

\* The process stops and starts again.
Crash ==
  /\ \E p \in Calls : ~Idle(p)
  /\ call' = [p \in Calls |-> NoCall]
  /\ overtaken' = {}
  /\ muddled' = muddled \cup {<<call[p].target, call[p].change.field>> :
                               p \in {q \in Calls : At(q, "hook")}}
  /\ crossed' = crossed \cup {call[p].user : p \in {q \in Calls : At(q, "count")}}
  /\ UNCHANGED <<changes, users, sessions, challenge, count, ceremony, told,
                 highest, forfeited>>

-----------------------------------------------------------------------------

Handle(p) ==
  \/ StoreChallenge(p)
  \/ TakeChallenge(p) \/ ReadCount(p) \/ StoreCount(p) \/ CreateSession(p)
  \/ Logout(p) \/ SetUser(p) \/ CallHook(p)

Next ==
  \/ Crash \/ CleanupSessions
  \/ \E p \in Calls :
       \/ Handle(p) \/ Disconnect(p)
       \/ \E c \in Challenges : FinishLogin(p, c)
       \/ \E u \in Users : BeginLogin(p, u)
       \/ \E s \in Sids :
            \/ BeginLogout(p, s)
            \/ \E u \in Users, c \in Changes : BeginChange(p, s, u, c)
  \/ \E u \in Users : ExpireChallenge(u) \/ FrejaSession(u)
  \/ \E c \in Challenges : Sign(c)
  \/ \E s \in Sids : ExpireSession(s)

Spec == Init /\ [][Next]_vars

-----------------------------------------------------------------------------
(* Safety. *)

\* A request rests on the session, the ban and the role it read when it started
\* (GetSession, RequireRole, finishLogin).  Until another request or the clock
\* overtakes it, what it read still holds when it writes.
ActsOnWhatHolds ==
  \A p \in Calls \ overtaken :
    /\ call[p].pc \in {"take", "read", "count", "insert", "logout", "change"} =>
         ~users[call[p].user].banned
    /\ call[p].pc \in {"logout", "change"} =>
         sessions[call[p].sid].state = "live"
    /\ At(p, "change") => users[call[p].user].role = "admin"

ActingAdmins == {u \in Users : users[u].role = "admin" /\ ~users[u].banned}

\* Somebody can always administer the server, unless an administrator removed
\* themselves or acted after being removed (setRole and banUser check neither
\* the target nor, again, the one who asks).
LastAdminLostOnlyBySelfOrRace == ActingAdmins # {} \/ forfeited

\* The host application's picture of bans and roles is right whenever no hook
\* is outstanding, except for a column two of whose changes crossed, or whose
\* change or hook was cut short: the hooks run after the UPDATE, not with it.
HostPictureLostOnlyByRace ==
  \A u \in Users, f \in {"banned", "role"} :
    <<u, f>> \in muddled \/ Announcing(u, f) # {} \/ told[u][f] = users[u][f]

\* However often an answer is sent and however logins of one user interleave, a
\* signed challenge opens at most one session, and for the user it was handed to
\* (DELETE ... RETURNING in finishLogin).
AssertionSignsInOnce ==
  \A s \in Sids :
    LET c == sessions[s].chal IN
    c # None => /\ ceremony[c].user = sessions[s].user /\ ceremony[c].count > 0
                /\ \A t \in Sids \ {s} : sessions[t].chal # c

\* sign_count is the highest count a login was accepted with, unless two logins
\* of the user crossed between reading and writing it, or one was cut short there.
CountBehindOnlyByCrossing ==
  \A u \in Users :
    u \in crossed \/ Counting(u) # {} \/ count[u] = highest[u]

\* A session works until it expires or a request that presented it logs out, and
\* never again after that; cleaning up takes no session away that still works.
SessionsEndForGood ==
  [][\A s \in Sids :
       /\ sessions[s].state \in {"expired", "gone"} => sessions'[s].state # "live"
       /\ sessions[s].state = "live" /\ sessions'[s].state = "gone" =>
            \E p \in Calls : At(p, "logout") /\ call[p].sid = s]_vars

=============================================================================
