-------------------------- MODULE Sessions_proofs --------------------------
(***************************************************************************)
(* Theorems about Sessions, for any users, sessions, challenges, changes   *)
(* and number of concurrent requests.                                      *)
(***************************************************************************)
EXTENDS Sessions, FiniteSetTheorems, TLAPS

-----------------------------------------------------------------------------
(* The inductive invariant. *)

\* A session belongs to a user, and a stored challenge was made for its user.
RowInv ==
  /\ \A s \in Sids : sessions[s].state # "unused" => sessions[s].user \in Users
  /\ \A s \in Sids : sessions[s].state = "unused" => sessions[s].chal = None
  /\ \A u \in Users : challenge[u] # None => ceremony[challenge[u]].user = u
  /\ \A c \in Challenges : ceremony[c].count > 0 => ceremony[c].user # None

Answers(p) == call[p].pc \in {"take", "read", "count", "insert"}

Redeems(p) == call[p].pc \in {"read", "count", "insert"}

\* What a request carries belongs together.
Carries(p) ==
  /\ ~Idle(p) => call[p].user \in Users
  /\ Answers(p) => /\ call[p].chal \in Challenges
                   /\ ceremony[call[p].chal].user = call[p].user
                   /\ ceremony[call[p].chal].count > 0
  /\ call[p].pc \in {"logout", "change"} =>
       call[p].sid \in Sids /\ sessions[call[p].sid].state # "unused"
  /\ call[p].pc \in {"change", "hook"} => call[p].target \in Users

\* A challenge is in one place: in its row, with one request that took it from
\* there, or with the session that request created.
ChallengeInv ==
  /\ \A p \in Calls : Redeems(p) =>
       /\ \A u \in Users : challenge[u] # call[p].chal
       /\ \A s \in Sids : sessions[s].chal # call[p].chal
       /\ \A q \in Calls \ {p} : Redeems(q) => call[q].chal # call[p].chal
  /\ \A s \in Sids : sessions[s].chal # None =>
       \A u \in Users : challenge[u] # sessions[s].chal

\* The count about to be stored is the highest one, or logins crossed.
CountInv ==
  \A p \in Calls, u \in Users : At(p, "count") /\ call[p].user = u =>
    \/ u \in crossed
    \/ call[p].count = highest[u] /\ Counting(u) = {p}

\* What a hook is about to tell is what the row says, or changes crossed.
HookInv ==
  \A p \in Calls : At(p, "hook") =>
    LET u == call[p].target  c == call[p].change IN
    <<u, c.field>> \in muddled \/ users[u][c.field] = c.to

IInv ==
  /\ TypeOK /\ RowInv /\ (\A p \in Calls : Carries(p))
  /\ ChallengeInv /\ CountInv /\ HookInv
  /\ ActsOnWhatHolds /\ LastAdminLostOnlyBySelfOrRace /\ HostPictureLostOnlyByRace
  /\ AssertionSignsInOnce /\ CountBehindOnlyByCrossing

-----------------------------------------------------------------------------
(* What the helpers do to the record of one request. *)

OthersKeep(p) == \A q \in Calls \ {p} : call'[q] = call[q]

LEMMA NoCallIdle == NoCall \in Call /\ NoCall.pc = "idle"
  BY BoundsAssumption DEF NoCall, NoChange, Call, Change, Roles

LEMMA ServeEffect ==
  ASSUME TypeOK, NEW p \in Calls, NEW c \in Call, Serve(p, c)
  PROVE  /\ call' \in [Calls -> Call] /\ call'[p] = c /\ OthersKeep(p)
         /\ overtaken' = overtaken \ {p} /\ overtaken' \subseteq Calls
  BY DEF TypeOK, Serve, OthersKeep

LEMMA ReturnEffect ==
  ASSUME TypeOK, NEW p \in Calls, Return(p)
  PROVE  /\ call' \in [Calls -> Call] /\ call'[p].pc = "idle" /\ OthersKeep(p)
         /\ overtaken' = overtaken \ {p} /\ overtaken' \subseteq Calls
  BY ServeEffect, NoCallIdle DEF Return

LEMMA GotoEffect ==
  ASSUME TypeOK, NEW p \in Calls, NEW pc \in {"read", "insert", "hook"}, Goto(p, pc)
  PROVE  /\ call' \in [Calls -> Call] /\ OthersKeep(p)
         /\ call'[p].pc = pc /\ call'[p].user = call[p].user
         /\ call'[p].sid = call[p].sid /\ call'[p].chal = call[p].chal
         /\ call'[p].count = call[p].count /\ call'[p].target = call[p].target
         /\ call'[p].change = call[p].change
  <1> DEFINE c == [call[p] EXCEPT !.pc = pc]
  <1>1. call[p] \in Call
    BY DEF TypeOK
  <1>2. /\ c \in Call /\ c.pc = pc /\ c.user = call[p].user
        /\ c.sid = call[p].sid /\ c.chal = call[p].chal
        /\ c.count = call[p].count /\ c.target = call[p].target
        /\ c.change = call[p].change
    BY <1>1 DEF Call
  <1>3. call' = [call EXCEPT ![p] = c]
    BY DEF Goto
  <1> HIDE DEF c
  <1> QED
    BY <1>2, <1>3 DEF TypeOK, OthersKeep

LEMMA BeginLoginEffect ==
  ASSUME TypeOK, NEW p \in Calls, NEW u \in Users, BeginLogin(p, u)
  PROVE  /\ call' \in [Calls -> Call] /\ OthersKeep(p)
         /\ overtaken' = overtaken \ {p} /\ overtaken' \subseteq Calls
         /\ call'[p].pc = "store" /\ call'[p].user = u
  <1> DEFINE c == [NoCall EXCEPT !.pc = "store", !.user = u]
  <1>1. c \in Call /\ c.pc = "store" /\ c.user = u
    BY NoCallIdle DEF Call
  <1>2. Serve(p, c)
    BY DEF BeginLogin
  <1> HIDE DEF c
  <1> QED
    BY <1>1, <1>2, ServeEffect

LEMMA FinishLoginEffect ==
  ASSUME TypeOK, RowInv, NEW p \in Calls, NEW h \in Challenges, FinishLogin(p, h)
  PROVE  /\ call' \in [Calls -> Call] /\ OthersKeep(p)
         /\ overtaken' = overtaken \ {p} /\ overtaken' \subseteq Calls
         /\ ceremony[h].user \in Users /\ ceremony[h].count > 0
         /\ ~users[ceremony[h].user].banned
         /\ call'[p].pc = "take" /\ call'[p].user = ceremony[h].user
         /\ call'[p].chal = h
  <1> DEFINE u == ceremony[h].user
             n == ceremony[h].count
             c == [NoCall EXCEPT !.pc = "take", !.user = u, !.chal = h, !.count = n]
  <1>1. u \in Users \cup {None} /\ n \in 0..MaxCount /\ n > 0 /\ ~users[u].banned
    BY DEF TypeOK, FinishLogin
  <1>2. u \in Users
    BY <1>1 DEF RowInv
  <1>3. Serve(p, c)
    BY DEF FinishLogin
  <1> HIDE DEF u, n
  <1>4. c \in Call /\ c.pc = "take" /\ c.user = u /\ c.chal = h
    BY <1>1, NoCallIdle DEF Call
  <1> HIDE DEF c
  <1>5. /\ call' \in [Calls -> Call] /\ OthersKeep(p) /\ call'[p] = c
        /\ overtaken' = overtaken \ {p} /\ overtaken' \subseteq Calls
    BY <1>3, <1>4, ServeEffect
  <1> QED
    BY <1>1, <1>2, <1>4, <1>5 DEF u, n

LEMMA BeginLogoutEffect ==
  ASSUME TypeOK, RowInv, NEW p \in Calls, NEW s \in Sids, BeginLogout(p, s)
  PROVE  /\ call' \in [Calls -> Call] /\ OthersKeep(p)
         /\ overtaken' = overtaken \ {p} /\ overtaken' \subseteq Calls
         /\ sessions[s].user \in Users /\ sessions[s].state = "live"
         /\ ~users[sessions[s].user].banned
         /\ call'[p].pc = "logout" /\ call'[p].user = sessions[s].user
         /\ call'[p].sid = s
  <1> DEFINE u == sessions[s].user
             c == [NoCall EXCEPT !.pc = "logout", !.user = u, !.sid = s]
  <1>1. u \in Users /\ sessions[s].state = "live" /\ ~users[u].banned
    BY DEF BeginLogout, GetSession, RowInv
  <1>2. Serve(p, c)
    BY DEF BeginLogout
  <1> HIDE DEF u
  <1>3. c \in Call /\ c.pc = "logout" /\ c.user = u /\ c.sid = s
    BY <1>1, NoCallIdle DEF Call
  <1> HIDE DEF c
  <1>4. /\ call' \in [Calls -> Call] /\ OthersKeep(p) /\ call'[p] = c
        /\ overtaken' = overtaken \ {p} /\ overtaken' \subseteq Calls
    BY <1>2, <1>3, ServeEffect
  <1> QED
    BY <1>1, <1>3, <1>4 DEF u

LEMMA BeginChangeEffect ==
  ASSUME TypeOK, RowInv, NEW p \in Calls, NEW s \in Sids, NEW v \in Users,
         NEW d \in Changes, BeginChange(p, s, v, d)
  PROVE  /\ call' \in [Calls -> Call] /\ OthersKeep(p)
         /\ overtaken' = overtaken \ {p} /\ overtaken' \subseteq Calls
         /\ sessions[s].user \in Users /\ sessions[s].state = "live"
         /\ ~users[sessions[s].user].banned
         /\ users[sessions[s].user].role = "admin"
         /\ call'[p].pc = "change" /\ call'[p].user = sessions[s].user
         /\ call'[p].sid = s /\ call'[p].target = v
  <1> DEFINE u == sessions[s].user
             c == [NoCall EXCEPT !.pc = "change", !.user = u, !.sid = s,
                                 !.target = v, !.change = d]
  <1>1. /\ u \in Users /\ sessions[s].state = "live" /\ ~users[u].banned
        /\ users[u].role = "admin"
    BY DEF BeginChange, GetSession, RequireAdmin, RowInv
  <1>2. Serve(p, c)
    BY DEF BeginChange
  <1> HIDE DEF u
  <1>3. c \in Call /\ c.pc = "change" /\ c.user = u /\ c.sid = s /\ c.target = v
    BY <1>1, NoCallIdle, ChangesAssumption DEF Call
  <1> HIDE DEF c
  <1>4. /\ call' \in [Calls -> Call] /\ OthersKeep(p) /\ call'[p] = c
        /\ overtaken' = overtaken \ {p} /\ overtaken' \subseteq Calls
    BY <1>2, <1>3, ServeEffect
  <1> QED
    BY <1>1, <1>3, <1>4 DEF u

\* The signed count and the one that was read, whichever is higher.
LEMMA ReadCountEffect ==
  ASSUME TypeOK, NEW p \in Calls, call[p].user \in Users, ReadCount(p)
  PROVE  /\ call' \in [Calls -> Call] /\ OthersKeep(p)
         /\ call'[p].pc = "count" /\ call'[p].user = call[p].user
         /\ call'[p].chal = call[p].chal
         /\ call'[p].count = Highest(count[call[p].user], call[p].count)
         /\ highest' \in [Users -> 0..MaxCount]
         /\ highest'[call[p].user] = Highest(highest[call[p].user], call[p].count)
         /\ \A u \in Users \ {call[p].user} : highest'[u] = highest[u]
  <1> DEFINE u == call[p].user
             n == Highest(count[u], call[p].count)
             c == [call[p] EXCEPT !.pc = "count", !.count = n]
  <1>1. call[p] \in Call /\ count[u] \in 0..MaxCount /\ highest[u] \in 0..MaxCount
    BY DEF TypeOK
  <1>2. n \in 0..MaxCount /\ Highest(highest[u], call[p].count) \in 0..MaxCount
    BY <1>1 DEF Highest, Call
  <1>3. call' = [call EXCEPT ![p] = c]
    BY DEF ReadCount
  <1>4. highest' = [highest EXCEPT ![u] = Highest(highest[u], call[p].count)]
    BY DEF ReadCount
  <1>5. highest \in [Users -> 0..MaxCount] /\ call \in [Calls -> Call]
    BY DEF TypeOK
  <1> HIDE DEF n
  <1>6. /\ c \in Call /\ c.pc = "count" /\ c.user = u /\ c.chal = call[p].chal
        /\ c.count = n
    BY <1>1, <1>2 DEF Call
  <1> HIDE DEF c
  <1>7. call' \in [Calls -> Call] /\ OthersKeep(p) /\ call'[p] = c
    BY <1>3, <1>5, <1>6 DEF OthersKeep
  <1> HIDE DEF u
  <1>8. /\ highest' \in [Users -> 0..MaxCount]
        /\ highest'[u] = Highest(highest[u], call[p].count)
        /\ \A v \in Users \ {u} : highest'[v] = highest[v]
    BY <1>2, <1>4, <1>5 DEF u
  <1> QED
    BY <1>6, <1>7, <1>8 DEF u, n

LEMMA Known ==
  ASSUME IInv, NEW p \in Calls
  PROVE  TypeOK /\ RowInv /\ call[p] \in Call /\ Carries(p)
  BY DEF IInv, TypeOK

\* A session begins in an unused row.
LEMMA InsertEffect ==
  ASSUME TypeOK, NEW s \in Sids, NEW u \in Users, NEW c \in Challenges \cup {None},
         InsertSession(s, u, c)
  PROVE  /\ sessions' \in [Sids -> Session]
         /\ sessions[s].state = "unused"
         /\ sessions'[s].state = "live" /\ sessions'[s].user = u /\ sessions'[s].chal = c
         /\ \A t \in Sids \ {s} : sessions'[t] = sessions[t]
  BY DEF TypeOK, InsertSession, Session

\* Neither expiry, logout nor cleanup changes whose session it is.
LEMMA EndEffect ==
  ASSUME TypeOK, NEW S \in SUBSET Sids, NEW state \in {"expired", "gone"},
         sessions' = [s \in Sids |-> IF s \in S THEN [sessions[s] EXCEPT !.state = state]
                                                ELSE sessions[s]]
  PROVE  /\ sessions' \in [Sids -> Session]
         /\ \A s \in Sids : /\ sessions'[s].user = sessions[s].user
                            /\ sessions'[s].chal = sessions[s].chal
                            /\ sessions'[s].state =
                                 IF s \in S THEN state ELSE sessions[s].state
  BY DEF TypeOK, Session

LEMMA LogoutEffect ==
  ASSUME IInv, NEW p \in Calls, Logout(p)
  PROVE  /\ call[p].sid \in Sids /\ sessions' \in [Sids -> Session]
         /\ \A s \in Sids : /\ sessions'[s].user = sessions[s].user
                            /\ sessions'[s].chal = sessions[s].chal
                            /\ sessions'[s].state = IF s = call[p].sid THEN "gone"
                                                    ELSE sessions[s].state
         /\ sessions[call[p].sid].state # "unused"
         /\ call' \in [Calls -> Call] /\ call'[p].pc = "idle" /\ OthersKeep(p)
         /\ overtaken' = (overtaken \cup {q \in Calls : call[q].sid = call[p].sid}) \ {p}
         /\ overtaken' \subseteq Calls
  <1>1. call[p].sid \in Sids /\ sessions[call[p].sid].state # "unused"
    BY Known DEF Logout, At, Carries
  <1>2. /\ sessions' \in [Sids -> Session]
        /\ \A s \in Sids : /\ sessions'[s].user = sessions[s].user
                           /\ sessions'[s].chal = sessions[s].chal
                           /\ sessions'[s].state = IF s = call[p].sid THEN "gone"
                                                   ELSE sessions[s].state
    BY <1>1, Known DEF Logout, TypeOK, Session
  <1>3. /\ call' \in [Calls -> Call] /\ call'[p].pc = "idle" /\ OthersKeep(p)
        /\ overtaken' = (overtaken \cup {q \in Calls : call[q].sid = call[p].sid}) \ {p}
        /\ overtaken' \subseteq Calls
    BY Known, NoCallIdle DEF Logout, TypeOK, OthersKeep
  <1> QED
    BY <1>1, <1>2, <1>3

\* The column that is written, and the one that is not.
LEMMA SetColumn ==
  ASSUME NEW x \in User, NEW c \in Change
  PROVE  LET y == IF c.field = "banned" THEN [x EXCEPT !.banned = c.to]
                                        ELSE [x EXCEPT !.role = c.to] IN
         /\ y \in User /\ c.field \in {"banned", "role"}
         /\ y[c.field] = c.to
         /\ \A f \in {"banned", "role"} \ {c.field} : y[f] = x[f]
  <1>1. CASE c.field = "banned" /\ c.to \in BOOLEAN
    BY <1>1 DEF User
  <1>2. CASE c.field = "role" /\ c.to \in Roles
    BY <1>2 DEF User
  <1> QED
    BY <1>1, <1>2 DEF Change

LEMMA SetUserEffect ==
  ASSUME IInv, NEW p \in Calls, SetUser(p)
  PROVE  LET u == call[p].target  c == call[p].change IN
         /\ u \in Users /\ c \in Change
         /\ users' \in [Users -> User]
         /\ users'[u][c.field] = c.to
         /\ \A f \in {"banned", "role"} \ {c.field} : users'[u][f] = users[u][f]
         /\ \A v \in Users \ {u} : users'[v] = users[v]
         /\ c.field \in {"banned", "role"}
  <1> DEFINE u == call[p].target
             c == call[p].change
             y == IF c.field = "banned" THEN [users[u] EXCEPT !.banned = c.to]
                                        ELSE [users[u] EXCEPT !.role = c.to]
  <1>1. u \in Users /\ c \in Change /\ users[u] \in User /\ users \in [Users -> User]
    BY Known DEF SetUser, At, Carries, TypeOK, Call
  <1>2. users' = [users EXCEPT ![u] = y]
    BY DEF SetUser
  <1> HIDE DEF u, c
  <1>3. /\ y \in User /\ c.field \in {"banned", "role"} /\ y[c.field] = c.to
        /\ \A f \in {"banned", "role"} \ {c.field} : y[f] = users[u][f]
    BY <1>1, SetColumn
  <1> HIDE DEF y
  <1>4. /\ users' \in [Users -> User] /\ users'[u] = y
        /\ \A v \in Users \ {u} : users'[v] = users[v]
    BY <1>1, <1>2, <1>3
  <1> QED
    BY <1>1, <1>3, <1>4 DEF u, c

LEMMA CallHookEffect ==
  ASSUME IInv, NEW p \in Calls, CallHook(p)
  PROVE  LET u == call[p].target  c == call[p].change IN
         /\ u \in Users /\ c \in Change
         /\ told' \in [Users -> User]
         /\ told'[u][c.field] = c.to
         /\ \A f \in {"banned", "role"} \ {c.field} : told'[u][f] = told[u][f]
         /\ \A v \in Users \ {u} : told'[v] = told[v]
         /\ c.field \in {"banned", "role"}
  <1> DEFINE u == call[p].target
             c == call[p].change
             y == IF c.field = "banned" THEN [told[u] EXCEPT !.banned = c.to]
                                        ELSE [told[u] EXCEPT !.role = c.to]
  <1>1. u \in Users /\ c \in Change /\ told[u] \in User /\ told \in [Users -> User]
    BY Known DEF CallHook, At, Carries, TypeOK, Call
  <1>2. told' = [told EXCEPT ![u] = y]
    BY DEF CallHook
  <1> HIDE DEF u, c
  <1>3. /\ y \in User /\ c.field \in {"banned", "role"} /\ y[c.field] = c.to
        /\ \A f \in {"banned", "role"} \ {c.field} : y[f] = told[u][f]
    BY <1>1, SetColumn
  <1> HIDE DEF y
  <1>4. /\ told' \in [Users -> User] /\ told'[u] = y
        /\ \A v \in Users \ {u} : told'[v] = told[v]
    BY <1>1, <1>2, <1>3
  <1> QED
    BY <1>1, <1>3, <1>4 DEF u, c

-----------------------------------------------------------------------------
(* Types. *)

LEMMA Counted ==
  ASSUME NEW S \in SUBSET Challenges
  PROVE  Cardinality(S) \in Nat
  <1>1. IsFiniteSet(S)
    BY ChallengesAssumption, FS_Subset
  <1> QED
    BY <1>1, FS_CardinalityType

LEMMA TypeStep ==
  ASSUME IInv, Next
  PROVE  TypeOK'
  <1>0. TypeOK /\ RowInv
    BY DEF IInv
  <1>1. ASSUME Crash PROVE TypeOK'
    <2>1. call' \in [Calls -> Call] /\ overtaken' \subseteq Calls
      BY <1>1, NoCallIdle DEF Crash
    <2>2. muddled' \subseteq Users \X {"banned", "role"}
      <3>1. \A p \in Calls : At(p, "hook") =>
              <<call[p].target, call[p].change.field>> \in Users \X {"banned", "role"}
        BY Known DEF At, Carries, Call, Change
      <3>2. muddled \subseteq Users \X {"banned", "role"}
        BY <1>0 DEF TypeOK
      <3> QED
        BY <1>1, <3>1, <3>2 DEF Crash
    <2>3. crossed' \subseteq Users
      <3>1. \A p \in Calls : At(p, "count") => call[p].user \in Users
        BY Known DEF At, Idle, Carries
      <3> QED
        BY <1>0, <1>1, <3>1 DEF Crash, TypeOK
    <2> QED
      BY <1>0, <1>1, <2>1, <2>2, <2>3 DEF Crash, TypeOK
  <1>2. ASSUME CleanupSessions PROVE TypeOK'
    <2> DEFINE S == {s \in Sids : sessions[s].state = "expired"}
    <2>1. sessions' = [s \in Sids |-> IF s \in S THEN [sessions[s] EXCEPT !.state = "gone"]
                                                 ELSE sessions[s]]
      BY <1>2 DEF CleanupSessions
    <2>2. S \in SUBSET Sids
      OBVIOUS
    <2> HIDE DEF S
    <2>3. sessions' \in [Sids -> Session]
      BY <1>0, <2>1, <2>2, EndEffect
    <2> QED
      BY <1>0, <1>2, <2>3 DEF CleanupSessions, TypeOK, history
  <1>3. ASSUME NEW p \in Calls, StoreChallenge(p) PROVE TypeOK'
    <2>1. /\ call' \in [Calls -> Call] /\ overtaken' \subseteq Calls
          /\ call[p].user \in Users
      BY <1>0, <1>3, ReturnEffect, Known DEF StoreChallenge, At, Idle, Carries
    <2>2. PICK c \in Challenges :
            /\ ceremony' = [ceremony EXCEPT ![c].user = call[p].user]
            /\ challenge' = [challenge EXCEPT ![call[p].user] = c]
      BY <1>3 DEF StoreChallenge
    <2>3. ceremony' \in [Challenges -> [user: Users \cup {None}, count: 0..MaxCount]]
      BY <1>0, <2>1, <2>2 DEF TypeOK
    <2>4. challenge' \in [Users -> Challenges \cup {None}]
      BY <1>0, <2>1, <2>2 DEF TypeOK
    <2> QED
      BY <1>0, <1>3, <2>1, <2>3, <2>4 DEF StoreChallenge, TypeOK
  <1>4. ASSUME NEW p \in Calls, TakeChallenge(p) PROVE TypeOK'
    <2>1. call' \in [Calls -> Call] /\ overtaken' \subseteq Calls
      BY <1>0, <1>4, ReturnEffect, GotoEffect DEF TakeChallenge, TypeOK
    <2>2. challenge' \in [Users -> Challenges \cup {None}]
      BY <1>0, <1>4 DEF TakeChallenge, TypeOK
    <2> QED
      BY <1>0, <1>4, <2>1, <2>2 DEF TakeChallenge, TypeOK
  <1>5. ASSUME NEW p \in Calls, ReadCount(p) PROVE TypeOK'
    <2>1. call[p].user \in Users
      BY <1>5, Known DEF ReadCount, At, Idle, Carries
    <2>2. call' \in [Calls -> Call] /\ highest' \in [Users -> 0..MaxCount]
      BY <1>0, <1>5, <2>1, ReadCountEffect
    <2> QED
      BY <1>0, <1>5, <2>1, <2>2 DEF ReadCount, TypeOK
  <1>6. ASSUME NEW p \in Calls, StoreCount(p) PROVE TypeOK'
    <2>1. call' \in [Calls -> Call] /\ call[p].count \in 0..MaxCount
      BY <1>0, <1>6, GotoEffect, Known DEF StoreCount, Call
    <2> QED
      BY <1>0, <1>6, <2>1 DEF StoreCount, TypeOK, history
  <1>7. ASSUME NEW p \in Calls, CreateSession(p) PROVE TypeOK'
    <2>1. /\ call' \in [Calls -> Call] /\ overtaken' \subseteq Calls
          /\ call[p].user \in Users /\ call[p].chal \in Challenges
      BY <1>0, <1>7, ReturnEffect, Known DEF CreateSession, At, Idle, Carries, Answers
    <2>2. sessions' \in [Sids -> Session]
      BY <1>0, <1>7, <2>1, InsertEffect DEF CreateSession
    <2> QED
      BY <1>0, <1>7, <2>1, <2>2 DEF CreateSession, TypeOK
  <1>8. ASSUME NEW p \in Calls, Logout(p) PROVE TypeOK'
    BY <1>0, <1>8, LogoutEffect DEF Logout, TypeOK
  <1>9. ASSUME NEW p \in Calls, SetUser(p) PROVE TypeOK'
    <2> DEFINE u == call[p].target
               c == call[p].change
    <2>1. /\ u \in Users /\ c.field \in {"banned", "role"}
          /\ users' \in [Users -> User]
      BY <1>9, SetUserEffect
    <2>2. call' \in [Calls -> Call]
      BY <1>0, <1>9, GotoEffect DEF SetUser
    <2>3. overtaken' \subseteq Calls /\ forfeited' \in BOOLEAN
      BY <1>0, <1>9 DEF SetUser, TypeOK
    <2>4. muddled' \subseteq Users \X {"banned", "role"}
      <3>1. <<u, c.field>> \in Users \X {"banned", "role"}
        BY <2>1
      <3>2. muddled \subseteq Users \X {"banned", "role"}
        BY <1>0 DEF TypeOK
      <3> QED
        BY <1>9, <3>1, <3>2 DEF SetUser
    <2> QED
      BY <1>0, <1>9, <2>1, <2>2, <2>3, <2>4 DEF SetUser, TypeOK
  <1>10. ASSUME NEW p \in Calls, CallHook(p) PROVE TypeOK'
    <2>1. call' \in [Calls -> Call] /\ overtaken' \subseteq Calls
      BY <1>0, <1>10, ReturnEffect DEF CallHook
    <2>2. told' \in [Users -> User]
      BY <1>10, CallHookEffect
    <2> QED
      BY <1>0, <1>10, <2>1, <2>2 DEF CallHook, TypeOK
  <1>11. ASSUME NEW p \in Calls, Disconnect(p) PROVE TypeOK'
    <2>1. call' \in [Calls -> Call] /\ overtaken' \subseteq Calls
      BY <1>0, <1>11, ReturnEffect, GotoEffect DEF Disconnect, TypeOK
    <2>2. muddled' \subseteq Users \X {"banned", "role"}
      <3>1. At(p, "change") =>
              <<call[p].target, call[p].change.field>> \in Users \X {"banned", "role"}
        BY Known DEF At, Carries, Call, Change
      <3>2. muddled \subseteq Users \X {"banned", "role"}
        BY <1>0 DEF TypeOK
      <3> QED
        BY <1>11, <3>1, <3>2 DEF Disconnect
    <2>3. crossed' \subseteq Users
      BY <1>0, <1>11, Known DEF Disconnect, At, Idle, Carries, TypeOK
    <2> QED
      BY <1>0, <1>11, <2>1, <2>2, <2>3 DEF Disconnect, TypeOK
  <1>12. ASSUME NEW p \in Calls, NEW c \in Challenges, FinishLogin(p, c) PROVE TypeOK'
    BY <1>0, <1>12, FinishLoginEffect DEF FinishLogin, TypeOK
  <1>13. ASSUME NEW p \in Calls, NEW u \in Users, BeginLogin(p, u) PROVE TypeOK'
    BY <1>0, <1>13, BeginLoginEffect DEF BeginLogin, TypeOK
  <1>14. ASSUME NEW p \in Calls, NEW s \in Sids, BeginLogout(p, s) PROVE TypeOK'
    BY <1>0, <1>14, BeginLogoutEffect DEF BeginLogout, TypeOK
  <1>15. ASSUME NEW p \in Calls, NEW s \in Sids, NEW u \in Users, NEW c \in Changes,
                BeginChange(p, s, u, c)
         PROVE  TypeOK'
    <2>1. call' \in [Calls -> Call] /\ overtaken' \subseteq Calls
      BY <1>0, <1>15, BeginChangeEffect
    <2>2. changes' \in 0..MaxChanges
      BY <1>0, <1>15, BoundsAssumption DEF BeginChange, TypeOK
    <2> QED
      BY <1>0, <1>15, <2>1, <2>2 DEF BeginChange, TypeOK
  <1>16. ASSUME NEW u \in Users, ExpireChallenge(u) PROVE TypeOK'
    <2>1. challenge' \in [Users -> Challenges \cup {None}]
      BY <1>0, <1>16 DEF ExpireChallenge, TypeOK
    <2> QED
      BY <1>0, <1>16, <2>1 DEF ExpireChallenge, TypeOK, history
  <1>17. ASSUME NEW u \in Users, FrejaSession(u) PROVE TypeOK'
    <2>1. sessions' \in [Sids -> Session]
      BY <1>0, <1>17, InsertEffect DEF FrejaSession
    <2> QED
      BY <1>0, <1>17, <2>1 DEF FrejaSession, TypeOK, history
  <1>18. ASSUME NEW c \in Challenges, Sign(c) PROVE TypeOK'
    <2> DEFINE S == {d \in Challenges : ceremony[d].user = ceremony[c].user
                                        /\ ceremony[d].count > 0}
    <2>1. Cardinality(S) \in Nat
      BY Counted
    <2>2. Cardinality(S) < MaxCount
          /\ ceremony' = [ceremony EXCEPT ![c].count = Cardinality(S) + 1]
      BY <1>18 DEF Sign
    <2> HIDE DEF S
    <2>3. Cardinality(S) + 1 \in 0..MaxCount
      BY <2>1, <2>2, BoundsAssumption
    <2>4. ceremony' \in [Challenges -> [user: Users \cup {None}, count: 0..MaxCount]]
      BY <1>0, <2>2, <2>3 DEF TypeOK
    <2> QED
      BY <1>0, <1>18, <2>4 DEF Sign, TypeOK, history
  <1>19. ASSUME NEW s \in Sids, ExpireSession(s) PROVE TypeOK'
    <2>1. sessions' \in [Sids -> Session]
      BY <1>0, <1>19 DEF ExpireSession, TypeOK, Session
    <2> QED
      BY <1>0, <1>19, <2>1 DEF ExpireSession, TypeOK
  <1> QED
    BY <1>1, <1>2, <1>3, <1>4, <1>5, <1>6, <1>7, <1>8, <1>9, <1>10, <1>11, <1>12,
       <1>13, <1>14, <1>15, <1>16, <1>17, <1>18, <1>19 DEF Next, Handle

-----------------------------------------------------------------------------
(* Rows, and what requests carry. *)

\* The steps that write sessions: each leaves a row its user and its challenge, or
\* fills an unused one; and one that ended never works again.
SessionsGrow ==
  \A s \in Sids :
    /\ sessions[s].state # "unused" =>
         /\ sessions'[s].state # "unused"
         /\ sessions'[s].user = sessions[s].user
         /\ sessions'[s].chal = sessions[s].chal
    /\ sessions[s].state = "unused" /\ sessions'[s].state # "unused" =>
         sessions'[s].user \in Users
    /\ sessions[s].state = "unused" /\ sessions'[s].state = "unused" =>
         sessions'[s] = sessions[s]
    /\ sessions[s].state \in {"expired", "gone"} => sessions'[s].state # "live"
    /\ sessions[s].state = "live" /\ sessions'[s].state = "gone" =>
         \E p \in Calls : At(p, "logout") /\ call[p].sid = s

LEMMA SessionsStep ==
  ASSUME IInv, Next
  PROVE  SessionsGrow
  <1>0. TypeOK /\ RowInv
    BY DEF IInv
  <1>1. ASSUME CleanupSessions PROVE SessionsGrow
    <2> DEFINE S == {s \in Sids : sessions[s].state = "expired"}
    <2>1. sessions' = [s \in Sids |-> IF s \in S THEN [sessions[s] EXCEPT !.state = "gone"]
                                                 ELSE sessions[s]]
      BY <1>1 DEF CleanupSessions
    <2>2. S \in SUBSET Sids /\ \A s \in S : sessions[s].state = "expired"
      OBVIOUS
    <2> HIDE DEF S
    <2>3. \A s \in Sids : /\ sessions'[s].user = sessions[s].user
                          /\ sessions'[s].chal = sessions[s].chal
                          /\ sessions'[s].state =
                               IF s \in S THEN "gone" ELSE sessions[s].state
      BY <1>0, <2>1, <2>2, EndEffect
    <2>4. \A s \in Sids \ S : sessions'[s] = sessions[s]
      BY <2>1
    <2> QED
      BY <2>2, <2>3, <2>4 DEF SessionsGrow
  <1>2. ASSUME NEW p \in Calls, CreateSession(p) PROVE SessionsGrow
    <2>1. call[p].user \in Users /\ call[p].chal \in Challenges
      BY <1>2, Known DEF CreateSession, At, Idle, Carries, Answers
    <2> QED
      BY <1>0, <1>2, <2>1, InsertEffect DEF CreateSession, SessionsGrow
  <1>3. ASSUME NEW p \in Calls, Logout(p) PROVE SessionsGrow
    <2>1. /\ call[p].sid \in Sids /\ At(p, "logout")
          /\ sessions[call[p].sid].state # "unused"
          /\ \A s \in Sids : /\ sessions'[s].user = sessions[s].user
                             /\ sessions'[s].chal = sessions[s].chal
                             /\ sessions'[s].state = IF s = call[p].sid THEN "gone"
                                                     ELSE sessions[s].state
      BY <1>3, LogoutEffect DEF Logout
    <2>2. \A s \in Sids \ {call[p].sid} : sessions'[s] = sessions[s]
      BY <1>0, <1>3 DEF Logout, TypeOK
    <2> QED
      BY <2>1, <2>2 DEF SessionsGrow
  <1>4. ASSUME NEW u \in Users, FrejaSession(u) PROVE SessionsGrow
    BY <1>0, <1>4, InsertEffect DEF FrejaSession, SessionsGrow
  <1>5. ASSUME NEW s \in Sids, ExpireSession(s) PROVE SessionsGrow
    <2>1. /\ sessions'[s].state = "expired" /\ sessions[s].state = "live"
          /\ sessions'[s].user = sessions[s].user /\ sessions'[s].chal = sessions[s].chal
          /\ \A t \in Sids \ {s} : sessions'[t] = sessions[t]
      BY <1>0, <1>5 DEF ExpireSession, TypeOK, Session
    <2> QED
      BY <2>1 DEF SessionsGrow
  <1>6. ASSUME UNCHANGED sessions PROVE SessionsGrow
    BY <1>0, <1>6 DEF SessionsGrow
  <1> QED
    BY <1>1, <1>2, <1>3, <1>4, <1>5, <1>6
       DEF Next, Handle, Crash, StoreChallenge, TakeChallenge, ReadCount, StoreCount,
           SetUser, CallHook, Disconnect, FinishLogin, BeginLogin, BeginLogout,
           BeginChange, ExpireChallenge, Sign

\* A challenge stays its user's, and stays signed.
CeremonyGrows ==
  \A c \in Challenges :
    /\ ceremony[c].user # None => ceremony'[c].user = ceremony[c].user
    /\ ceremony[c].count > 0 => ceremony'[c].count > 0

LEMMA CeremonyStep ==
  ASSUME IInv, Next
  PROVE  CeremonyGrows
  <1>0. TypeOK
    BY DEF IInv
  <1>1. ASSUME NEW p \in Calls, StoreChallenge(p) PROVE CeremonyGrows
    BY <1>0, <1>1 DEF StoreChallenge, TypeOK, CeremonyGrows
  <1>2. ASSUME NEW c \in Challenges, Sign(c) PROVE CeremonyGrows
    <2> DEFINE n == Cardinality({d \in Challenges : ceremony[d].user = ceremony[c].user
                                                    /\ ceremony[d].count > 0}) + 1
    <2>1. ceremony' = [ceremony EXCEPT ![c].count = n] /\ ceremony[c].count = 0
      BY <1>2 DEF Sign
    <2> HIDE DEF n
    <2> QED
      BY <1>0, <2>1 DEF TypeOK, CeremonyGrows
  <1>3. ASSUME UNCHANGED ceremony PROVE CeremonyGrows
    BY <1>3 DEF CeremonyGrows
  <1> QED
    BY <1>1, <1>2, <1>3
       DEF Next, Handle, Crash, CleanupSessions, TakeChallenge, ReadCount, StoreCount,
           CreateSession, Logout, SetUser, CallHook, Disconnect, FinishLogin, BeginLogin,
           BeginLogout, BeginChange, ExpireChallenge, FrejaSession, ExpireSession

LEMMA RowStep ==
  ASSUME IInv, Next
  PROVE  RowInv'
  <1>0. TypeOK /\ RowInv /\ SessionsGrow /\ CeremonyGrows /\ TypeOK'
    BY SessionsStep, CeremonyStep, TypeStep DEF IInv
  <1>1. /\ \A s \in Sids : sessions'[s].state # "unused" => sessions'[s].user \in Users
        /\ \A s \in Sids : sessions'[s].state = "unused" => sessions'[s].chal = None
    BY <1>0 DEF RowInv, SessionsGrow
  <1>2. ASSUME NEW p \in Calls, StoreChallenge(p) PROVE RowInv'
    <2>1. call[p].user \in Users
      BY <1>2, Known DEF StoreChallenge, At, Idle, Carries
    <2>2. PICK c \in Challenges :
            /\ ceremony[c].user = None
            /\ ceremony' = [ceremony EXCEPT ![c].user = call[p].user]
            /\ challenge' = [challenge EXCEPT ![call[p].user] = c]
      BY <1>2 DEF StoreChallenge
    <2>3. \A u \in Users : challenge'[u] # None => ceremony'[challenge'[u]].user = u
      BY <1>0, <2>1, <2>2, NoneAssumption DEF TypeOK, RowInv
    <2>4. \A d \in Challenges : ceremony'[d].count > 0 => ceremony'[d].user # None
      BY <1>0, <2>1, <2>2, NoneAssumption DEF TypeOK, RowInv
    <2> QED
      BY <1>1, <2>3, <2>4 DEF RowInv
  <1>3. ASSUME NEW c \in Challenges, Sign(c) PROVE RowInv'
    <2> DEFINE n == Cardinality({d \in Challenges : ceremony[d].user = ceremony[c].user
                                                    /\ ceremony[d].count > 0}) + 1
    <2>1. /\ ceremony' = [ceremony EXCEPT ![c].count = n] /\ ceremony[c].user # None
          /\ UNCHANGED challenge
      BY <1>3 DEF Sign
    <2> HIDE DEF n
    <2>2. \A d \in Challenges : /\ ceremony'[d].user = ceremony[d].user
                                /\ d # c => ceremony'[d] = ceremony[d]
      BY <1>0, <2>1 DEF TypeOK
    <2>3. \A u \in Users : challenge'[u] # None => ceremony'[challenge'[u]].user = u
      BY <1>0, <2>1, <2>2 DEF TypeOK, RowInv
    <2> QED
      BY <1>0, <1>1, <2>1, <2>2, <2>3 DEF RowInv
  <1>4. ASSUME UNCHANGED ceremony, \A u \in Users : challenge'[u] \in {challenge[u], None}
        PROVE  RowInv'
    BY <1>0, <1>1, <1>4 DEF RowInv
  <1>5. ASSUME NEW p \in Calls, TakeChallenge(p) PROVE RowInv'
    BY <1>0, <1>4, <1>5 DEF TakeChallenge, TypeOK
  <1>6. ASSUME NEW u \in Users, ExpireChallenge(u) PROVE RowInv'
    BY <1>0, <1>4, <1>6 DEF ExpireChallenge, TypeOK
  <1>7. ASSUME UNCHANGED <<ceremony, challenge>> PROVE RowInv'
    BY <1>4, <1>7
  <1> QED
    BY <1>2, <1>3, <1>5, <1>6, <1>7
       DEF Next, Handle, Crash, CleanupSessions, ReadCount, StoreCount,
           CreateSession, Logout, SetUser, CallHook, Disconnect, FinishLogin, BeginLogin,
           BeginLogout, BeginChange, FrejaSession, ExpireSession

LEMMA CarriesStep ==
  ASSUME IInv, Next
  PROVE  \A q \in Calls : Carries(q)'
  <1>0. /\ TypeOK /\ RowInv /\ CeremonyGrows /\ SessionsGrow
        /\ \A q \in Calls : Carries(q)
    BY CeremonyStep, SessionsStep DEF IInv
  <1>a. ASSUME NEW q \in Calls, call'[q] = call[q] PROVE Carries(q)'
    BY <1>0, <1>a, NoneAssumption
       DEF Carries, Idle, Answers, CeremonyGrows, SessionsGrow
  <1>b. ASSUME NEW q \in Calls, call'[q].pc = "idle" PROVE Carries(q)'
    BY <1>b DEF Carries, Idle, Answers
  <1>c. ASSUME NEW p \in Calls, OthersKeep(p), Carries(p)'
        PROVE  \A q \in Calls : Carries(q)'
    BY <1>a, <1>c DEF OthersKeep
  \* A request that goes on with what it has.
  <1>d. ASSUME NEW p \in Calls, call'[p].user = call[p].user, call'[p].chal = call[p].chal,
               call'[p].target = call[p].target,
               call'[p].pc \in {"read", "count", "insert", "hook"},
               ~Idle(p), Answers(p)' => Answers(p),
               At(p, "hook")' => At(p, "change")
        PROVE  Carries(p)'
    BY <1>0, <1>d, NoneAssumption DEF Carries, Idle, Answers, CeremonyGrows, At
  <1>1. ASSUME Crash PROVE \A q \in Calls : Carries(q)'
    BY <1>1, <1>b, NoCallIdle DEF Crash
  <1>2. ASSUME NEW p \in Calls, StoreChallenge(p) PROVE \A q \in Calls : Carries(q)'
    BY <1>0, <1>2, <1>b, <1>c, ReturnEffect DEF StoreChallenge
  <1>3. ASSUME NEW p \in Calls, TakeChallenge(p) PROVE \A q \in Calls : Carries(q)'
    <2>1. CASE Goto(p, "read")
      <3>1. OthersKeep(p) /\ Carries(p)'
        BY <1>0, <1>3, <1>d, <2>1, GotoEffect DEF TakeChallenge, Idle, At, Answers
      <3> QED
        BY <3>1, <1>c
    <2>2. CASE Return(p)
      BY <1>0, <1>b, <1>c, <2>2, ReturnEffect
    <2> QED
      BY <1>3, <2>1, <2>2 DEF TakeChallenge
  <1>4. ASSUME NEW p \in Calls, ReadCount(p) PROVE \A q \in Calls : Carries(q)'
    <2>1. At(p, "read") /\ call[p].user \in Users
      BY <1>0, <1>4 DEF ReadCount, At, Idle, Carries
    <2>2. OthersKeep(p) /\ call'[p].pc = "count" /\ call'[p].user = call[p].user
          /\ call'[p].chal = call[p].chal
      BY <1>0, <1>4, <2>1, ReadCountEffect
    <2>3. Carries(p)'
      BY <1>0, <2>1, <2>2, NoneAssumption DEF Carries, Idle, Answers, CeremonyGrows, At
    <2> QED
      BY <1>c, <2>2, <2>3
  <1>5. ASSUME NEW p \in Calls, StoreCount(p) PROVE \A q \in Calls : Carries(q)'
    <2>1. OthersKeep(p) /\ Carries(p)'
      BY <1>0, <1>5, <1>d, GotoEffect DEF StoreCount, Idle, At, Answers
    <2> QED
      BY <2>1, <1>c
  <1>6. ASSUME NEW p \in Calls, CreateSession(p) PROVE \A q \in Calls : Carries(q)'
    BY <1>0, <1>6, <1>b, <1>c, ReturnEffect DEF CreateSession
  <1>7. ASSUME NEW p \in Calls, Logout(p) PROVE \A q \in Calls : Carries(q)'
    BY <1>7, <1>b, <1>c, LogoutEffect
  <1>8. ASSUME NEW p \in Calls, SetUser(p) PROVE \A q \in Calls : Carries(q)'
    <2>1. OthersKeep(p) /\ Carries(p)'
      BY <1>0, <1>8, <1>d, GotoEffect DEF SetUser, Idle, At, Answers
    <2> QED
      BY <2>1, <1>c
  <1>9. ASSUME NEW p \in Calls, CallHook(p) PROVE \A q \in Calls : Carries(q)'
    BY <1>0, <1>9, <1>b, <1>c, ReturnEffect DEF CallHook
  <1>10. ASSUME NEW p \in Calls, Disconnect(p) PROVE \A q \in Calls : Carries(q)'
    <2>1. CASE At(p, "change") /\ Goto(p, "hook")
      <3>1. OthersKeep(p) /\ Carries(p)'
        BY <1>0, <1>d, <2>1, GotoEffect DEF Idle, At, Answers
      <3> QED
        BY <3>1, <1>c
    <2>2. CASE Return(p)
      BY <1>0, <1>b, <1>c, <2>2, ReturnEffect
    <2> QED
      BY <1>10, <2>1, <2>2 DEF Disconnect
  <1>11. ASSUME NEW p \in Calls, NEW c \in Challenges, FinishLogin(p, c)
         PROVE  \A q \in Calls : Carries(q)'
    <2>1. UNCHANGED ceremony
      BY <1>11 DEF FinishLogin
    <2> QED
      BY <1>0, <1>11, <1>c, <2>1, FinishLoginEffect DEF Carries, Idle, Answers
  <1>12. ASSUME NEW p \in Calls, NEW u \in Users, BeginLogin(p, u)
         PROVE  \A q \in Calls : Carries(q)'
    BY <1>0, <1>12, <1>c, BeginLoginEffect DEF Carries, Idle, Answers
  <1>13. ASSUME NEW p \in Calls, NEW s \in Sids, BeginLogout(p, s)
         PROVE  \A q \in Calls : Carries(q)'
    <2>1. UNCHANGED sessions
      BY <1>13 DEF BeginLogout
    <2> QED
      BY <1>0, <1>13, <1>c, <2>1, BeginLogoutEffect DEF Carries, Idle, Answers
  <1>14. ASSUME NEW p \in Calls, NEW s \in Sids, NEW u \in Users, NEW c \in Changes,
                BeginChange(p, s, u, c)
         PROVE  \A q \in Calls : Carries(q)'
    <2>1. UNCHANGED sessions
      BY <1>14 DEF BeginChange
    <2> QED
      BY <1>0, <1>14, <1>c, <2>1, BeginChangeEffect DEF Carries, Idle, Answers
  <1>15. ASSUME UNCHANGED call PROVE \A q \in Calls : Carries(q)'
    BY <1>15, <1>a
  <1> QED
    BY <1>1, <1>2, <1>3, <1>4, <1>5, <1>6, <1>7, <1>8, <1>9, <1>10, <1>11, <1>12,
       <1>13, <1>14, <1>15
       DEF Next, Handle, CleanupSessions, ExpireChallenge, FrejaSession, Sign,
           ExpireSession

-----------------------------------------------------------------------------
(* One challenge, one session. *)

LEMMA ChallengeKept ==
  ASSUME IInv,
         \A u \in Users : challenge'[u] \in {challenge[u], None},
         \A s \in Sids : sessions'[s].chal = sessions[s].chal,
         \A q \in Calls : Redeems(q)' => Redeems(q) /\ call'[q].chal = call[q].chal
  PROVE  ChallengeInv'
  <1>1. /\ \A q \in Calls : Redeems(q) => call[q].chal # None
        /\ ChallengeInv
    BY Known, NoneAssumption DEF IInv, Carries, Redeems, Answers
  <1> QED
    BY <1>1 DEF ChallengeInv

LEMMA AssertionKept ==
  ASSUME IInv, SessionsGrow, CeremonyGrows,
         \A s \in Sids : sessions'[s].chal # None => sessions[s].chal # None
  PROVE  AssertionSignsInOnce'
  <1>1. TypeOK /\ RowInv /\ AssertionSignsInOnce
    BY DEF IInv
  <1>2. \A s \in Sids : sessions'[s].chal # None =>
          /\ sessions'[s].chal = sessions[s].chal
          /\ sessions'[s].user = sessions[s].user
          /\ sessions[s].chal \in Challenges
    BY <1>1 DEF RowInv, SessionsGrow, TypeOK, Session
  <1>3. \A s \in Sids : sessions'[s].chal # None =>
          /\ ceremony'[sessions'[s].chal].user = sessions'[s].user
          /\ ceremony'[sessions'[s].chal].count > 0
    BY <1>1, <1>2 DEF RowInv, CeremonyGrows, AssertionSignsInOnce
  <1>4. \A s \in Sids : sessions'[s].chal # None =>
          \A t \in Sids \ {s} : sessions'[t].chal # sessions'[s].chal
    BY <1>1, <1>2 DEF AssertionSignsInOnce
  <1> QED
    BY <1>3, <1>4 DEF AssertionSignsInOnce

LEMMA ChallengeStep ==
  ASSUME IInv, Next
  PROVE  ChallengeInv' /\ AssertionSignsInOnce'
  <1>0. /\ TypeOK /\ RowInv /\ ChallengeInv /\ AssertionSignsInOnce
        /\ SessionsGrow /\ CeremonyGrows
    BY SessionsStep, CeremonyStep DEF IInv
  <1>known. \A q \in Calls : Redeems(q) =>
              /\ call[q].chal \in Challenges /\ call[q].chal # None
              /\ ceremony[call[q].chal].user = call[q].user
              /\ ceremony[call[q].chal].count > 0 /\ call[q].user \in Users
    BY Known, NoneAssumption DEF Redeems, Answers, Carries, Idle
  <1>a. ASSUME \A s \in Sids : sessions'[s].chal = sessions[s].chal
        PROVE  AssertionSignsInOnce'
    BY <1>0, <1>a, AssertionKept
  <1>b. ASSUME UNCHANGED challenge, \A s \in Sids : sessions'[s].chal = sessions[s].chal,
               \A q \in Calls : Redeems(q)' => Redeems(q) /\ call'[q].chal = call[q].chal
        PROVE  ChallengeInv' /\ AssertionSignsInOnce'
    BY <1>a, <1>b, ChallengeKept
  <1>c. ASSUME NEW p \in Calls, OthersKeep(p),
               Redeems(p)' => Redeems(p) /\ call'[p].chal = call[p].chal
        PROVE  \A q \in Calls : Redeems(q)' => Redeems(q) /\ call'[q].chal = call[q].chal
    BY <1>c DEF OthersKeep, Redeems
  <1>1. ASSUME Crash PROVE ChallengeInv' /\ AssertionSignsInOnce'
    BY <1>1, <1>b, NoCallIdle DEF Crash, Redeems
  <1>2. ASSUME NEW p \in Calls, StoreChallenge(p)
        PROVE  ChallengeInv' /\ AssertionSignsInOnce'
    <2>1. /\ OthersKeep(p) /\ call'[p].pc = "idle" /\ call[p].user \in Users
          /\ UNCHANGED sessions
      BY <1>0, <1>2, ReturnEffect, Known DEF StoreChallenge, At, Idle, Carries
    <2>2. PICK c \in Challenges :
            /\ ceremony[c].user = None
            /\ challenge' = [challenge EXCEPT ![call[p].user] = c]
      BY <1>2 DEF StoreChallenge
    <2>3. \A u \in Users : challenge'[u] \in {challenge[u], c}
      BY <1>0, <2>1, <2>2 DEF TypeOK
    <2>4. \A q \in Calls : Redeems(q) => call[q].chal # c
      BY <1>known, <2>2, NoneAssumption
    <2>5. \A s \in Sids : sessions[s].chal # None => sessions[s].chal # c
      <3>1. \A s \in Sids : sessions[s].chal # None =>
              /\ sessions[s].state # "unused"
              /\ ceremony[sessions[s].chal].user = sessions[s].user
        BY <1>0 DEF RowInv, AssertionSignsInOnce
      <3> QED
        BY <1>0, <2>2, <3>1, NoneAssumption DEF RowInv
    <2>6. \A q \in Calls : Redeems(q)' => Redeems(q) /\ call'[q] = call[q]
      BY <2>1 DEF OthersKeep, Redeems
    <2>7. ChallengeInv'
      BY <1>0, <2>1, <2>3, <2>4, <2>5, <2>6 DEF ChallengeInv
    <2> QED
      BY <1>a, <2>1, <2>7
  <1>3. ASSUME NEW p \in Calls, TakeChallenge(p)
        PROVE  ChallengeInv' /\ AssertionSignsInOnce'
    <2>1. /\ UNCHANGED sessions /\ challenge' = [challenge EXCEPT ![call[p].user] = None]
          /\ At(p, "take") /\ Answers(p)
      BY <1>3 DEF TakeChallenge, At, Answers
    <2>2. \A u \in Users : challenge'[u] \in {challenge[u], None}
      BY <1>0, <2>1 DEF TypeOK
    <2>3. CASE Return(p)
      <3>1. \A q \in Calls : Redeems(q)' => Redeems(q) /\ call'[q].chal = call[q].chal
        BY <1>0, <1>c, <2>3, ReturnEffect DEF Redeems
      <3> QED
        BY <1>a, <2>1, <2>2, <3>1, ChallengeKept
    <2>4. CASE challenge[call[p].user] = call[p].chal /\ Goto(p, "read")
      <3> DEFINE h == call[p].chal
      <3>1. /\ OthersKeep(p) /\ call'[p].pc = "read" /\ call'[p].chal = h
        BY <1>0, <2>4, GotoEffect
      <3>2. /\ h \in Challenges /\ h # None /\ call[p].user \in Users
            /\ ceremony[h].user = call[p].user
        BY <2>1, Known, NoneAssumption DEF Carries, Answers, At, Idle
      <3>3. \A u \in Users : challenge'[u] # h
        BY <1>0, <2>1, <2>2, <3>2 DEF RowInv, TypeOK
      <3>4. \A s \in Sids : sessions'[s].chal # h
        BY <1>0, <2>1, <2>4, <3>2 DEF ChallengeInv
      <3>5. \A q \in Calls \ {p} : Redeems(q) => call[q].chal # h
        BY <1>0, <2>4, <3>2 DEF ChallengeInv
      <3> HIDE DEF h
      <3>6. \A q \in Calls \ {p} : call'[q] = call[q] /\ (Redeems(q)' <=> Redeems(q))
        BY <3>1 DEF OthersKeep, Redeems
      <3>7. \A s \in Sids : sessions'[s].chal # None =>
              \A u \in Users : challenge'[u] # sessions'[s].chal
        BY <1>0, <2>1, <2>2 DEF ChallengeInv
      <3>8. \A q \in Calls \ {p} : Redeems(q)' =>
              /\ \A u \in Users : challenge'[u] # call'[q].chal
              /\ \A s \in Sids : sessions'[s].chal # call'[q].chal
              /\ \A r \in Calls \ {q} : Redeems(r)' => call'[r].chal # call'[q].chal
        BY <1>0, <1>known, <2>1, <2>2, <3>1, <3>5, <3>6 DEF ChallengeInv
      <3>9. ChallengeInv'
        BY <3>1, <3>3, <3>4, <3>5, <3>6, <3>7, <3>8 DEF ChallengeInv
      <3> QED
        BY <1>a, <2>1, <3>9
    <2> QED
      BY <1>3, <2>3, <2>4 DEF TakeChallenge
  <1>4. ASSUME NEW p \in Calls, ReadCount(p)
        PROVE  ChallengeInv' /\ AssertionSignsInOnce'
    <2>1. call[p].user \in Users /\ Redeems(p) /\ UNCHANGED <<challenge, sessions>>
      BY <1>known, <1>4 DEF ReadCount, At, Redeems
    <2>2. OthersKeep(p) /\ call'[p].chal = call[p].chal
      BY <1>0, <1>4, <2>1, ReadCountEffect
    <2> QED
      BY <1>b, <1>c, <2>1, <2>2
  <1>5. ASSUME NEW p \in Calls, StoreCount(p)
        PROVE  ChallengeInv' /\ AssertionSignsInOnce'
    <2>1. Redeems(p) /\ UNCHANGED <<challenge, sessions>>
      BY <1>5 DEF StoreCount, At, Redeems, history
    <2>2. OthersKeep(p) /\ call'[p].chal = call[p].chal
      BY <1>0, <1>5, GotoEffect DEF StoreCount
    <2> QED
      BY <1>b, <1>c, <2>1, <2>2
  <1>6. ASSUME NEW p \in Calls, CreateSession(p)
        PROVE  ChallengeInv' /\ AssertionSignsInOnce'
    <2> DEFINE h == call[p].chal
    <2>1. /\ Redeems(p) /\ OthersKeep(p) /\ call'[p].pc = "idle"
          /\ UNCHANGED <<challenge, ceremony>>
      BY <1>0, <1>6, ReturnEffect DEF CreateSession, At, Redeems
    <2>2. PICK s \in Sids : InsertSession(s, call[p].user, h)
      BY <1>6 DEF CreateSession
    <2>3. /\ h \in Challenges /\ h # None /\ call[p].user \in Users
          /\ ceremony[h].user = call[p].user /\ ceremony[h].count > 0
      BY <1>known, <2>1
    <2>4. /\ sessions'[s].user = call[p].user /\ sessions'[s].chal = h
          /\ \A t \in Sids \ {s} : sessions'[t] = sessions[t]
      BY <1>0, <2>2, <2>3, InsertEffect
    <2>5. /\ \A u \in Users : challenge[u] # h
          /\ \A t \in Sids : sessions[t].chal # h
          /\ \A q \in Calls \ {p} : Redeems(q) => call[q].chal # h
      BY <1>0, <2>1 DEF ChallengeInv
    <2>6. \A q \in Calls : Redeems(q)' => Redeems(q) /\ call'[q] = call[q] /\ q # p
      BY <2>1 DEF OthersKeep, Redeems
    <2> HIDE DEF h
    <2>7. ChallengeInv'
      BY <1>0, <2>1, <2>4, <2>5, <2>6 DEF ChallengeInv
    <2>8. AssertionSignsInOnce'
      BY <1>0, <2>1, <2>3, <2>4, <2>5 DEF AssertionSignsInOnce
    <2> QED
      BY <2>7, <2>8
  <1>7. ASSUME NEW p \in Calls, Logout(p)
        PROVE  ChallengeInv' /\ AssertionSignsInOnce'
    <2>1. UNCHANGED challenge /\ ~Redeems(p)
      BY <1>7 DEF Logout, At, Redeems
    <2> QED
      BY <1>7, <1>b, <1>c, <2>1, LogoutEffect DEF Redeems
  <1>8. ASSUME NEW p \in Calls, SetUser(p)
        PROVE  ChallengeInv' /\ AssertionSignsInOnce'
    BY <1>0, <1>8, <1>b, <1>c, GotoEffect DEF SetUser, Redeems
  <1>9. ASSUME NEW p \in Calls, CallHook(p)
        PROVE  ChallengeInv' /\ AssertionSignsInOnce'
    BY <1>0, <1>9, <1>b, <1>c, ReturnEffect DEF CallHook, Redeems
  <1>10. ASSUME NEW p \in Calls, Disconnect(p)
         PROVE  ChallengeInv' /\ AssertionSignsInOnce'
    <2>1. OthersKeep(p) /\ call'[p].pc \in {"idle", "hook"}
      BY <1>0, <1>10, ReturnEffect, GotoEffect DEF Disconnect
    <2> QED
      BY <1>10, <1>b, <1>c, <2>1 DEF Disconnect, Redeems
  <1>11. ASSUME NEW p \in Calls, NEW c \in Challenges, FinishLogin(p, c)
         PROVE  ChallengeInv' /\ AssertionSignsInOnce'
    <2>1. UNCHANGED <<challenge, sessions>>
      BY <1>11 DEF FinishLogin
    <2> QED
      BY <1>0, <1>11, <1>b, <1>c, <2>1, FinishLoginEffect DEF Redeems
  <1>12. ASSUME NEW p \in Calls, NEW u \in Users, BeginLogin(p, u)
         PROVE  ChallengeInv' /\ AssertionSignsInOnce'
    <2>1. UNCHANGED <<challenge, sessions>>
      BY <1>12 DEF BeginLogin
    <2> QED
      BY <1>0, <1>12, <1>b, <1>c, <2>1, BeginLoginEffect DEF Redeems
  <1>13. ASSUME NEW p \in Calls, NEW s \in Sids, BeginLogout(p, s)
         PROVE  ChallengeInv' /\ AssertionSignsInOnce'
    <2>1. UNCHANGED <<challenge, sessions>>
      BY <1>13 DEF BeginLogout
    <2> QED
      BY <1>0, <1>13, <1>b, <1>c, <2>1, BeginLogoutEffect DEF Redeems
  <1>14. ASSUME NEW p \in Calls, NEW s \in Sids, NEW u \in Users, NEW c \in Changes,
                BeginChange(p, s, u, c)
         PROVE  ChallengeInv' /\ AssertionSignsInOnce'
    <2>1. UNCHANGED <<challenge, sessions>>
      BY <1>14 DEF BeginChange
    <2> QED
      BY <1>0, <1>14, <1>b, <1>c, <2>1, BeginChangeEffect DEF Redeems
  <1>d. ASSUME UNCHANGED call
        PROVE  \A q \in Calls : Redeems(q)' => Redeems(q) /\ call'[q].chal = call[q].chal
    BY <1>d DEF Redeems
  <1>15. ASSUME NEW u \in Users, ExpireChallenge(u)
         PROVE  ChallengeInv' /\ AssertionSignsInOnce'
    <2>1. \A v \in Users : challenge'[v] \in {challenge[v], None}
      BY <1>0, <1>15 DEF ExpireChallenge, TypeOK
    <2> QED
      BY <1>15, <1>a, <1>d, <2>1, ChallengeKept DEF ExpireChallenge
  <1>16. ASSUME NEW u \in Users, FrejaSession(u)
         PROVE  ChallengeInv' /\ AssertionSignsInOnce'
    <2>1. \A s \in Sids : sessions'[s].chal = sessions[s].chal
      BY <1>0, <1>16, InsertEffect DEF FrejaSession, RowInv
    <2> QED
      BY <1>16, <1>b, <1>d, <2>1 DEF FrejaSession
  <1>17. ASSUME NEW c \in Challenges, Sign(c)
         PROVE  ChallengeInv' /\ AssertionSignsInOnce'
    BY <1>17, <1>b, <1>d DEF Sign
  <1>18. ASSUME NEW s \in Sids, ExpireSession(s)
         PROVE  ChallengeInv' /\ AssertionSignsInOnce'
    <2>1. \A t \in Sids : sessions'[t].chal = sessions[t].chal
      BY <1>0, <1>18 DEF ExpireSession, TypeOK, Session
    <2> QED
      BY <1>18, <1>b, <1>d, <2>1 DEF ExpireSession
  <1>19. ASSUME CleanupSessions PROVE ChallengeInv' /\ AssertionSignsInOnce'
    <2>1. \A t \in Sids : sessions'[t].chal = sessions[t].chal
      BY <1>0, <1>19 DEF CleanupSessions, TypeOK, Session
    <2> QED
      BY <1>19, <1>b, <1>d, <2>1 DEF CleanupSessions
  <1> QED
    BY <1>1, <1>2, <1>3, <1>4, <1>5, <1>6, <1>7, <1>8, <1>9, <1>10, <1>11, <1>12,
       <1>13, <1>14, <1>15, <1>16, <1>17, <1>18, <1>19 DEF Next, Handle

-----------------------------------------------------------------------------
(* Signature counts. *)

\* A request that leaves the point before its UPDATE without making it counts as
\* crossed.
LEMMA CountKept ==
  ASSUME IInv, UNCHANGED <<count, highest>>, crossed \subseteq crossed',
         \A q \in Calls : At(q, "count")' => At(q, "count") /\ call'[q] = call[q],
         \A q \in Calls : At(q, "count") =>
           \/ At(q, "count")' /\ call'[q] = call[q]
           \/ call[q].user \in crossed'
  PROVE  CountInv' /\ CountBehindOnlyByCrossing'
  <1>0. CountInv /\ CountBehindOnlyByCrossing
    BY DEF IInv
  <1>1. ASSUME NEW u \in Users PROVE Counting(u)' \subseteq Counting(u)
    BY DEF Counting
  <1>2. ASSUME NEW u \in Users, u \notin crossed' PROVE Counting(u)' = Counting(u)
    BY <1>2 DEF Counting
  <1>4. CountInv'
    <2> SUFFICES ASSUME NEW q \in Calls, NEW u \in Users, At(q, "count")',
                        call'[q].user = u, u \notin crossed'
                 PROVE  call'[q].count = highest'[u] /\ Counting(u)' = {q}
      BY DEF CountInv
    <2>1. At(q, "count") /\ call'[q] = call[q] /\ u \notin crossed
      OBVIOUS
    <2>2. call[q].count = highest[u] /\ Counting(u) = {q}
      BY <1>0, <2>1 DEF CountInv
    <2> QED
      BY <1>2, <2>1, <2>2
  <1>5. CountBehindOnlyByCrossing'
    BY <1>0, <1>2 DEF CountBehindOnlyByCrossing
  <1> QED
    BY <1>4, <1>5

LEMMA CountStep ==
  ASSUME IInv, Next
  PROVE  CountInv' /\ CountBehindOnlyByCrossing'
  <1>0. TypeOK /\ RowInv /\ CountInv /\ CountBehindOnlyByCrossing
    BY DEF IInv
  <1>a. ASSUME UNCHANGED <<count, highest, crossed>>, NEW p \in Calls, OthersKeep(p),
               ~At(p, "count"), ~At(p, "count")'
        PROVE  CountInv' /\ CountBehindOnlyByCrossing'
    <2>1. \A q \in Calls : (At(q, "count") \/ At(q, "count")') => call'[q] = call[q]
      BY <1>a DEF OthersKeep
    <2>2. \A q \in Calls : At(q, "count")' <=> At(q, "count")
      BY <2>1 DEF At
    <2> QED
      BY <1>a, <2>1, <2>2, CountKept
  <1>b. ASSUME UNCHANGED <<count, highest, crossed, call>>
        PROVE  CountInv' /\ CountBehindOnlyByCrossing'
    BY <1>b, CountKept DEF At
  <1>1. ASSUME Crash PROVE CountInv' /\ CountBehindOnlyByCrossing'
    <2>1. \A q \in Calls : ~At(q, "count")'
      BY <1>1, NoCallIdle DEF Crash, At
    <2>2. \A q \in Calls : At(q, "count") => call[q].user \in crossed'
      BY <1>1 DEF Crash
    <2> QED
      BY <1>1, <2>1, <2>2, CountKept DEF Crash
  <1>2. ASSUME NEW p \in Calls, ReadCount(p)
        PROVE  CountInv' /\ CountBehindOnlyByCrossing'
    <2>1. PICK u \in Users : call[p].user = u
      BY <1>2, Known DEF ReadCount, At, Idle, Carries
    <2>2. /\ OthersKeep(p) /\ call'[p].pc = "count" /\ call'[p].user = u
          /\ call'[p].count = Highest(count[u], call[p].count)
          /\ highest'[u] = Highest(highest[u], call[p].count)
          /\ \A v \in Users \ {u} : highest'[v] = highest[v]
      BY <1>0, <1>2, <2>1, ReadCountEffect
    <2>3. /\ UNCHANGED count /\ call[p].pc = "read"
          /\ crossed' = IF Counting(u) = {} THEN crossed ELSE crossed \cup {u}
      BY <1>2, <2>1 DEF ReadCount, At
    <2>4. Counting(u)' = Counting(u) \cup {p}
      BY <2>1, <2>2, <2>3 DEF OthersKeep, Counting, At
    <2>5. \A v \in Users \ {u} : Counting(v)' = Counting(v)
      BY <2>1, <2>2, <2>3 DEF OthersKeep, Counting, At
    <2>6. CASE u \in crossed'
      <3>1. ASSUME NEW q \in Calls, NEW v \in Users, At(q, "count")',
                   call'[q].user = v, v \notin crossed'
            PROVE  call'[q].count = highest'[v] /\ Counting(v)' = {q}
        <4>1. q # p /\ call'[q] = call[q] /\ At(q, "count")
          BY <2>2, <2>6, <3>1 DEF OthersKeep, At
        <4>2. v # u /\ v \notin crossed
          BY <2>3, <2>6, <3>1
        <4>3. call[q].count = highest[v] /\ Counting(v) = {q}
          BY <1>0, <3>1, <4>1, <4>2 DEF CountInv
        <4> QED
          BY <2>2, <2>5, <4>1, <4>2, <4>3
      <3>2. CountInv'
        BY <3>1 DEF CountInv
      <3>3. CountBehindOnlyByCrossing'
        BY <1>0, <2>2, <2>3, <2>5, <2>6 DEF CountBehindOnlyByCrossing
      <3> QED
        BY <3>2, <3>3
    <2>7. CASE u \notin crossed'
      <3>1. Counting(u) = {} /\ crossed' = crossed
        BY <2>3, <2>7
      <3>2. count[u] = highest[u]
        BY <1>0, <2>7, <3>1 DEF CountBehindOnlyByCrossing
      <3>3. call'[p].count = highest'[u] /\ Counting(u)' = {p}
        BY <2>2, <2>4, <3>1, <3>2
      <3>4. ASSUME NEW q \in Calls \ {p}, NEW v \in Users, At(q, "count")',
                   call'[q].user = v, v \notin crossed'
            PROVE  call'[q].count = highest'[v] /\ Counting(v)' = {q}
        <4>1. call'[q] = call[q] /\ At(q, "count")
          BY <2>2, <3>4 DEF OthersKeep, At
        <4>2. v # u /\ v \notin crossed
          BY <3>1, <3>4, <4>1 DEF Counting
        <4>3. call[q].count = highest[v] /\ Counting(v) = {q}
          BY <1>0, <3>4, <4>1, <4>2 DEF CountInv
        <4> QED
          BY <2>2, <2>5, <4>1, <4>2, <4>3
      <3>5. CountInv'
        BY <2>2, <3>3, <3>4 DEF CountInv
      <3>6. CountBehindOnlyByCrossing'
        BY <1>0, <2>2, <2>3, <2>5, <3>1, <3>3 DEF CountBehindOnlyByCrossing
      <3> QED
        BY <3>5, <3>6
    <2> QED
      BY <2>6, <2>7
  <1>3. ASSUME NEW p \in Calls, StoreCount(p)
        PROVE  CountInv' /\ CountBehindOnlyByCrossing'
    <2>1. PICK u \in Users : call[p].user = u
      BY <1>3, Known DEF StoreCount, At, Idle, Carries
    <2>2. OthersKeep(p) /\ call'[p].pc = "insert"
      BY <1>0, <1>3, GotoEffect DEF StoreCount
    <2>3. /\ UNCHANGED <<highest, crossed>> /\ At(p, "count")
          /\ count' = [count EXCEPT ![u] = call[p].count]
      BY <1>3, <2>1 DEF StoreCount, history
    <2>4. count'[u] = call[p].count /\ \A v \in Users \ {u} : count'[v] = count[v]
      BY <1>0, <2>3 DEF TypeOK
    <2>5. \A v \in Users \ {u} : Counting(v)' = Counting(v)
      BY <2>1, <2>2, <2>3 DEF OthersKeep, Counting, At
    <2>6. u \in crossed \/ (call[p].count = highest[u] /\ Counting(u) = {p})
      BY <1>0, <2>1, <2>3 DEF CountInv
    <2>7. ASSUME NEW q \in Calls, NEW v \in Users, At(q, "count")',
                 call'[q].user = v, v \notin crossed'
          PROVE  call'[q].count = highest'[v] /\ Counting(v)' = {q}
      <3>1. q # p /\ call'[q] = call[q] /\ At(q, "count")
        BY <2>2, <2>7 DEF OthersKeep, At
      <3>2. v \notin crossed /\ (v = u => q \in Counting(u))
        BY <2>3, <2>7, <3>1 DEF Counting
      <3>3. v # u
        BY <2>6, <3>1, <3>2
      <3>4. call[q].count = highest[v] /\ Counting(v) = {q}
        BY <1>0, <2>7, <3>1, <3>2 DEF CountInv
      <3> QED
        BY <2>3, <2>5, <3>1, <3>3, <3>4
    <2>8. CountInv'
      BY <2>7 DEF CountInv
    <2>9. CountBehindOnlyByCrossing'
      BY <1>0, <2>3, <2>4, <2>5, <2>6 DEF CountBehindOnlyByCrossing
    <2> QED
      BY <2>8, <2>9
  <1>4. ASSUME NEW p \in Calls, Disconnect(p)
        PROVE  CountInv' /\ CountBehindOnlyByCrossing'
    <2>1. /\ OthersKeep(p) /\ ~At(p, "count")' /\ UNCHANGED <<count, highest>>
          /\ crossed' = IF At(p, "count") THEN crossed \cup {call[p].user} ELSE crossed
      BY <1>0, <1>4, ReturnEffect, GotoEffect DEF Disconnect, At
    <2>2. \A q \in Calls \ {p} : call'[q] = call[q] /\ (At(q, "count")' <=> At(q, "count"))
      BY <2>1 DEF OthersKeep, At
    <2> QED
      BY <2>1, <2>2, CountKept
  <1>5. ASSUME NEW p \in Calls, StoreChallenge(p)
        PROVE  CountInv' /\ CountBehindOnlyByCrossing'
    BY <1>0, <1>5, <1>a, ReturnEffect DEF StoreChallenge, At
  <1>6. ASSUME NEW p \in Calls, TakeChallenge(p)
        PROVE  CountInv' /\ CountBehindOnlyByCrossing'
    BY <1>0, <1>6, <1>a, ReturnEffect, GotoEffect DEF TakeChallenge, At
  <1>7. ASSUME NEW p \in Calls, CreateSession(p)
        PROVE  CountInv' /\ CountBehindOnlyByCrossing'
    BY <1>0, <1>7, <1>a, ReturnEffect DEF CreateSession, At
  <1>8. ASSUME NEW p \in Calls, Logout(p)
        PROVE  CountInv' /\ CountBehindOnlyByCrossing'
    <2>1. UNCHANGED <<count, highest, crossed>> /\ ~At(p, "count")
      BY <1>8 DEF Logout, At
    <2> QED
      BY <1>8, <1>a, <2>1, LogoutEffect DEF At
  <1>9. ASSUME NEW p \in Calls, SetUser(p)
        PROVE  CountInv' /\ CountBehindOnlyByCrossing'
    BY <1>0, <1>9, <1>a, GotoEffect DEF SetUser, At
  <1>10. ASSUME NEW p \in Calls, CallHook(p)
         PROVE  CountInv' /\ CountBehindOnlyByCrossing'
    BY <1>0, <1>10, <1>a, ReturnEffect DEF CallHook, At
  <1>11. ASSUME NEW p \in Calls, NEW c \in Challenges, FinishLogin(p, c)
         PROVE  CountInv' /\ CountBehindOnlyByCrossing'
    <2>1. UNCHANGED <<count, highest, crossed>> /\ ~At(p, "count")
      BY <1>11 DEF FinishLogin, Idle, At
    <2> QED
      BY <1>0, <1>11, <1>a, <2>1, FinishLoginEffect DEF At
  <1>12. ASSUME NEW p \in Calls, NEW u \in Users, BeginLogin(p, u)
         PROVE  CountInv' /\ CountBehindOnlyByCrossing'
    <2>1. UNCHANGED <<count, highest, crossed>> /\ ~At(p, "count")
      BY <1>12 DEF BeginLogin, Idle, At
    <2> QED
      BY <1>0, <1>12, <1>a, <2>1, BeginLoginEffect DEF At
  <1>13. ASSUME NEW p \in Calls, NEW s \in Sids, BeginLogout(p, s)
         PROVE  CountInv' /\ CountBehindOnlyByCrossing'
    <2>1. UNCHANGED <<count, highest, crossed>> /\ ~At(p, "count")
      BY <1>13 DEF BeginLogout, Idle, At
    <2> QED
      BY <1>0, <1>13, <1>a, <2>1, BeginLogoutEffect DEF At
  <1>14. ASSUME NEW p \in Calls, NEW s \in Sids, NEW u \in Users, NEW c \in Changes,
                BeginChange(p, s, u, c)
         PROVE  CountInv' /\ CountBehindOnlyByCrossing'
    <2>1. UNCHANGED <<count, highest, crossed>> /\ ~At(p, "count")
      BY <1>14 DEF BeginChange, Idle, At
    <2> QED
      BY <1>0, <1>14, <1>a, <2>1, BeginChangeEffect DEF At
  <1>15. ASSUME CleanupSessions \/ (\E u \in Users : ExpireChallenge(u) \/ FrejaSession(u))
                \/ \E c \in Challenges : Sign(c)
         PROVE  CountInv' /\ CountBehindOnlyByCrossing'
    BY <1>15, <1>b DEF CleanupSessions, ExpireChallenge, FrejaSession, Sign, history
  <1>16. ASSUME NEW s \in Sids, ExpireSession(s)
         PROVE  CountInv' /\ CountBehindOnlyByCrossing'
    BY <1>16, <1>b DEF ExpireSession
  <1> QED
    BY <1>1, <1>2, <1>3, <1>4, <1>5, <1>6, <1>7, <1>8, <1>9, <1>10, <1>11, <1>12,
       <1>13, <1>14, <1>15, <1>16 DEF Next, Handle

-----------------------------------------------------------------------------
(* What the hooks have told. *)

Column(q) == <<call[q].target, call[q].change.field>>

\* A hook that is not called, or is called though nothing was stored, muddles the
\* column it is about.
LEMMA HookKept ==
  ASSUME IInv, UNCHANGED <<users, told>>, muddled \subseteq muddled',
         \A q \in Calls : At(q, "hook")' =>
           \/ At(q, "hook") /\ call'[q] = call[q]
           \/ Column(q)' \in muddled',
         \A q \in Calls : At(q, "hook") =>
           \/ At(q, "hook")' /\ call'[q] = call[q]
           \/ Column(q) \in muddled'
  PROVE  HookInv' /\ HostPictureLostOnlyByRace'
  <1>0. HookInv /\ HostPictureLostOnlyByRace
    BY DEF IInv
  <1>1. HookInv'
    BY <1>0 DEF HookInv, Column
  <1>2. ASSUME NEW u \in Users, NEW f \in {"banned", "role"}, <<u, f>> \notin muddled',
               Announcing(u, f) # {}
        PROVE  Announcing(u, f)' # {}
    BY <1>2 DEF Announcing, Column
  <1>3. HostPictureLostOnlyByRace'
    BY <1>0, <1>2 DEF HostPictureLostOnlyByRace
  <1> QED
    BY <1>1, <1>3

LEMMA HookStep ==
  ASSUME IInv, Next
  PROVE  HookInv' /\ HostPictureLostOnlyByRace'
  <1>0. TypeOK /\ RowInv /\ HookInv /\ HostPictureLostOnlyByRace
    BY DEF IInv
  <1>a. ASSUME UNCHANGED <<users, told, muddled>>, NEW p \in Calls, OthersKeep(p),
               ~At(p, "hook"), ~At(p, "hook")'
        PROVE  HookInv' /\ HostPictureLostOnlyByRace'
    <2>1. \A q \in Calls : (At(q, "hook") \/ At(q, "hook")') => call'[q] = call[q]
      BY <1>a DEF OthersKeep
    <2>2. \A q \in Calls : At(q, "hook")' <=> At(q, "hook")
      BY <2>1 DEF At
    <2> QED
      BY <1>a, <2>1, <2>2, HookKept
  <1>b. ASSUME UNCHANGED <<users, told, muddled, call>>
        PROVE  HookInv' /\ HostPictureLostOnlyByRace'
    BY <1>b, HookKept DEF At
  <1>1. ASSUME Crash PROVE HookInv' /\ HostPictureLostOnlyByRace'
    <2>1. \A q \in Calls : ~At(q, "hook")'
      BY <1>1, NoCallIdle DEF Crash, At
    <2>2. \A q \in Calls : At(q, "hook") => Column(q) \in muddled'
      BY <1>1 DEF Crash, Column
    <2> QED
      BY <1>1, <2>1, <2>2, HookKept DEF Crash
  <1>2. ASSUME NEW p \in Calls, SetUser(p)
        PROVE  HookInv' /\ HostPictureLostOnlyByRace'
    <2> DEFINE u == call[p].target
               f == call[p].change.field
               to == call[p].change.to
    <2>1. /\ u \in Users /\ f \in {"banned", "role"} /\ users'[u][f] = to
          /\ \A g \in {"banned", "role"} \ {f} : users'[u][g] = users[u][g]
          /\ \A v \in Users \ {u} : users'[v] = users[v]
      BY <1>2, SetUserEffect
    <2>2. /\ OthersKeep(p) /\ call'[p].pc = "hook"
          /\ call'[p].target = u /\ call'[p].change = call[p].change
      BY <1>0, <1>2, GotoEffect DEF SetUser
    <2>3. /\ UNCHANGED told /\ call[p].pc = "change"
          /\ muddled' = IF Announcing(u, f) = {} THEN muddled
                                                 ELSE muddled \cup {<<u, f>>}
      BY <1>2 DEF SetUser, At
    <2>4. ASSUME NEW q \in Calls \ {p}, At(q, "hook")', Column(q)' \notin muddled'
          PROVE  users'[call'[q].target][call'[q].change.field] = call'[q].change.to
      <3>1. call'[q] = call[q] /\ At(q, "hook")
        BY <2>2, <2>4 DEF OthersKeep, At
      <3>2. PICK v \in Users, g \in {"banned", "role"} :
              call[q].target = v /\ call[q].change.field = g
        BY <3>1, Known DEF At, Carries, Call, Change
      <3>3. <<v, g>> \notin muddled' /\ <<v, g>> \notin muddled
        BY <2>3, <2>4, <3>1, <3>2 DEF Column
      <3>4. v = u /\ g = f => q \in Announcing(u, f)
        BY <3>1, <3>2 DEF Announcing
      <3>5. ~(v = u /\ g = f)
        BY <2>3, <3>3, <3>4
      <3>6. users[v][g] = call[q].change.to
        BY <1>0, <3>1, <3>2, <3>3 DEF HookInv
      <3>7. users'[v][g] = users[v][g]
        BY <2>1, <3>5
      <3> QED
        BY <3>1, <3>2, <3>6, <3>7
    <2>5. HookInv'
      BY <2>1, <2>2, <2>4 DEF HookInv, Column
    <2> HIDE DEF u, f, to
    <2>7. ASSUME NEW v \in Users, NEW g \in {"banned", "role"}, Announcing(v, g) # {}
          PROVE  Announcing(v, g)' # {}
      BY <2>2, <2>3, <2>7 DEF OthersKeep, Announcing, At
    <2>8. ASSUME NEW v \in Users, NEW g \in {"banned", "role"}
          PROVE  <<v, g>> \in muddled' \/ Announcing(v, g)' # {} \/ told'[v][g] = users'[v][g]
      <3>1. CASE v = u /\ g = f
        <4>1. Announcing(v, g)' # {}
          BY <2>2, <3>1 DEF Announcing, At, u, f
        <4> QED
          BY <4>1
      <3>2. CASE ~(v = u /\ g = f)
        <4>1. users'[v][g] = users[v][g] /\ told'[v][g] = told[v][g]
          BY <2>1, <2>3, <3>2
        <4> QED
          BY <1>0, <2>3, <2>7, <4>1 DEF HostPictureLostOnlyByRace
      <3> QED
        BY <3>1, <3>2
    <2>9. HostPictureLostOnlyByRace'
      BY <2>8 DEF HostPictureLostOnlyByRace
    <2> QED
      BY <2>5, <2>9
  <1>3. ASSUME NEW p \in Calls, CallHook(p)
        PROVE  HookInv' /\ HostPictureLostOnlyByRace'
    <2> DEFINE u == call[p].target
               f == call[p].change.field
               to == call[p].change.to
    <2>1. /\ u \in Users /\ f \in {"banned", "role"} /\ told'[u][f] = to
          /\ \A g \in {"banned", "role"} \ {f} : told'[u][g] = told[u][g]
          /\ \A v \in Users \ {u} : told'[v] = told[v]
      BY <1>3, CallHookEffect
    <2>2. /\ OthersKeep(p) /\ call'[p].pc = "idle" /\ At(p, "hook")
          /\ UNCHANGED <<users, muddled>>
      BY <1>0, <1>3, ReturnEffect DEF CallHook
    <2>3. \A q \in Calls : At(q, "hook")' => At(q, "hook") /\ call'[q] = call[q]
      BY <2>2 DEF OthersKeep, At
    <2>4. HookInv'
      BY <1>0, <2>2, <2>3 DEF HookInv
    <2>5. <<u, f>> \in muddled \/ users[u][f] = to
      BY <1>0, <2>2 DEF HookInv
    <2>6. ASSUME NEW v \in Users, NEW g \in {"banned", "role"}, ~(v = u /\ g = f),
                 Announcing(v, g) # {}
          PROVE  Announcing(v, g)' # {}
      BY <2>2, <2>6 DEF OthersKeep, Announcing, At
    <2> HIDE DEF u, f, to
    <2>7. ASSUME NEW v \in Users, NEW g \in {"banned", "role"}
          PROVE  <<v, g>> \in muddled' \/ Announcing(v, g)' # {} \/ told'[v][g] = users'[v][g]
      <3>1. CASE v = u /\ g = f
        BY <2>1, <2>2, <2>5, <3>1
      <3>2. CASE ~(v = u /\ g = f)
        <4>1. told'[v][g] = told[v][g]
          BY <2>1, <3>2
        <4> QED
          BY <1>0, <2>2, <2>6, <3>2, <4>1 DEF HostPictureLostOnlyByRace
      <3> QED
        BY <3>1, <3>2
    <2>8. HostPictureLostOnlyByRace'
      BY <2>7 DEF HostPictureLostOnlyByRace
    <2> QED
      BY <2>4, <2>8
  <1>4. ASSUME NEW p \in Calls, Disconnect(p)
        PROVE  HookInv' /\ HostPictureLostOnlyByRace'
    <2>1. UNCHANGED <<users, told>> /\ ~At(p, "hook")
      BY <1>4 DEF Disconnect
    <2>2. CASE Return(p) /\ UNCHANGED muddled
      BY <1>0, <1>a, <2>1, <2>2, ReturnEffect DEF At
    <2>3. CASE /\ Goto(p, "hook")
               /\ muddled' = muddled \cup {<<call[p].target, call[p].change.field>>}
      <3>1. OthersKeep(p) /\ Column(p)' \in muddled'
        BY <1>0, <2>3, GotoEffect DEF Column
      <3>2. \A q \in Calls \ {p} : call'[q] = call[q] /\ (At(q, "hook")' <=> At(q, "hook"))
        BY <3>1 DEF OthersKeep, At
      <3> QED
        BY <2>1, <2>3, <3>1, <3>2, HookKept
    <2> QED
      BY <1>4, <2>2, <2>3 DEF Disconnect
  <1>5. ASSUME NEW p \in Calls, StoreChallenge(p)
        PROVE  HookInv' /\ HostPictureLostOnlyByRace'
    BY <1>0, <1>5, <1>a, ReturnEffect DEF StoreChallenge, At
  <1>6. ASSUME NEW p \in Calls, TakeChallenge(p)
        PROVE  HookInv' /\ HostPictureLostOnlyByRace'
    BY <1>0, <1>6, <1>a, ReturnEffect, GotoEffect DEF TakeChallenge, At
  <1>7. ASSUME NEW p \in Calls, CreateSession(p)
        PROVE  HookInv' /\ HostPictureLostOnlyByRace'
    BY <1>0, <1>7, <1>a, ReturnEffect DEF CreateSession, At
  <1>8. ASSUME NEW p \in Calls, Logout(p)
        PROVE  HookInv' /\ HostPictureLostOnlyByRace'
    <2>1. UNCHANGED <<users, told, muddled>> /\ ~At(p, "hook")
      BY <1>8 DEF Logout, At
    <2> QED
      BY <1>8, <1>a, <2>1, LogoutEffect DEF At
  <1>9. ASSUME NEW p \in Calls, ReadCount(p)
        PROVE  HookInv' /\ HostPictureLostOnlyByRace'
    <2>1. UNCHANGED <<users, told, muddled>> /\ ~At(p, "hook") /\ call[p].user \in Users
      BY <1>9, Known DEF ReadCount, At, Idle, Carries
    <2> QED
      BY <1>0, <1>9, <1>a, <2>1, ReadCountEffect DEF At
  <1>10. ASSUME NEW p \in Calls, StoreCount(p)
         PROVE  HookInv' /\ HostPictureLostOnlyByRace'
    BY <1>0, <1>10, <1>a, GotoEffect DEF StoreCount, At, history
  <1>11. ASSUME NEW p \in Calls, NEW c \in Challenges, FinishLogin(p, c)
         PROVE  HookInv' /\ HostPictureLostOnlyByRace'
    <2>1. UNCHANGED <<users, told, muddled>> /\ ~At(p, "hook")
      BY <1>11 DEF FinishLogin, Idle, At
    <2> QED
      BY <1>0, <1>11, <1>a, <2>1, FinishLoginEffect DEF At
  <1>12. ASSUME NEW p \in Calls, NEW u \in Users, BeginLogin(p, u)
         PROVE  HookInv' /\ HostPictureLostOnlyByRace'
    <2>1. UNCHANGED <<users, told, muddled>> /\ ~At(p, "hook")
      BY <1>12 DEF BeginLogin, Idle, At
    <2> QED
      BY <1>0, <1>12, <1>a, <2>1, BeginLoginEffect DEF At
  <1>13. ASSUME NEW p \in Calls, NEW s \in Sids, BeginLogout(p, s)
         PROVE  HookInv' /\ HostPictureLostOnlyByRace'
    <2>1. UNCHANGED <<users, told, muddled>> /\ ~At(p, "hook")
      BY <1>13 DEF BeginLogout, Idle, At
    <2> QED
      BY <1>0, <1>13, <1>a, <2>1, BeginLogoutEffect DEF At
  <1>14. ASSUME NEW p \in Calls, NEW s \in Sids, NEW u \in Users, NEW c \in Changes,
                BeginChange(p, s, u, c)
         PROVE  HookInv' /\ HostPictureLostOnlyByRace'
    <2>1. UNCHANGED <<users, told, muddled>> /\ ~At(p, "hook")
      BY <1>14 DEF BeginChange, Idle, At
    <2> QED
      BY <1>0, <1>14, <1>a, <2>1, BeginChangeEffect DEF At
  <1>15. ASSUME CleanupSessions \/ (\E u \in Users : ExpireChallenge(u) \/ FrejaSession(u))
                \/ \E c \in Challenges : Sign(c)
         PROVE  HookInv' /\ HostPictureLostOnlyByRace'
    BY <1>15, <1>b DEF CleanupSessions, ExpireChallenge, FrejaSession, Sign, history
  <1>16. ASSUME NEW s \in Sids, ExpireSession(s)
         PROVE  HookInv' /\ HostPictureLostOnlyByRace'
    BY <1>16, <1>b DEF ExpireSession
  <1> QED
    BY <1>1, <1>2, <1>3, <1>4, <1>5, <1>6, <1>7, <1>8, <1>9, <1>10, <1>11, <1>12,
       <1>13, <1>14, <1>15, <1>16 DEF Next, Handle

-----------------------------------------------------------------------------
(* What a request read still holds. *)

Holds(p) ==
  /\ call[p].pc \in {"take", "read", "count", "insert", "logout", "change"} =>
       ~users[call[p].user].banned
  /\ call[p].pc \in {"logout", "change"} => sessions[call[p].sid].state = "live"
  /\ At(p, "change") => users[call[p].user].role = "admin"

\* Nothing changes for a request that goes on while others are served.
LEMMA ActsKept ==
  ASSUME IInv, UNCHANGED users,
         \A s \in Sids : sessions[s].state = "live" => sessions'[s].state = "live",
         \A q \in Calls \ overtaken' :
           \/ Holds(q)'
           \/ q \notin overtaken /\ call'[q] = call[q]
  PROVE  ActsOnWhatHolds'
  <1>1. ASSUME NEW q \in Calls, q \notin overtaken' PROVE Holds(q)'
    <2>1. CASE q \notin overtaken /\ call'[q] = call[q]
      <3>1. Holds(q)
        BY <2>1 DEF IInv, ActsOnWhatHolds, Holds
      <3>2. call[q].pc \in {"logout", "change"} => call[q].sid \in Sids
        BY Known DEF Carries
      <3> QED
        BY <2>1, <3>1, <3>2 DEF Holds, At
    <2> QED
      BY <1>1, <2>1
  <1> QED
    BY <1>1 DEF ActsOnWhatHolds, Holds

LEMMA ActsStep ==
  ASSUME IInv, Next
  PROVE  ActsOnWhatHolds'
  <1>0. TypeOK /\ RowInv /\ ActsOnWhatHolds
    BY DEF IInv
  <1>h. \A q \in Calls \ overtaken : Holds(q)
    BY <1>0 DEF ActsOnWhatHolds, Holds
  <1>a. ASSUME UNCHANGED <<users, sessions>>, NEW p \in Calls, OthersKeep(p),
               overtaken \ {p} \subseteq overtaken', Holds(p)'
        PROVE  ActsOnWhatHolds'
    BY <1>a, ActsKept DEF OthersKeep
  <1>i. ASSUME NEW p \in Calls, call'[p].pc \in {"idle", "store", "hook"}
        PROVE  Holds(p)'
    BY <1>i DEF Holds, At
  <1>1. ASSUME Crash PROVE ActsOnWhatHolds'
    BY <1>1, NoCallIdle DEF Crash, ActsOnWhatHolds, At
  <1>2. ASSUME NEW p \in Calls, TakeChallenge(p) PROVE ActsOnWhatHolds'
    <2>1. UNCHANGED <<users, sessions>> /\ At(p, "take")
      BY <1>2 DEF TakeChallenge
    <2>2. CASE Return(p)
      BY <1>0, <1>a, <1>i, <2>1, <2>2, ReturnEffect
    <2>3. CASE Goto(p, "read") /\ UNCHANGED overtaken
      <3>1. OthersKeep(p) /\ call'[p].pc = "read" /\ call'[p].user = call[p].user
        BY <1>0, <2>3, GotoEffect
      <3>2. ASSUME p \notin overtaken PROVE Holds(p)'
        BY <1>h, <2>1, <3>1, <3>2 DEF Holds, At
      <3> QED
        BY <2>1, <2>3, <3>1, <3>2, ActsKept DEF OthersKeep
    <2> QED
      BY <1>2, <2>2, <2>3 DEF TakeChallenge
  <1>3. ASSUME NEW p \in Calls, ReadCount(p) PROVE ActsOnWhatHolds'
    <2>1. /\ UNCHANGED <<users, sessions, overtaken>> /\ At(p, "read")
          /\ call[p].user \in Users
      BY <1>3, Known DEF ReadCount, At, Idle, Carries
    <2>2. OthersKeep(p) /\ call'[p].pc = "count" /\ call'[p].user = call[p].user
      BY <1>0, <1>3, <2>1, ReadCountEffect
    <2>3. ASSUME p \notin overtaken PROVE Holds(p)'
      BY <1>h, <2>1, <2>2, <2>3 DEF Holds, At
    <2> QED
      BY <2>1, <2>2, <2>3, ActsKept DEF OthersKeep
  <1>4. ASSUME NEW p \in Calls, StoreCount(p) PROVE ActsOnWhatHolds'
    <2>1. UNCHANGED <<users, sessions, overtaken>> /\ At(p, "count")
      BY <1>4 DEF StoreCount, history
    <2>2. OthersKeep(p) /\ call'[p].pc = "insert" /\ call'[p].user = call[p].user
      BY <1>0, <1>4, GotoEffect DEF StoreCount
    <2>3. ASSUME p \notin overtaken PROVE Holds(p)'
      BY <1>h, <2>1, <2>2, <2>3 DEF Holds, At
    <2> QED
      BY <2>1, <2>2, <2>3, ActsKept DEF OthersKeep
  <1>5. ASSUME NEW p \in Calls, CreateSession(p) PROVE ActsOnWhatHolds'
    <2>1. /\ OthersKeep(p) /\ call'[p].pc = "idle" /\ overtaken' = overtaken \ {p}
          /\ UNCHANGED users
      BY <1>0, <1>5, ReturnEffect DEF CreateSession
    <2>2. PICK s \in Sids : InsertSession(s, call[p].user, call[p].chal)
      BY <1>5 DEF CreateSession
    <2>3. call[p].user \in Users /\ call[p].chal \in Challenges
      BY <1>5, Known DEF CreateSession, At, Idle, Answers, Carries
    <2>4. \A t \in Sids : sessions[t].state = "live" => sessions'[t].state = "live"
      BY <1>0, <2>2, <2>3, InsertEffect
    <2> QED
      BY <1>i, <2>1, <2>4, ActsKept DEF OthersKeep
  <1>6. ASSUME NEW p \in Calls, Logout(p) PROVE ActsOnWhatHolds'
    <2> DEFINE s == call[p].sid
    <2>1. /\ \A t \in Sids : t # s => sessions'[t].state = sessions[t].state
          /\ call'[p].pc = "idle" /\ OthersKeep(p)
          /\ overtaken' = (overtaken \cup {q \in Calls : call[q].sid = s}) \ {p}
      BY <1>6, LogoutEffect
    <2>2. UNCHANGED users
      BY <1>6 DEF Logout
    <2>3. ASSUME NEW q \in Calls, q \notin overtaken', q # p PROVE Holds(q)'
      <3>1. q \notin overtaken /\ call[q].sid # s /\ call'[q] = call[q]
        BY <2>1, <2>3 DEF OthersKeep
      <3>2. call[q].pc \in {"logout", "change"} => call[q].sid \in Sids
        BY Known DEF Carries
      <3> QED
        BY <1>h, <2>1, <2>2, <3>1, <3>2 DEF Holds, At
    <2>4. Holds(p)'
      BY <1>i, <2>1
    <2> QED
      BY <2>3, <2>4 DEF ActsOnWhatHolds, Holds
  <1>7. ASSUME NEW p \in Calls, SetUser(p) PROVE ActsOnWhatHolds'
    <2> DEFINE u == call[p].target
    <2>1. u \in Users /\ \A v \in Users \ {u} : users'[v] = users[v]
      BY <1>7, SetUserEffect
    <2>2. OthersKeep(p) /\ call'[p].pc = "hook"
      BY <1>0, <1>7, GotoEffect DEF SetUser
    <2>3. overtaken' = overtaken \cup {q \in Calls : call[q].user = u} /\ UNCHANGED sessions
      BY <1>7 DEF SetUser
    <2>4. ASSUME NEW q \in Calls, q \notin overtaken', q # p PROVE Holds(q)'
      <3>1. q \notin overtaken /\ call[q].user # u /\ call'[q] = call[q]
        BY <2>2, <2>3, <2>4 DEF OthersKeep
      <3>2. ~Idle(q) => users'[call[q].user] = users[call[q].user]
        BY <2>1, <3>1, Known DEF Carries
      <3> QED
        BY <1>h, <2>3, <3>1, <3>2 DEF Holds, At, Idle
    <2>5. Holds(p)'
      BY <1>i, <2>2
    <2> QED
      BY <2>4, <2>5 DEF ActsOnWhatHolds, Holds
  <1>8. ASSUME NEW p \in Calls, CallHook(p) PROVE ActsOnWhatHolds'
    BY <1>0, <1>8, <1>a, <1>i, ReturnEffect DEF CallHook
  <1>9. ASSUME NEW p \in Calls, StoreChallenge(p) PROVE ActsOnWhatHolds'
    BY <1>0, <1>9, <1>a, <1>i, ReturnEffect DEF StoreChallenge
  <1>10. ASSUME NEW p \in Calls, Disconnect(p) PROVE ActsOnWhatHolds'
    <2>1. /\ OthersKeep(p) /\ call'[p].pc \in {"idle", "hook"}
          /\ overtaken \ {p} \subseteq overtaken' /\ UNCHANGED <<users, sessions>>
      BY <1>0, <1>10, ReturnEffect, GotoEffect DEF Disconnect
    <2> QED
      BY <1>a, <1>i, <2>1
  <1>11. ASSUME NEW p \in Calls, NEW c \in Challenges, FinishLogin(p, c)
         PROVE  ActsOnWhatHolds'
    <2>1. UNCHANGED <<users, sessions>>
      BY <1>11 DEF FinishLogin
    <2>2. /\ OthersKeep(p) /\ overtaken' = overtaken \ {p} /\ call'[p].pc = "take"
          /\ ~users[call'[p].user].banned
      BY <1>0, <1>11, FinishLoginEffect
    <2>3. Holds(p)'
      BY <2>1, <2>2 DEF Holds, At
    <2> QED
      BY <1>a, <2>1, <2>2, <2>3
  <1>12. ASSUME NEW p \in Calls, NEW u \in Users, BeginLogin(p, u)
         PROVE  ActsOnWhatHolds'
    <2>1. UNCHANGED <<users, sessions>>
      BY <1>12 DEF BeginLogin
    <2> QED
      BY <1>0, <1>12, <1>a, <1>i, <2>1, BeginLoginEffect
  <1>13. ASSUME NEW p \in Calls, NEW s \in Sids, BeginLogout(p, s)
         PROVE  ActsOnWhatHolds'
    <2>1. UNCHANGED <<users, sessions>>
      BY <1>13 DEF BeginLogout
    <2>2. /\ OthersKeep(p) /\ overtaken' = overtaken \ {p} /\ call'[p].pc = "logout"
          /\ ~users[call'[p].user].banned /\ sessions[call'[p].sid].state = "live"
      BY <1>0, <1>13, BeginLogoutEffect
    <2>3. Holds(p)'
      BY <2>1, <2>2 DEF Holds, At
    <2> QED
      BY <1>a, <2>1, <2>2, <2>3
  <1>14. ASSUME NEW p \in Calls, NEW s \in Sids, NEW u \in Users, NEW c \in Changes,
                BeginChange(p, s, u, c)
         PROVE  ActsOnWhatHolds'
    <2>1. UNCHANGED <<users, sessions>>
      BY <1>14 DEF BeginChange
    <2>2. /\ OthersKeep(p) /\ overtaken' = overtaken \ {p} /\ call'[p].pc = "change"
          /\ ~users[call'[p].user].banned /\ sessions[call'[p].sid].state = "live"
          /\ users[call'[p].user].role = "admin"
      BY <1>0, <1>14, BeginChangeEffect
    <2>3. Holds(p)'
      BY <2>1, <2>2 DEF Holds, At
    <2> QED
      BY <1>a, <2>1, <2>2, <2>3
  <1>15. ASSUME UNCHANGED <<users, call, overtaken>>,
                \A s \in Sids : sessions[s].state = "live" => sessions'[s].state = "live"
         PROVE  ActsOnWhatHolds'
    BY <1>15, ActsKept
  <1>16. ASSUME NEW u \in Users, FrejaSession(u) PROVE ActsOnWhatHolds'
    <2>1. \A s \in Sids : sessions[s].state = "live" => sessions'[s].state = "live"
      BY <1>0, <1>16, InsertEffect DEF FrejaSession
    <2> QED
      BY <1>15, <1>16, <2>1 DEF FrejaSession, history
  <1>17. ASSUME CleanupSessions PROVE ActsOnWhatHolds'
    <2>1. \A s \in Sids : sessions[s].state = "live" => sessions'[s].state = "live"
      BY <1>0, <1>17 DEF CleanupSessions, TypeOK
    <2> QED
      BY <1>15, <1>17, <2>1 DEF CleanupSessions, history
  <1>18. ASSUME NEW u \in Users, ExpireChallenge(u) PROVE ActsOnWhatHolds'
    BY <1>15, <1>18 DEF ExpireChallenge, history
  <1>19. ASSUME NEW c \in Challenges, Sign(c) PROVE ActsOnWhatHolds'
    BY <1>15, <1>19 DEF Sign, history
  <1>20. ASSUME NEW s \in Sids, ExpireSession(s) PROVE ActsOnWhatHolds'
    <2>1. /\ UNCHANGED <<users, call>>
          /\ overtaken' = overtaken \cup {q \in Calls : call[q].sid = s}
          /\ \A t \in Sids : t # s => sessions'[t].state = sessions[t].state
      BY <1>0, <1>20 DEF ExpireSession, TypeOK
    <2>2. ASSUME NEW q \in Calls, q \notin overtaken' PROVE Holds(q)'
      <3>1. q \notin overtaken /\ call[q].sid # s /\ call'[q] = call[q]
        BY <2>1, <2>2
      <3>2. call[q].pc \in {"logout", "change"} => call[q].sid \in Sids
        BY Known DEF Carries
      <3> QED
        BY <1>h, <2>1, <3>1, <3>2 DEF Holds, At
    <2> QED
      BY <2>2 DEF ActsOnWhatHolds, Holds
  <1> QED
    BY <1>1, <1>2, <1>3, <1>4, <1>5, <1>6, <1>7, <1>8, <1>9, <1>10, <1>11, <1>12,
       <1>13, <1>14, <1>16, <1>17, <1>18, <1>19, <1>20 DEF Next, Handle

\* Only SetUser takes an administrator away.
LEMMA AdminStep ==
  ASSUME IInv, Next
  PROVE  LastAdminLostOnlyBySelfOrRace'
  <1>0. TypeOK /\ ActsOnWhatHolds /\ LastAdminLostOnlyBySelfOrRace
    BY DEF IInv
  <1>1. CASE UNCHANGED <<users, forfeited>>
    BY <1>0, <1>1 DEF LastAdminLostOnlyBySelfOrRace, ActingAdmins
  <1>2. ASSUME NEW p \in Calls, SetUser(p) PROVE LastAdminLostOnlyBySelfOrRace'
    <2> DEFINE u == call[p].user
    <2>1. /\ u \in Users /\ At(p, "change")
          /\ forfeited' = (forfeited \/ p \in overtaken \/ call[p].target = u)
      BY <1>2, Known DEF SetUser, At, Idle, Carries
    <2>2. \A v \in Users : v # call[p].target => users'[v] = users[v]
      BY <1>2, SetUserEffect
    <2>3. CASE p \notin overtaken /\ call[p].target # u
      <3>1. users[u].role = "admin" /\ ~users[u].banned
        BY <1>0, <2>1, <2>3 DEF ActsOnWhatHolds, At
      <3>2. users'[u] = users[u]
        BY <2>1, <2>2, <2>3
      <3> HIDE DEF u
      <3>3. u \in ActingAdmins'
        BY <2>1, <3>1, <3>2 DEF ActingAdmins
      <3> QED
        BY <3>3 DEF LastAdminLostOnlyBySelfOrRace
    <2>4. CASE p \in overtaken \/ call[p].target = u
      BY <2>1, <2>4 DEF LastAdminLostOnlyBySelfOrRace
    <2> QED
      BY <2>3, <2>4
  <1>3. ASSUME NEW p \in Calls PROVE Handle(p) => SetUser(p) \/ UNCHANGED <<users, forfeited>>
    BY DEF Handle, StoreChallenge, TakeChallenge, ReadCount, StoreCount, CreateSession,
           Logout, CallHook, history
  <1>4. (\E p \in Calls : Handle(p)) \/ UNCHANGED <<users, forfeited>>
    BY DEF Next, Crash, CleanupSessions, Disconnect, FinishLogin, BeginLogin, BeginLogout,
           BeginChange, ExpireChallenge, FrejaSession, Sign, ExpireSession, history
  <1> QED
    BY <1>1, <1>2, <1>3, <1>4

-----------------------------------------------------------------------------
(* The theorems. *)

LEMMA InvInit ==
  Init => IInv
  <1> SUFFICES ASSUME Init PROVE IInv
    OBVIOUS
  <1>1. TypeOK
    <2>1. NoSession \in Session /\ \A u \in Users : InitialUser(u) \in User
      BY DEF NoSession, Session, InitialUser, User, Roles
    <2>2. 0 \in 0..MaxCount /\ 0 \in 0..MaxChanges
      BY BoundsAssumption
    <2>3. users \in [Users -> User] /\ told \in [Users -> User]
      BY <2>1 DEF Init
    <2>4. sessions \in [Sids -> Session] /\ call \in [Calls -> Call]
      BY <2>1, NoCallIdle DEF Init
    <2>5. /\ challenge \in [Users -> Challenges \cup {None}]
          /\ ceremony \in [Challenges -> [user: Users \cup {None}, count: 0..MaxCount]]
      BY <2>2 DEF Init
    <2> QED
      BY <2>2, <2>3, <2>4, <2>5 DEF Init, TypeOK
  <1>2. RowInv /\ AssertionSignsInOnce
    BY DEF Init, RowInv, AssertionSignsInOnce, NoSession
  <1>3. /\ \A p \in Calls : Carries(p)
        /\ CountInv /\ HookInv /\ ActsOnWhatHolds
    BY NoCallIdle DEF Init, Carries, Idle, Answers, CountInv, HookInv, ActsOnWhatHolds, At
  <1>4. ChallengeInv
    BY NoCallIdle DEF Init, ChallengeInv, Redeems, NoSession
  <1>5. LastAdminLostOnlyBySelfOrRace
    <2>1. PICK a \in Users : a \in Admins
      BY AdminsAssumption
    <2>2. users[a].role = "admin" /\ ~users[a].banned
      BY <2>1 DEF Init, InitialUser
    <2> QED
      BY <2>2 DEF LastAdminLostOnlyBySelfOrRace, ActingAdmins
  <1>6. HostPictureLostOnlyByRace /\ CountBehindOnlyByCrossing
    BY DEF Init, HostPictureLostOnlyByRace, CountBehindOnlyByCrossing
  <1> QED
    BY <1>1, <1>2, <1>3, <1>4, <1>5, <1>6 DEF IInv

LEMMA InvStep ==
  IInv /\ [Next]_vars => IInv'
  <1> SUFFICES ASSUME IInv, [Next]_vars PROVE IInv'
    OBVIOUS
  <1>1. CASE Next
    BY <1>1, TypeStep, RowStep, CarriesStep, ChallengeStep, CountStep, HookStep, ActsStep,
       AdminStep DEF IInv
  <1>2. CASE UNCHANGED vars
    <2>1. TypeOK' /\ RowInv' /\ AssertionSignsInOnce'
      BY <1>2 DEF IInv, vars, history, TypeOK, RowInv, AssertionSignsInOnce
    <2>2. \A p \in Calls : Carries(p)'
      BY <1>2 DEF IInv, vars, history, Carries, Idle, Answers
    <2>3. ChallengeInv'
      BY <1>2 DEF IInv, vars, history, ChallengeInv, Redeems
    <2>4. CountInv' /\ CountBehindOnlyByCrossing'
      BY <1>2, CountKept DEF vars, history, At
    <2>5. HookInv' /\ HostPictureLostOnlyByRace'
      BY <1>2, HookKept DEF vars, history, At
    <2>6. ActsOnWhatHolds'
      BY <1>2, ActsKept DEF vars, history
    <2>7. LastAdminLostOnlyBySelfOrRace'
      BY <1>2 DEF IInv, vars, history, LastAdminLostOnlyBySelfOrRace, ActingAdmins
    <2> QED
      BY <2>1, <2>2, <2>3, <2>4, <2>5, <2>6, <2>7 DEF IInv
  <1> QED
    BY <1>1, <1>2

\* The inductive invariant: a challenge is in one place, a request carries what
\* belongs together, and what is half done is known to the history.
THEOREM Invariant == Spec => []IInv
  BY InvInit, InvStep, PTL DEF Spec

\* The rows of users, sessions and login challenges, and what requests carry
\* between two statements, always have the types of the schema.
THEOREM TypeCorrect == Spec => []TypeOK
  <1>1. IInv => TypeOK
    BY DEF IInv
  <1> QED
    BY <1>1, Invariant, PTL

\* However many requests are served at once, what GetSession, RequireRole and
\* finishLogin read still holds at the last statement of the request, unless a
\* logout, a ban, a change of role or expiry came between.
THEOREM RequestsActOnWhatHolds == Spec => []ActsOnWhatHolds
  <1>1. IInv => ActsOnWhatHolds
    BY DEF IInv
  <1> QED
    BY <1>1, Invariant, PTL

\* The server is left without an administrator only by one who acts on themselves
\* or after being overtaken: setRole and banUser need no other rule than that.
THEOREM LastAdminStays == Spec => []LastAdminLostOnlyBySelfOrRace
  <1>1. IInv => LastAdminLostOnlyBySelfOrRace
    BY DEF IInv
  <1> QED
    BY <1>1, Invariant, PTL

\* With any number of administrators at work, the host application knows every
\* ban and role once the hooks are called, but for columns whose changes crossed
\* or were cut short.
THEOREM HostPictureIsRight == Spec => []HostPictureLostOnlyByRace
  <1>1. IInv => HostPictureLostOnlyByRace
    BY DEF IInv
  <1> QED
    BY <1>1, Invariant, PTL

\* DELETE ... RETURNING in finishLogin gives a challenge to one request: a signed
\* answer opens one session, of the user it was made for.
THEOREM AssertionsSignInOnce == Spec => []AssertionSignsInOnce
  <1>1. IInv => AssertionSignsInOnce
    BY DEF IInv
  <1> QED
    BY <1>1, Invariant, PTL

\* sign_count is the highest count finishLogin accepted, unless two logins of the
\* user crossed between its reading and its UPDATE, or one ended there.
THEOREM CountIsHighest == Spec => []CountBehindOnlyByCrossing
  <1>1. IInv => CountBehindOnlyByCrossing
    BY DEF IInv
  <1> QED
    BY <1>1, Invariant, PTL

\* A session that expired or was logged out never works again, and CleanupSessions
\* deletes none that works: only the logout of a request that presented it does.
THEOREM SessionsEnd == Spec => SessionsEndForGood
  <1>1. IInv /\ [Next]_vars =>
          [\A s \in Sids :
             /\ sessions[s].state \in {"expired", "gone"} => sessions'[s].state # "live"
             /\ sessions[s].state = "live" /\ sessions'[s].state = "gone" =>
                  \E p \in Calls : At(p, "logout") /\ call[p].sid = s]_vars
    BY SessionsStep DEF SessionsGrow
  <1> QED
    BY <1>1, Invariant, PTL DEF Spec, SessionsEndForGood

=============================================================================
