---------------------------- MODULE Server_proofs ----------------------------
(***************************************************************************)
(* The single database connection and the rate limiter, for any number of  *)
(* requests and addresses, any limit and any window.                       *)
(***************************************************************************)
EXTENDS Server, FiniteSetTheorems, TLAPS

-----------------------------------------------------------------------------
(* What the helpers of Server do to the record of one request. *)

Step == {"stmt", "rows", "mail"}

\* A request has steps left wherever it takes one, and waits for the connection
\* only for a step that needs it.
StepsLeft(c) ==
  /\ c.pc \in {"wait", "stmt", "rows", "mail"} => c.steps # <<>>
  /\ c.pc = "wait" => Head(c.steps) # "mail"

\* The connection is where the requests and the cleanup say it is.
IInv ==
  /\ call \in [Calls -> Call]
  /\ ticker \in {"idle", "wait", "stmt"}
  /\ conn \in Calls \cup {Ticker, None}
  /\ \A p \in Calls : StepsLeft(call[p])
  /\ ConnectionInUse

LEMMA Names == Ticker \notin Calls /\ None \notin Calls /\ None # Ticker
  BY TickerAssumption

LEMMA NoCallOK ==
  NoCall \in Call /\ StepsLeft(NoCall) /\ NoCall.pc \notin {"stmt", "rows"}
  <1>1. <<>> \in Seq(Step)
    OBVIOUS
  <1> QED
    BY <1>1 DEF NoCall, Call, StepsLeft, Step

\* A request between two steps holds nothing.
LEMMA ReadyOK ==
  ASSUME NEW steps \in Seq(Step)
  PROVE  /\ Ready(steps) \in Call /\ StepsLeft(Ready(steps))
         /\ Ready(steps).pc \notin {"stmt", "rows"}
  <1>1. CASE steps = <<>>
    BY <1>1, NoCallOK DEF Ready
  <1>2. CASE steps # <<>>
    BY <1>2 DEF Ready, Call, StepsLeft, Step
  <1> QED
    BY <1>1, <1>2

LEMMA HandlersAreSteps == Handlers \subseteq Seq(Step) /\ Limited \subseteq Seq(Step)
  BY DEF Handlers, Limited, Reset, Submit, Login, AutoApprove, Step

\* One request moves on without the connection, which it gives back if it had it.
LEMMA LetsGo ==
  ASSUME IInv, NEW p \in Calls, NEW c \in Call, StepsLeft(c), c.pc \notin {"stmt", "rows"},
         call' = [call EXCEPT ![p] = c],
         conn' = IF conn = p THEN None ELSE conn, UNCHANGED ticker
  PROVE  IInv'
  <1>1. /\ call' \in [Calls -> Call] /\ \A q \in Calls : StepsLeft(call'[q])
        /\ conn' \in Calls \cup {Ticker, None} /\ ticker' \in {"idle", "wait", "stmt"}
    BY DEF IInv
  <1>2. ConnectionInUse'
    BY Names DEF IInv, ConnectionInUse, Holds
  <1> QED
    BY <1>1, <1>2 DEF IInv, StepsLeft

LEMMA InvInit == Init => IInv
  BY NoCallOK, Names DEF Init, IInv, ConnectionInUse, Holds

LEMMA InvStep == IInv /\ [Next]_vars => IInv'
  <1> SUFFICES ASSUME IInv, [Next]_vars PROVE IInv'
    OBVIOUS
  <1>0. /\ \A p \in Calls : call[p] \in Call /\ StepsLeft(call[p])
        /\ \A p \in Calls : call[p].steps \in Seq(Step)
        /\ ConnectionInUse
    BY DEF IInv, Call, Step
  <1>a. ASSUME UNCHANGED <<conn, call, ticker>> PROVE IInv'
    BY <1>a DEF IInv, ConnectionInUse, Holds, StepsLeft
  <1>b. ASSUME Exit PROVE IInv'
    BY <1>b, NoCallOK, Names DEF Exit, IInv, ConnectionInUse, Holds, StepsLeft
  <1>1. ASSUME NEW p \in Calls, Allow(p) PROVE IInv'
    <2> DEFINE c == IF Limiter!Admits(p) THEN Ready(call[p].steps) ELSE NoCall
    <2>1. c \in Call /\ StepsLeft(c) /\ c.pc \notin {"stmt", "rows"}
      BY <1>0, ReadyOK, NoCallOK
    <2>2. call' = [call EXCEPT ![p] = c] /\ UNCHANGED <<conn, ticker>> /\ conn # p
      BY <1>0, <1>1, Names DEF Allow, ConnectionInUse, Holds, At
    <2> HIDE DEF c
    <2> QED
      BY <2>1, <2>2, LetsGo
  <1>2. ASSUME NEW p \in Calls, Acquire(p) PROVE IInv'
    <2> DEFINE c == [call[p] EXCEPT !.pc = Head(call[p].steps)]
    <2>1. call[p].steps # <<>> /\ Head(call[p].steps) \in {"stmt", "rows"}
      BY <1>0, <1>2 DEF Acquire, At, StepsLeft, Step
    <2>2. c \in Call /\ StepsLeft(c) /\ c.pc \in {"stmt", "rows"}
      BY <1>0, <2>1 DEF Call, StepsLeft
    <2>3. /\ call' = [call EXCEPT ![p] = c] /\ conn = None /\ conn' = p
          /\ UNCHANGED ticker
      BY <1>2 DEF Acquire
    <2> HIDE DEF c
    <2>4. /\ call' \in [Calls -> Call] /\ \A q \in Calls : StepsLeft(call'[q])
          /\ conn' \in Calls \cup {Ticker, None} /\ ticker' \in {"idle", "wait", "stmt"}
      BY <1>0, <2>2, <2>3 DEF IInv
    <2>5. ConnectionInUse'
      BY <1>0, <2>2, <2>3, Names DEF IInv, ConnectionInUse, Holds
    <2> QED
      BY <2>4, <2>5 DEF IInv, StepsLeft
  <1>3. ASSUME NEW p \in Calls, Finish(p) \/ FinishRows(p) PROVE IInv'
    <2> DEFINE c == Ready(Tail(call[p].steps))
    <2>1. conn = p /\ call[p].steps # <<>>
      BY <1>0, <1>3 DEF Finish, FinishRows, At, ConnectionInUse, Holds, StepsLeft
    <2>2. Tail(call[p].steps) \in Seq(Step)
      BY <1>0, <2>1
    <2>3. c \in Call /\ StepsLeft(c) /\ c.pc \notin {"stmt", "rows"}
      BY <2>2, ReadyOK
    <2>4. call' = [call EXCEPT ![p] = c] /\ conn' = None /\ UNCHANGED ticker
      BY <1>3 DEF Finish, FinishRows
    <2> HIDE DEF c
    <2> QED
      BY <2>1, <2>3, <2>4, LetsGo
  <1>4. ASSUME NEW p \in Calls, FinishMail(p) PROVE IInv'
    <2> DEFINE c == Ready(Tail(call[p].steps))
    <2>1. Tail(call[p].steps) \in Seq(Step)
      BY <1>0, <1>4 DEF FinishMail, At, StepsLeft
    <2>2. c \in Call /\ StepsLeft(c) /\ c.pc \notin {"stmt", "rows"}
      BY <2>1, ReadyOK
    <2>3. call' = [call EXCEPT ![p] = c] /\ UNCHANGED <<conn, ticker>> /\ conn # p
      BY <1>0, <1>4, Names DEF FinishMail, ConnectionInUse, Holds, At
    <2> HIDE DEF c
    <2> QED
      BY <2>2, <2>3, LetsGo
  <1>5. ASSUME NEW p \in Calls, RelayHangs(p) PROVE IInv'
    <2>1. /\ call' \in [Calls -> Call]
          /\ \A q \in Calls : call'[q].pc = call[q].pc /\ call'[q].steps = call[q].steps
          /\ UNCHANGED <<conn, ticker>>
      BY <1>0, <1>5 DEF RelayHangs, IInv, Call
    <2> QED
      BY <1>0, <2>1 DEF IInv, ConnectionInUse, Holds, StepsLeft
  <1>6. ASSUME NEW p \in Calls, ClientLeaves(p) PROVE IInv'
    <2> DEFINE c == IF At(p, "wait") \/ At(p, "stmt") THEN NoCall
                    ELSE [call[p] EXCEPT !.pc = "mail", !.steps = <<"mail">>]
    <2>1. c \in Call /\ StepsLeft(c) /\ c.pc \notin {"stmt", "rows"}
      <3>1. <<"mail">> \in Seq(Step) /\ <<"mail">> # <<>>
        BY DEF Step
      <3>2. CASE At(p, "wait") \/ At(p, "stmt")
        BY <3>2, NoCallOK
      <3>3. CASE ~(At(p, "wait") \/ At(p, "stmt"))
        <4>1. c = [call[p] EXCEPT !.pc = "mail", !.steps = <<"mail">>]
          BY <3>3
        <4>2. c.pc = "mail" /\ c.steps = <<"mail">> /\ c \in Call
          BY <1>0, <3>1, <4>1 DEF Call, Step
        <4> HIDE DEF c
        <4> QED
          BY <3>1, <4>2 DEF StepsLeft
      <3> QED
        BY <3>2, <3>3
    <2>2. /\ call' = [call EXCEPT ![p] = c] /\ UNCHANGED ticker
          /\ conn' = IF conn = p THEN None ELSE conn
      BY <1>6 DEF ClientLeaves
    <2> HIDE DEF c
    <2> QED
      BY <2>1, <2>2, LetsGo
  <1>7. ASSUME NEW p \in Calls, NEW steps \in Handlers, Arrive(p, steps) PROVE IInv'
    <2> DEFINE c == Ready(steps)
    <2>1. c \in Call /\ StepsLeft(c) /\ c.pc \notin {"stmt", "rows"}
      BY ReadyOK, HandlersAreSteps
    <2>2. call' = [call EXCEPT ![p] = c] /\ UNCHANGED <<conn, ticker>> /\ conn # p
      BY <1>0, <1>7, Names DEF Arrive, ConnectionInUse, Holds, At
    <2> HIDE DEF c
    <2> QED
      BY <2>1, <2>2, LetsGo
  <1>8. ASSUME NEW p \in Calls, NEW steps \in Limited, NEW ip \in IPs,
               ArriveLimited(p, steps, ip)
        PROVE  IInv'
    <2> DEFINE c == [pc |-> "limiter", steps |-> steps, hung |-> FALSE]
    <2>1. c \in Call /\ StepsLeft(c) /\ c.pc \notin {"stmt", "rows"}
      BY HandlersAreSteps DEF Call, StepsLeft, Step
    <2>2. call' = [call EXCEPT ![p] = c] /\ UNCHANGED <<conn, ticker>> /\ conn # p
      BY <1>0, <1>8, Names DEF ArriveLimited, ConnectionInUse, Holds, At
    <2> HIDE DEF c
    <2> QED
      BY <2>1, <2>2, LetsGo
  <1>9. ASSUME CleanupDue \/ CleanupAcquires \/ CleanupFinishes PROVE IInv'
    BY <1>0, <1>9, Names
       DEF CleanupDue, CleanupAcquires, CleanupFinishes, IInv, ConnectionInUse, Holds, StepsLeft
  <1>10. ASSUME Tick \/ Terminate \/ Start PROVE IInv'
    BY <1>a, <1>10 DEF Tick, Terminate, Start
  <1>11. ASSUME Stopped \/ Deadline \/ Crash PROVE IInv'
    BY <1>b, <1>11 DEF Stopped, Deadline, Crash
  <1>12. CASE UNCHANGED vars
    BY <1>a, <1>12 DEF vars
  <1> QED
    BY <1>1, <1>2, <1>3, <1>4, <1>5, <1>6, <1>7, <1>8, <1>9, <1>10, <1>11, <1>12 DEF Next

\* Whoever holds the only database connection is using it, and nobody uses it
\* without holding it, whatever clients, relay, cleanup and signals do.
THEOREM ConnectionIsInUse == Spec => []ConnectionInUse
  <1>1. IInv => ConnectionInUse
    BY DEF IInv
  <1> QED
    BY <1>1, InvInit, InvStep, PTL DEF Spec

-----------------------------------------------------------------------------
(* The rate limiter.  A step of the server is one of the limiter or leaves it
   alone, so what the limiter keeps to itself the server keeps. *)

LEMMA LimiterStep == [Next]_vars => [Limiter!Next]_limiter
  <1> SUFFICES ASSUME [Next]_vars PROVE Limiter!Next \/ UNCHANGED limiter
    OBVIOUS
  <1>1. ASSUME NEW p \in Calls, Allow(p) PROVE Limiter!Next
    BY <1>1 DEF Allow, Limiter!Next
  <1>2. ASSUME NEW p \in Calls, NEW steps \in Limited, NEW ip \in IPs,
               ArriveLimited(p, steps, ip)
        PROVE  Limiter!Next
    BY <1>2 DEF ArriveLimited, Limiter!Next
  <1>3. ASSUME Stopped \/ Deadline \/ Crash PROVE Limiter!Next
    BY <1>3 DEF Stopped, Deadline, Crash, Exit, Limiter!Next
  <1>4. ASSUME Tick PROVE Limiter!Next
    BY <1>4 DEF Tick, Limiter!Next
  <1>5. ASSUME NEW p \in Calls,
               \/ Acquire(p) \/ Finish(p) \/ FinishRows(p) \/ FinishMail(p)
               \/ RelayHangs(p) \/ ClientLeaves(p)
               \/ \E steps \in Handlers \ Limited : Arrive(p, steps)
        PROVE  UNCHANGED limiter
    BY <1>5 DEF Acquire, Finish, FinishRows, FinishMail, RelayHangs, ClientLeaves, Arrive
  <1>6. ASSUME CleanupDue \/ CleanupAcquires \/ CleanupFinishes \/ Terminate \/ Start
        PROVE  UNCHANGED limiter
    BY <1>6 DEF CleanupDue, CleanupAcquires, CleanupFinishes, Terminate, Start
  <1>7. CASE UNCHANGED vars
    BY <1>7 DEF vars
  <1> QED
    BY <1>1, <1>2, <1>3, <1>4, <1>5, <1>6, <1>7 DEF Next

\* What is remembered was let through, and every request that was let through has
\* a number of its own.
AddressOK(ip) ==
  /\ IsFiniteSet(admitted[ip])
  /\ entries[ip] \subseteq admitted[ip]
  /\ \A e \in admitted[ip] :
       /\ e.stamp <= latest[ip]
       /\ e.nth < Cardinality(admitted[ip])

\* Nothing is forgotten that is still in the window of the latest decision.
Remembers(ip) ==
  \A e \in admitted[ip] : latest[ip] - Window < e.stamp => e \in entries[ip]

\* Nobody holds a stamp of the future.
InThePast ==
  /\ \A ip \in IPs : latest[ip] <= clock
  /\ \A p \in Calls : Limiter!Asks(p) => asking[p].stamp <= clock

\* The requests let through in the window that ends at t, and those that wait for
\* the mutex with a stamp that may yet bring them into it.
Through(ip, t) == {e \in admitted[ip] : t - Window < e.stamp /\ e.stamp <= t}

Waiting(ip, t) == {p \in Calls : asking[p].ip = ip /\ asking[p].stamp <= t}

\* A window is within the limit until a later stamp is decided.  From then on it
\* grows only by those who wait, fewer than all the requests by the one that was
\* decided, and nobody comes to wait with a stamp so old.
WindowOK(ip, t) ==
  /\ latest[ip] <= t => Cardinality(Through(ip, t)) <= Limit
  /\ t < latest[ip] =>
       Cardinality(Through(ip, t)) + Cardinality(Waiting(ip, t))
         < Limit + Cardinality(Calls)

LInv ==
  /\ Limiter!TypeOK
  /\ InThePast
  /\ \A ip \in IPs : AddressOK(ip) /\ Remembers(ip)
  /\ \A ip \in IPs, t \in Limiter!Time : WindowOK(ip, t)

\* The limiter counts with a FiniteSets of its own.
LEMMA SameCardinality == \A S : Limiter!Cardinality(S) = Cardinality(S)
  BY DEF Limiter!Cardinality, Cardinality

LEMMA Numbers ==
  /\ Limit \in Nat /\ Window \in Nat /\ MaxTime \in Nat
  /\ Limiter!Time = 0..MaxTime
  BY LimitAssumption DEF Limiter!Time

\* The requests that may be served at the same time can be counted, and so can any
\* of them.
LEMMA CallsCount ==
  /\ Cardinality(Calls) \in Nat /\ Cardinality(Calls) > 0
  /\ \A S \in SUBSET Calls :
       IsFiniteSet(S) /\ Cardinality(S) \in Nat /\ Cardinality(S) <= Cardinality(Calls)
  <1>1. Cardinality(Calls) \in Nat /\ Cardinality(Calls) # 0
    BY CallsAssumption, FS_CardinalityType, FS_EmptySet
  <1> QED
    BY <1>1, CallsAssumption, FS_Subset, FS_CardinalityType

\* A window in which nobody was let through, before any decision.
LEMMA NothingYet ==
  ASSUME NEW es, es = {}, NEW t \in Limiter!Time
  PROVE  Cardinality({e \in es : t - Window < e.stamp /\ e.stamp <= t}) <= Limit /\ ~(t < 0)
  <1>1. {e \in es : t - Window < e.stamp /\ e.stamp <= t} = {}
    OBVIOUS
  <1> QED
    BY <1>1, FS_EmptySet, Numbers

LEMMA LimiterInit == Init => LInv
  <1> SUFFICES ASSUME Init PROVE LInv
    OBVIOUS
  <1>1. /\ \A ip \in IPs : entries[ip] = {} /\ admitted[ip] = {} /\ latest[ip] = 0
        /\ \A p \in Calls : asking[p] = Limiter!NotAsking
        /\ clock = 0
    BY DEF Init, Limiter!Init, Limiter!NoEntries, Limiter!NothingDecided, Limiter!NobodyAsks
  <1>2. Limiter!TypeOK
    BY Numbers
       DEF Init, Limiter!Init, Limiter!TypeOK, Limiter!NoEntries, Limiter!NobodyAsks,
           Limiter!NotAsking, Limiter!NothingDecided
  <1>3. InThePast /\ \A ip \in IPs : AddressOK(ip) /\ Remembers(ip)
    BY <1>1, FS_EmptySet
       DEF AddressOK, Remembers, InThePast, Limiter!Asks, Limiter!NotAsking
  <1>4. \A ip \in IPs, t \in Limiter!Time : WindowOK(ip, t)
    BY <1>1, NothingYet DEF WindowOK, Through
  <1> QED
    BY <1>2, <1>3, <1>4 DEF LInv

\* The request that is decided, its entries and its number.
LEMMA Decided ==
  ASSUME LInv, NEW p \in Calls, Limiter!Asks(p)
  PROVE  /\ asking[p].ip \in IPs /\ asking[p].stamp \in Limiter!Time
         /\ Limiter!Stamps(p) \subseteq entries[asking[p].ip]
         /\ Limiter!Stamps(p) \subseteq admitted[asking[p].ip]
         /\ IsFiniteSet(Limiter!Stamps(p)) /\ Cardinality(Limiter!Stamps(p)) \in Nat
         /\ Limiter!Now(p) \in Limiter!Entry
         /\ Limiter!Now(p) \notin admitted[asking[p].ip]
         /\ Limiter!Now(p).stamp = asking[p].stamp
         /\ Limiter!Now(p).nth = Cardinality(admitted[asking[p].ip])
  <1>1. asking[p].ip \in IPs /\ asking[p].stamp \in Limiter!Time
    BY DEF LInv, Limiter!TypeOK, Limiter!Asks
  <1>2. Limiter!Stamps(p) \subseteq entries[asking[p].ip]
    BY DEF Limiter!Stamps, Limiter!Compact
  <1>3. /\ AddressOK(asking[p].ip)
        /\ entries[asking[p].ip] \subseteq admitted[asking[p].ip]
        /\ IsFiniteSet(admitted[asking[p].ip])
    BY <1>1 DEF LInv, AddressOK
  <1>4. IsFiniteSet(Limiter!Stamps(p)) /\ Cardinality(Limiter!Stamps(p)) \in Nat
    BY <1>2, <1>3, FS_Subset, FS_CardinalityType
  <1>5. Cardinality(admitted[asking[p].ip]) \in Nat
    BY <1>3, FS_CardinalityType
  <1>6. /\ Limiter!Now(p) \in Limiter!Entry
        /\ Limiter!Now(p).stamp = asking[p].stamp
        /\ Limiter!Now(p).nth = Cardinality(admitted[asking[p].ip])
    BY <1>1, <1>5, SameCardinality DEF Limiter!Now, Limiter!Nth, Limiter!Entry
  <1>7. Limiter!Now(p) \notin admitted[asking[p].ip]
    BY <1>3, <1>5, <1>6 DEF AddressOK
  <1> QED
    BY <1>1, <1>2, <1>3, <1>4, <1>6, <1>7

\* A request that is let through opens no window beyond the limit: a window that no
\* later stamp was decided after holds only what is remembered, and that request.
LEMMA AdmittedFits ==
  ASSUME LInv, NEW p \in Calls, Limiter!Asks(p), Limiter!Admits(p),
         NEW W, W \subseteq Limiter!Stamps(p) \cup {Limiter!Now(p)}
  PROVE  Cardinality(W) <= Limit
  <1> PICK kept : kept = Limiter!Stamps(p)
    OBVIOUS
  <1> PICK e : e = Limiter!Now(p)
    OBVIOUS
  <1>1. /\ IsFiniteSet(kept) /\ Cardinality(kept) \in Nat /\ e \notin kept
    BY Decided
  <1>2. IsFiniteSet(kept \cup {e}) /\ Cardinality(kept \cup {e}) = Cardinality(kept) + 1
    BY <1>1, FS_AddElement
  <1>3. Cardinality(W) \in Nat /\ Cardinality(W) <= Cardinality(kept \cup {e})
    BY <1>2, FS_Subset, FS_CardinalityType
  <1>4. Cardinality(kept) < Limit
    BY SameCardinality DEF Limiter!Admits
  <1> QED
    BY <1>1, <1>2, <1>3, <1>4, Numbers

\* What a decision does to the address, and to nobody else.
LEMMA AllowEffect ==
  ASSUME LInv, NEW p \in Calls, Limiter!Allow(p), NEW ip, ip = asking[p].ip,
         NEW e, e = Limiter!Now(p), NEW kept, kept = Limiter!Stamps(p)
  PROVE  /\ IF Limiter!Admits(p)
              THEN entries'[ip] = kept \cup {e} /\ admitted'[ip] = admitted[ip] \cup {e}
              ELSE entries'[ip] = kept /\ admitted'[ip] = admitted[ip]
         /\ latest'[ip] = IF latest[ip] < e.stamp THEN e.stamp ELSE latest[ip]
         /\ latest'[ip] \in Limiter!Time /\ latest[ip] <= latest'[ip] /\ e.stamp <= latest'[ip]
         /\ \A i \in IPs \ {ip} : /\ entries'[i] = entries[i] /\ admitted'[i] = admitted[i]
                                 /\ latest'[i] = latest[i]
         /\ asking'[p] = Limiter!NotAsking /\ \A q \in Calls \ {p} : asking'[q] = asking[q]
         /\ clock' = clock
         /\ Limiter!TypeOK'
  <1>0. Limiter!Asks(p) /\ Limiter!TypeOK
    BY DEF Limiter!Allow, LInv
  <1>1. /\ ip \in IPs /\ e.stamp = asking[p].stamp /\ e.stamp \in Limiter!Time
        /\ kept \subseteq Limiter!Entry /\ e \in Limiter!Entry
        /\ latest[ip] \in Limiter!Time /\ admitted[ip] \subseteq Limiter!Entry
    BY <1>0, Decided DEF Limiter!TypeOK
  <1>2. /\ latest' = [latest EXCEPT ![ip] = Limiter!Later(latest[ip], e.stamp)]
        /\ asking' = [asking EXCEPT ![p] = Limiter!NotAsking]
        /\ UNCHANGED clock
    BY <1>1 DEF Limiter!Allow
  <1>3. /\ latest'[ip] = IF latest[ip] < e.stamp THEN e.stamp ELSE latest[ip]
        /\ latest'[ip] \in Limiter!Time /\ latest[ip] <= latest'[ip] /\ e.stamp <= latest'[ip]
        /\ latest' \in [IPs -> Limiter!Time]
        /\ \A i \in IPs \ {ip} : latest'[i] = latest[i]
    BY <1>0, <1>1, <1>2, Numbers DEF Limiter!Later, Limiter!TypeOK
  <1>4. /\ asking' \in [Calls -> [ip: IPs \cup {None}, stamp: Limiter!Time]]
        /\ asking'[p] = Limiter!NotAsking /\ \A q \in Calls \ {p} : asking'[q] = asking[q]
    BY <1>0, <1>2, Numbers DEF Limiter!TypeOK, Limiter!NotAsking
  <1>5. CASE ~Limiter!Admits(p)
    <2>1. entries' = [entries EXCEPT ![ip] = kept] /\ UNCHANGED admitted
      BY <1>5 DEF Limiter!Allow
    <2> QED
      BY <1>0, <1>1, <1>2, <1>3, <1>4, <1>5, <2>1 DEF Limiter!TypeOK
  <1>6. CASE Limiter!Admits(p)
    <2>1. /\ entries' = [entries EXCEPT ![ip] = kept \cup {e}]
          /\ admitted' = [admitted EXCEPT ![ip] = admitted[ip] \cup {e}]
      BY <1>6 DEF Limiter!Allow
    <2> QED
      BY <1>0, <1>1, <1>2, <1>3, <1>4, <1>6, <2>1 DEF Limiter!TypeOK
  <1> QED
    BY <1>5, <1>6

\* What the compaction drops has left the window of the latest decision.
LEMMA RemembersMore ==
  ASSUME LInv, NEW p \in Calls, Limiter!Allow(p), NEW ip, ip = asking[p].ip,
         NEW a \in admitted[ip], latest'[ip] - Window < a.stamp
  PROVE  a \in Limiter!Stamps(p)
  <1> PICK e : e = Limiter!Now(p)
    OBVIOUS
  <1>1. ip \in IPs /\ e.stamp = asking[p].stamp /\ e.stamp \in Limiter!Time
    BY Decided DEF Limiter!Allow
  <1>2. latest[ip] \in Limiter!Time /\ a.stamp \in Limiter!Time /\ Remembers(ip)
    BY <1>1 DEF LInv, Limiter!TypeOK, Limiter!Entry
  <1>3. latest'[ip] \in Limiter!Time /\ latest[ip] <= latest'[ip] /\ e.stamp <= latest'[ip]
    BY AllowEffect
  <1>4. latest[ip] - Window < a.stamp /\ e.stamp - Window < a.stamp
    BY <1>1, <1>2, <1>3, Numbers
  <1>5. a \in entries[ip]
    BY <1>2, <1>4 DEF Remembers
  <1> QED
    BY <1>1, <1>2, <1>4, <1>5, Numbers DEF Limiter!Stamps, Limiter!Compact

LEMMA AllowAddressOK ==
  ASSUME LInv, NEW p \in Calls, Limiter!Allow(p), NEW ip, ip = asking[p].ip
  PROVE  AddressOK(ip)' /\ Remembers(ip)'
  <1> PICK e : e = Limiter!Now(p)
    OBVIOUS
  <1> PICK kept : kept = Limiter!Stamps(p)
    OBVIOUS
  <1>1. /\ ip \in IPs /\ kept \subseteq admitted[ip] /\ e \notin admitted[ip]
        /\ e.stamp \in Limiter!Time /\ e.nth = Cardinality(admitted[ip])
    BY Decided DEF Limiter!Allow
  <1>2. /\ AddressOK(ip) /\ latest[ip] \in Limiter!Time /\ admitted[ip] \subseteq Limiter!Entry
        /\ IsFiniteSet(admitted[ip]) /\ Cardinality(admitted[ip]) \in Nat
    BY <1>1, FS_CardinalityType DEF LInv, Limiter!TypeOK, AddressOK
  <1>3. /\ latest'[ip] \in Limiter!Time /\ latest[ip] <= latest'[ip] /\ e.stamp <= latest'[ip]
        /\ Limiter!Admits(p)
             => entries'[ip] = kept \cup {e} /\ admitted'[ip] = admitted[ip] \cup {e}
        /\ ~Limiter!Admits(p) => entries'[ip] = kept /\ admitted'[ip] = admitted[ip]
    BY AllowEffect
  <1>4. Remembers(ip)'
    <2>1. \A a \in admitted[ip] : latest'[ip] - Window < a.stamp => a \in kept
      BY RemembersMore
    <2> QED
      BY <1>3, <2>1 DEF Remembers
  <1>5. CASE ~Limiter!Admits(p)
    <2>1. \A a \in admitted[ip] : a.stamp <= latest'[ip]
      BY <1>2, <1>3, Numbers DEF AddressOK, Limiter!Entry
    <2> QED
      BY <1>1, <1>2, <1>3, <1>4, <1>5, <2>1 DEF AddressOK
  <1>6. CASE Limiter!Admits(p)
    <2>1. /\ IsFiniteSet(admitted'[ip])
          /\ Cardinality(admitted'[ip]) = Cardinality(admitted[ip]) + 1
      <3>1. /\ IsFiniteSet(admitted[ip] \cup {e})
            /\ Cardinality(admitted[ip] \cup {e}) = Cardinality(admitted[ip]) + 1
        BY <1>1, <1>2, FS_AddElement
      <3> QED
        BY <1>3, <1>6, <3>1
    <2>2. ASSUME NEW a \in admitted'[ip]
          PROVE  a.stamp <= latest'[ip] /\ a.nth < Cardinality(admitted'[ip])
      <3>1. CASE a = e
        BY <1>1, <1>2, <1>3, <2>1, <3>1
      <3>2. CASE a \in admitted[ip]
        <4>1. a.nth \in Nat /\ a.stamp \in Nat
          BY <1>2, <3>2, Numbers DEF Limiter!Entry
        <4> QED
          BY <1>2, <1>3, <2>1, <3>2, <4>1, Numbers DEF AddressOK
      <3> QED
        BY <1>3, <1>6, <2>2, <3>1, <3>2
    <2>3. entries'[ip] \subseteq admitted'[ip]
      BY <1>1, <1>3, <1>6
    <2> QED
      BY <1>4, <2>1, <2>2, <2>3 DEF AddressOK
  <1> QED
    BY <1>5, <1>6

\* How a decision counts in a window of its address.
LEMMA AllowWindowOK ==
  ASSUME LInv, NEW p \in Calls, Limiter!Allow(p), NEW ip, ip = asking[p].ip,
         NEW t \in Limiter!Time
  PROVE  WindowOK(ip, t)'
  <1> PICK e : e = Limiter!Now(p)
    OBVIOUS
  <1> PICK kept : kept = Limiter!Stamps(p)
    OBVIOUS
  <1> PICK W : W = Through(ip, t)
    OBVIOUS
  <1> PICK W1 : W1 = Through(ip, t)'
    OBVIOUS
  <1> PICK V : V = Waiting(ip, t)
    OBVIOUS
  <1> PICK V1 : V1 = Waiting(ip, t)'
    OBVIOUS
  <1>1. /\ ip \in IPs /\ kept \subseteq admitted[ip] /\ e.stamp = asking[p].stamp
        /\ e.stamp \in Nat /\ e \notin admitted[ip] /\ t \in Nat
    BY Decided, Numbers DEF Limiter!Allow
  <1>2. /\ latest[ip] \in Nat /\ admitted[ip] \subseteq Limiter!Entry
        /\ IsFiniteSet(admitted[ip]) /\ WindowOK(ip, t)
    BY <1>1, Numbers DEF LInv, Limiter!TypeOK, AddressOK
  <1>3. /\ latest'[ip] \in Nat
        /\ latest'[ip] = IF latest[ip] < e.stamp THEN e.stamp ELSE latest[ip]
        /\ admitted'[ip] = IF Limiter!Admits(p) THEN admitted[ip] \cup {e} ELSE admitted[ip]
        /\ asking'[p] = Limiter!NotAsking /\ \A q \in Calls \ {p} : asking'[q] = asking[q]
    <2>1. latest'[ip] \in Limiter!Time
      BY AllowEffect
    <2>2. latest'[ip] \in Nat
      BY <2>1, Numbers
    <2>3. /\ Limiter!Admits(p) => admitted'[ip] = admitted[ip] \cup {e}
          /\ ~Limiter!Admits(p) => admitted'[ip] = admitted[ip]
          /\ latest'[ip] = IF latest[ip] < e.stamp THEN e.stamp ELSE latest[ip]
      BY AllowEffect
    <2>4. asking'[p] = Limiter!NotAsking /\ \A q \in Calls \ {p} : asking'[q] = asking[q]
      BY AllowEffect
    <2> QED
      BY <2>2, <2>3, <2>4
  <1>4. /\ W \subseteq admitted[ip] /\ e \notin W
        /\ W1 = W \/ (W1 = W \cup {e} /\ e.stamp <= t /\ Limiter!Admits(p))
    BY <1>1, <1>3 DEF Through
  <1>5. /\ IsFiniteSet(W) /\ Cardinality(W) \in Nat
        /\ Cardinality(W1) = Cardinality(W)
             \/ (Cardinality(W1) = Cardinality(W) + 1 /\ e.stamp <= t)
    BY <1>2, <1>4, FS_Subset, FS_CardinalityType, FS_AddElement
  <1>6. V1 = V \ {p} /\ V \in SUBSET Calls /\ (e.stamp <= t => p \in V)
    BY <1>1, <1>3, NoAddressAssumption DEF Waiting, Limiter!NotAsking
  <1>7. /\ IsFiniteSet(V) /\ Cardinality(V) \in Nat /\ Cardinality(V1) \in Nat
        /\ IF p \in V THEN Cardinality(V1) = Cardinality(V) - 1 ELSE V1 = V
    BY <1>6, CallsCount, FS_RemoveElement
  <1>8. CASE latest'[ip] <= t
    <2>1. latest[ip] <= t
      BY <1>1, <1>2, <1>3, <1>8
    <2>2. CASE W1 = W
      BY <1>2, <1>8, <2>1, <2>2, <1>1, <1>3 DEF WindowOK
    <2>3. CASE W1 = W \cup {e} /\ Limiter!Admits(p)
      <3>1. W \subseteq kept
        <4>1. ASSUME NEW a \in W PROVE a \in kept
          <5>1. a \in admitted[ip] /\ t - Window < a.stamp /\ a.stamp \in Nat
            BY <1>2, <4>1, Numbers DEF Through, Limiter!Entry
          <5>2. latest'[ip] - Window < a.stamp
            BY <1>1, <1>3, <1>8, <5>1, Numbers
          <5> QED
            BY <5>1, <5>2, RemembersMore
        <4> QED
          BY <4>1
      <3>2. Cardinality(W1) <= Limit
        BY <2>3, <3>1, AdmittedFits DEF Limiter!Allow
      <3> QED
        BY <1>1, <1>3, <1>8, <3>2 DEF WindowOK
    <2> QED
      BY <1>4, <2>2, <2>3
  <1>9. CASE t < latest'[ip] /\ latest[ip] <= t
    <2>1. t < e.stamp
      BY <1>1, <1>2, <1>3, <1>9
    <2>2. Cardinality(W1) = Cardinality(W) /\ Cardinality(W) <= Limit
      BY <1>1, <1>2, <1>5, <1>9, <2>1 DEF WindowOK
    <2>3. p \notin V1 /\ V1 \in SUBSET Calls
      BY <1>6
    <2>4. Cardinality(V1) < Cardinality(Calls)
      <3>1. V1 \cup {p} \in SUBSET Calls /\ IsFiniteSet(V1)
        BY <2>3, CallsCount
      <3>2. Cardinality(V1 \cup {p}) = Cardinality(V1) + 1
        BY <2>3, <3>1, FS_AddElement
      <3>3. Cardinality(V1 \cup {p}) <= Cardinality(Calls)
        BY <3>1, CallsCount
      <3> QED
        BY <1>7, <3>2, <3>3, CallsCount
    <2>5. Cardinality(W1) + Cardinality(V1) < Limit + Cardinality(Calls)
      BY <1>5, <1>7, <2>2, <2>4, CallsCount, Numbers
    <2> QED
      BY <1>1, <1>3, <1>9, <2>5 DEF WindowOK
  <1>10. CASE t < latest[ip]
    <2>1. Cardinality(W) + Cardinality(V) < Limit + Cardinality(Calls)
      BY <1>2, <1>10 DEF WindowOK
    <2>2. Cardinality(W1) + Cardinality(V1) <= Cardinality(W) + Cardinality(V)
      <3>1. CASE p \in V
        BY <1>5, <1>7, <3>1
      <3>2. CASE p \notin V
        <4>1. ~(e.stamp <= t) /\ V1 = V
          BY <1>6, <1>7, <3>2
        <4> QED
          BY <1>5, <1>7, <4>1
      <3> QED
        BY <3>1, <3>2
    <2>3. Cardinality(W1) + Cardinality(V1) < Limit + Cardinality(Calls)
      BY <1>5, <1>7, <2>1, <2>2, CallsCount, Numbers
    <2>4. t < latest'[ip]
      BY <1>1, <1>2, <1>3, <1>10
    <2> QED
      BY <1>1, <1>3, <2>3, <2>4 DEF WindowOK
  <1> QED
    BY <1>1, <1>2, <1>3, <1>8, <1>9, <1>10

LEMMA AllowStep ==
  ASSUME LInv, NEW p \in Calls, Limiter!Allow(p)
  PROVE  LInv'
  <1> PICK ip : ip = asking[p].ip
    OBVIOUS
  <1> PICK e : e = Limiter!Now(p)
    OBVIOUS
  <1>1. /\ ip \in IPs /\ e.stamp = asking[p].stamp /\ e.stamp \in Nat /\ Limiter!Asks(p)
    BY Decided, Numbers DEF Limiter!Allow
  <1>2. /\ Limiter!TypeOK' /\ clock' = clock
        /\ latest'[ip] = IF latest[ip] < e.stamp THEN e.stamp ELSE latest[ip]
        /\ \A i \in IPs \ {ip} : /\ entries'[i] = entries[i] /\ admitted'[i] = admitted[i]
                                /\ latest'[i] = latest[i]
        /\ asking'[p] = Limiter!NotAsking /\ \A q \in Calls \ {p} : asking'[q] = asking[q]
    BY AllowEffect
  <1>3. InThePast'
    BY <1>1, <1>2 DEF LInv, InThePast, Limiter!Asks, Limiter!NotAsking
  <1>4. \A i \in IPs : AddressOK(i)' /\ Remembers(i)'
    <2>1. \A i \in IPs \ {ip} : AddressOK(i)' /\ Remembers(i)'
      BY <1>2 DEF LInv, AddressOK, Remembers
    <2> QED
      BY <2>1, AllowAddressOK
  <1>5. ASSUME NEW i \in IPs, NEW t \in Limiter!Time PROVE WindowOK(i, t)'
    <2>1. CASE i = ip
      BY <2>1, AllowWindowOK
    <2>2. CASE i # ip
      <3>1. Through(i, t)' = Through(i, t) /\ latest'[i] = latest[i]
        BY <1>2, <2>2 DEF Through
      <3>2. Waiting(i, t)' = Waiting(i, t)
        BY <1>2, <2>2, NoAddressAssumption DEF Waiting, Limiter!NotAsking
      <3> QED
        BY <3>1, <3>2 DEF LInv, WindowOK
    <2> QED
      BY <2>1, <2>2
  <1> QED
    BY <1>2, <1>3, <1>4, <1>5 DEF LInv

LEMMA LimiterInvStep == LInv /\ [Limiter!Next]_limiter => LInv'
  <1> SUFFICES ASSUME LInv, [Limiter!Next]_limiter PROVE LInv'
    OBVIOUS
  <1>0. clock \in Nat
    BY Numbers DEF LInv, Limiter!TypeOK
  <1>1. ASSUME Limiter!TypeOK', InThePast', UNCHANGED <<entries, admitted, latest>>,
               \A ip \in IPs, t \in Limiter!Time :
                 t < latest[ip] => Waiting(ip, t)' = Waiting(ip, t)
        PROVE  LInv'
    BY <1>1 DEF LInv, AddressOK, Remembers, WindowOK, Through
  <1>2. ASSUME Limiter!Tick PROVE LInv'
    <2>1. Limiter!TypeOK' /\ clock <= clock'
      BY <1>0, <1>2, Numbers DEF LInv, Limiter!TypeOK, Limiter!Tick
    <2>2. InThePast'
      BY <1>0, <1>2, <2>1, Numbers
         DEF LInv, InThePast, Limiter!Tick, Limiter!Asks, Limiter!TypeOK
    <2>3. \A ip \in IPs, t \in Limiter!Time : Waiting(ip, t)' = Waiting(ip, t)
      BY <1>2 DEF Limiter!Tick, Waiting
    <2> QED
      BY <1>1, <1>2, <2>1, <2>2, <2>3 DEF Limiter!Tick
  \* Whoever comes now has a stamp no older than any that was decided.
  <1>3. ASSUME NEW p \in Calls, NEW ip \in IPs, Limiter!Ask(p, ip) PROVE LInv'
    <2>1. /\ Limiter!TypeOK' /\ asking[p].ip = None
          /\ asking'[p] = [ip |-> ip, stamp |-> clock]
          /\ \A q \in Calls \ {p} : asking'[q] = asking[q]
          /\ UNCHANGED <<clock, entries, admitted, latest>>
      BY <1>3 DEF LInv, Limiter!TypeOK, Limiter!Ask, Limiter!Asks
    <2>2. InThePast'
      BY <1>0, <2>1 DEF LInv, InThePast, Limiter!Asks
    <2>3. ASSUME NEW i \in IPs, NEW t \in Limiter!Time, t < latest[i]
          PROVE  Waiting(i, t)' = Waiting(i, t)
      <3>1. ~(clock <= t)
        BY <1>0, <2>3, Numbers DEF LInv, InThePast, Limiter!TypeOK
      <3> QED
        BY <2>1, <3>1, NoAddressAssumption DEF Waiting
    <2> QED
      BY <1>1, <2>1, <2>2, <2>3
  <1>4. ASSUME Limiter!Restart PROVE LInv'
    <2>1. /\ \A ip \in IPs : entries'[ip] = {} /\ admitted'[ip] = {} /\ latest'[ip] = 0
          /\ \A p \in Calls : asking'[p] = Limiter!NotAsking
          /\ clock' = clock
      BY <1>4
         DEF Limiter!Restart, Limiter!NoEntries, Limiter!NothingDecided, Limiter!NobodyAsks
    <2>2. Limiter!TypeOK'
      BY <1>4, Numbers
         DEF LInv, Limiter!Restart, Limiter!TypeOK, Limiter!NoEntries, Limiter!NobodyAsks,
             Limiter!NotAsking, Limiter!NothingDecided
    <2>3. InThePast' /\ \A ip \in IPs : AddressOK(ip)' /\ Remembers(ip)'
      <3>1. InThePast'
        BY <1>0, <2>1 DEF InThePast, Limiter!Asks, Limiter!NotAsking
      <3>2. \A ip \in IPs : AddressOK(ip)' /\ Remembers(ip)'
        BY <2>1, FS_EmptySet DEF AddressOK, Remembers
      <3> QED
        BY <3>1, <3>2
    <2>4. \A ip \in IPs, t \in Limiter!Time : WindowOK(ip, t)'
      BY <2>1, NothingYet DEF WindowOK, Through
    <2> QED
      BY <2>2, <2>3, <2>4 DEF LInv
  <1>5. CASE UNCHANGED limiter
    <2>1. /\ Limiter!TypeOK' /\ InThePast'
          /\ \A ip \in IPs, t \in Limiter!Time : Waiting(ip, t)' = Waiting(ip, t)
      BY <1>5 DEF LInv, Limiter!TypeOK, limiter, InThePast, Limiter!Asks, Waiting
    <2> QED
      BY <1>1, <1>5, <2>1 DEF limiter
  <1> QED
    BY <1>2, <1>3, <1>4, <1>5, AllowStep DEF Limiter!Next

\* The limiter keeps its invariant in every run of the server.
LEMMA LimiterInvariant == Spec => []LInv
  BY LimiterInit, LimiterInvStep, LimiterStep, PTL DEF Spec

\* What the requests, the limiter, the process and its ticker keep has the types
\* of the code's.
THEOREM TypeCorrect == Spec => []TypeOK
  <1>1. Init => phase \in {"serving", "stopping", "exited"}
    BY DEF Init
  <1>2. phase \in {"serving", "stopping", "exited"} /\ [Next]_vars
          => (phase \in {"serving", "stopping", "exited"})'
    BY DEF Next, vars, limiter, Tick, CleanupDue, CleanupAcquires, CleanupFinishes, Terminate,
           Stopped, Deadline, Crash, Exit, Start, Allow, Acquire, Finish, FinishRows,
           FinishMail, RelayHangs, ClientLeaves, Arrive, ArriveLimited
  <1>3. IInv /\ LInv /\ phase \in {"serving", "stopping", "exited"} => TypeOK
    BY DEF IInv, LInv, TypeOK
  <1> QED
    BY <1>1, <1>2, <1>3, InvInit, InvStep, LimiterInvariant, PTL DEF Spec

\* In every window of any length at most the limit is let through until a later
\* stamp is decided, and then no more than one for each other request that may be
\* waiting, in whatever order stamps are taken and decided.
THEOREM LimitHolds == Spec => []WithinLimit
  <1>1. LInv => WithinLimit
    <2> SUFFICES ASSUME LInv, NEW ip \in IPs, NEW t \in Limiter!Time
                 PROVE  /\ latest[ip] <= t => Cardinality(Through(ip, t)) <= Limit
                        /\ Cardinality(Through(ip, t)) < Limit + Cardinality(Calls)
      BY SameCardinality
         DEF WithinLimit, Limiter!WithinLimit, Limiter!InWindow, Through
    <2>1. latest[ip] \in Nat /\ t \in Nat /\ WindowOK(ip, t)
      BY Numbers DEF LInv, Limiter!TypeOK
    <2>2. Cardinality(Through(ip, t)) \in Nat
      BY FS_Subset, FS_CardinalityType DEF LInv, AddressOK, Through
    <2>3. Cardinality(Waiting(ip, t)) \in Nat
      BY CallsCount DEF Waiting
    <2> QED
      BY <2>1, <2>2, <2>3, CallsCount, Numbers DEF WindowOK
  <1> QED
    BY <1>1, LimiterInvariant, PTL

\* Whoever is refused has Limit requests let through in the hour before the stamp,
\* or later.
Due(p) ==
  LET ip == asking[p].ip  now == asking[p].stamp IN
  Limiter!Allow(p) /\ admitted' = admitted =>
    Limiter!Cardinality({e \in admitted[ip] : now - Window < e.stamp}) >= Limit

LEMMA RefusalDue == ASSUME LInv, NEW p \in Calls PROVE Due(p)
  <1> SUFFICES ASSUME Limiter!Allow(p), admitted' = admitted
               PROVE  Cardinality({e \in admitted[asking[p].ip] :
                                     asking[p].stamp - Window < e.stamp}) >= Limit
    BY SameCardinality DEF Due
  <1> PICK ip : ip = asking[p].ip
    OBVIOUS
  <1> PICK full : full = {e \in admitted[ip] : asking[p].stamp - Window < e.stamp}
    OBVIOUS
  <1>0. Limiter!Asks(p) /\ Limiter!TypeOK
    BY DEF Limiter!Allow, LInv
  <1>1. /\ ip \in IPs /\ asking[p].stamp \in Limiter!Time
        /\ Limiter!Stamps(p) \subseteq admitted[ip]
        /\ Cardinality(Limiter!Stamps(p)) \in Nat
        /\ Limiter!Now(p) \notin admitted[ip]
    BY <1>0, Decided
  <1>2. IsFiniteSet(admitted[ip]) /\ admitted[ip] \subseteq Limiter!Entry
    BY <1>0, <1>1 DEF LInv, AddressOK, Limiter!TypeOK
  <1>3. ~Limiter!Admits(p)
    <2>1. Limiter!Admits(p)
            => admitted' = [admitted EXCEPT ![ip] = admitted[ip] \cup {Limiter!Now(p)}]
      BY DEF Limiter!Allow
    <2>2. admitted \in [IPs -> SUBSET Limiter!Entry]
      BY <1>0 DEF Limiter!TypeOK
    <2> QED
      BY <1>1, <2>1, <2>2
  <1>4. Limiter!Stamps(p) \in SUBSET full
    BY <1>1, <1>2, Numbers DEF Limiter!Stamps, Limiter!Compact, Limiter!Entry, Limiter!Time
  <1>5. IsFiniteSet(full) /\ Cardinality(full) \in Nat
    BY <1>2, FS_Subset, FS_CardinalityType
  <1>6. Cardinality(Limiter!Stamps(p)) <= Cardinality(full)
    BY <1>4, <1>5, FS_Subset
  <1> QED
    BY <1>1, <1>3, <1>5, <1>6, SameCardinality, Numbers DEF Limiter!Admits

\* Whoever is answered 429 has that many requests of their address in the hour
\* before the stamp, or later, that were let through.
THEOREM RefusalsAreDue == Spec => RefusedOnlyWhenFull
  <1>1. LInv /\ [Next]_vars =>
          [\A p \in Calls :
             LET ip == asking[p].ip  now == asking[p].stamp IN
             Limiter!Allow(p) /\ admitted' = admitted =>
               Limiter!Cardinality({e \in admitted[ip] : now - Window < e.stamp})
                 >= Limit]_Limiter!vars
    BY RefusalDue DEF Due
  <1> QED
    BY <1>1, LimiterInvariant, PTL
       DEF Spec, RefusedOnlyWhenFull, Limiter!RefusedOnlyWhenFull

=============================================================================
