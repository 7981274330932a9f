---------------------------- MODULE RateLimiter ----------------------------
(***************************************************************************)
(* The sliding window of middleware/ratelimit.go.  A request reads the     *)
(* clock before it waits for the mutex, so requests may be decided in      *)
(* another order than they were stamped.  The clock is Go's monotonic one, *)
(* cut off at MaxTime.  The entries are in memory: a restart forgets them, *)
(* and the properties speak of one run of the process.                     *)
(***************************************************************************)
EXTENDS Integers, FiniteSets

CONSTANTS IPs, Calls,
          Limit,       \* maxPerHour
          Window,      \* an hour, in ticks of the clock
          MaxTime,     \* bound: the last tick
          None

VARIABLES clock,
          entries,     \* the stamps kept for each address
          asking       \* the address and the stamp of each request at the limiter

\* History, read by the properties, and to tell equal stamps apart.
VARIABLES admitted,    \* the requests of each address that were let through
          latest       \* the latest stamp decided for each address

vars == <<clock, entries, asking, admitted, latest>>

-----------------------------------------------------------------------------

Time == 0..MaxTime

\* The slice holds times only, and nothing depends on their order.  nth, how many
\* of the address were let through before, keeps equal times apart in a set.
Entry == [stamp: Time, nth: Nat]

NotAsking == [ip |-> None, stamp |-> 0]

Asks(p) == asking[p].ip # None

TypeOK ==
  /\ clock \in Time
  /\ entries \in [IPs -> SUBSET Entry]
  /\ asking \in [Calls -> [ip: IPs \cup {None}, stamp: Time]]
  /\ admitted \in [IPs -> SUBSET Entry]
  /\ latest \in [IPs -> Time]

NoEntries == [ip \in IPs |-> {}]

NobodyAsks == [p \in Calls |-> NotAsking]

NothingDecided == [ip \in IPs |-> 0]

Init ==
  /\ clock = 0
  /\ entries = NoEntries
  /\ asking = NobodyAsks
  /\ admitted = NoEntries
  /\ latest = NothingDecided

Restart ==
  /\ entries' = NoEntries
  /\ asking' = NobodyAsks
  /\ admitted' = NoEntries
  /\ latest' = NothingDecided
  /\ UNCHANGED clock

Tick ==
  /\ clock < MaxTime
  /\ clock' = clock + 1
  /\ UNCHANGED <<entries, asking, admitted, latest>>

\* time.Now(), before the Lock.
Ask(p, ip) ==
  /\ ~Asks(p)
  /\ asking' = [asking EXCEPT ![p] = [ip |-> ip, stamp |-> clock]]
  /\ UNCHANGED <<clock, entries, admitted, latest>>

\* Bug: stamps at the very end of the window are kept too.
Compact_Closed(es, now) == {e \in es : e.stamp >= now - Window}

Compact(es, now) == {e \in es : e.stamp > now - Window}

Stamps(p) == Compact(entries[asking[p].ip], asking[p].stamp)

\* Bug: one request too many.
Admits_OneMore(p) == Cardinality(Stamps(p)) <= Limit

Admits(p) == Cardinality(Stamps(p)) < Limit

Later(t, u) == IF t < u THEN u ELSE t

Nth(p) == Cardinality(admitted[asking[p].ip])

\* Bug: what is kept is the time when the stamp leaves the window.
Now_End(p) == [stamp |-> asking[p].stamp + Window, nth |-> Nth(p)]

Now(p) == [stamp |-> asking[p].stamp, nth |-> Nth(p)]

\* What is decided under the mutex.
Allow(p) ==
  LET ip == asking[p].ip  now == asking[p].stamp IN
  /\ Asks(p)
  /\ IF Admits(p)
       THEN /\ entries' = [entries EXCEPT ![ip] = Stamps(p) \cup {Now(p)}]
            /\ admitted' = [admitted EXCEPT ![ip] = @ \cup {Now(p)}]
       ELSE /\ entries' = [entries EXCEPT ![ip] = Stamps(p)]
            /\ UNCHANGED admitted
  /\ latest' = [latest EXCEPT ![ip] = Later(@, now)]
  /\ asking' = [asking EXCEPT ![p] = NotAsking]
  /\ UNCHANGED clock

Next ==
  \/ Tick \/ Restart
  \/ \E p \in Calls : Allow(p) \/ \E ip \in IPs : Ask(p, ip)

Spec == Init /\ [][Next]_vars

-----------------------------------------------------------------------------

\* Those of the requests whose stamps are in the window that ends at t.
InWindow(es, t) == {e \in es : t - Window < e.stamp /\ e.stamp <= t}

\* At most Limit requests are let through in a window that no later stamp was
\* decided after, and so in the most recent one at any time (ratelimit.go:7).
\* Looking back it may be more: once a later stamp was decided, what it left behind
\* may be filled again by those who had read the clock before and still waited for
\* the mutex.  However they crowd there, a window never has more than Limit and one
\* for each of the other requests that may be served at the same time.
WithinLimit ==
  \A ip \in IPs, t \in Time :
    LET n == Cardinality(InWindow(admitted[ip], t)) IN
    /\ latest[ip] <= t => n <= Limit
    /\ n < Limit + Cardinality(Calls)

\* Nobody is turned away before Limit requests of the same address were let
\* through in the hour before, or after, the stamp: what left the window, and
\* what was refused, is not held against anybody (allow returns false without
\* recording).
RefusedOnlyWhenFull ==
  [][\A p \in Calls :
       LET ip == asking[p].ip  now == asking[p].stamp IN
       Allow(p) /\ admitted' = admitted =>
         Cardinality({e \in admitted[ip] : now - Window < e.stamp}) >= Limit]_vars

=============================================================================
