------------------------------- MODULE Server -------------------------------
(***************************************************************************)
(* How requests share the process: main.go, db.Connect, the rate limiter   *)
(* before three of the routes, mail.Send, and what a handler may hold      *)
(* while it waits.  db.Connect allows one connection to the database, so a *)
(* handler that holds it holds up everybody.                               *)
(*                                                                         *)
(* A handler is the sequence of its steps: "stmt" is a statement or a      *)
(* transaction, which gives the connection back at its end; "mail" talks   *)
(* to the relay; "rows" mails every administrator while the rows of a      *)
(* query are read, and gives the connection back after the last of them.   *)
(* Statements that follow each other are one step: each waits and is given *)
(* up as the first is.  What statements and mails say is left to the other *)
(* modules.                                                                *)
(***************************************************************************)
EXTENDS Naturals, Sequences, FiniteSets

CONSTANTS IPs, Calls, Limit, Window, MaxTime, None

ASSUME LimitAssumption == Limit \in Nat /\ Window \in Nat \ {0} /\ MaxTime \in Nat
ASSUME NoAddressAssumption == None \notin IPs
ASSUME CallsAssumption == IsFiniteSet(Calls) /\ Calls # {}

VARIABLES clock, entries, asking, admitted, latest

VARIABLES phase,    \* of the process
          conn,     \* who holds the database connection, None when it is idle
          call,     \* the requests being served
          ticker    \* the goroutine that deletes expired sessions every hour

limiter == <<clock, entries, asking, admitted, latest>>

vars == <<limiter, phase, conn, call, ticker>>

Limiter == INSTANCE RateLimiter

-----------------------------------------------------------------------------

\* requestCredentialReset: the look-ups and the INSERT, and then mail under rows.
Reset == <<"stmt", "rows">>

\* submitRequest mails after its last statement.
Submit == <<"stmt", "mail">>

\* beginLogin: SELECT, loadWAUser, INSERT.
Login == <<"stmt">>

\* finishRegisterPasskey and frejaRegister of an ADMIN_EMAILS address:
\* SendApprovalEmail's transaction and mail, and maybeAutoApprove's mail under rows.
AutoApprove == <<"stmt", "mail", "stmt", "rows">>

Limited == {Reset, Submit, Login}

\* Every other handler is a few statements, or those and one mail after them.
Handlers == Limited \cup {AutoApprove}

Ticker == "ticker"

ASSUME TickerAssumption == Ticker \notin Calls /\ None \notin Calls \cup {Ticker}

\* hung: the relay has stopped answering the mail this request is sending.
Call == [pc: {"idle", "limiter", "wait", "stmt", "rows", "mail"},
         steps: Seq({"stmt", "rows", "mail"}), hung: BOOLEAN]

NoCall == [pc |-> "idle", steps |-> <<>>, hung |-> FALSE]

At(p, pc) == call[p].pc = pc

Holds(p) == call[p].pc \in {"stmt", "rows"}

\* Where a handler stands that has these steps to do.
Ready(steps) ==
  IF steps = <<>> THEN NoCall
  ELSE [pc |-> IF Head(steps) = "mail" THEN "mail" ELSE "wait",
        steps |-> steps, hung |-> FALSE]

TypeOK ==
  /\ Limiter!TypeOK
  /\ phase \in {"serving", "stopping", "exited"}
  /\ conn \in Calls \cup {Ticker, None}
  /\ call \in [Calls -> Call]
  /\ ticker \in {"idle", "wait", "stmt"}

Init ==
  /\ Limiter!Init
  /\ phase = "serving"
  /\ conn = None
  /\ call = [p \in Calls |-> NoCall]
  /\ ticker = "idle"

-----------------------------------------------------------------------------
(* The limiter, before the handlers that it is put before. *)

ArriveLimited(p, steps, ip) ==
  /\ phase = "serving"
  /\ At(p, "idle")
  /\ Limiter!Ask(p, ip)
  /\ call' = [call EXCEPT ![p] = [pc |-> "limiter", steps |-> steps, hung |-> FALSE]]
  /\ UNCHANGED <<phase, conn, ticker>>

Arrive(p, steps) ==
  /\ phase = "serving"
  /\ At(p, "idle")
  /\ call' = [call EXCEPT ![p] = Ready(steps)]
  /\ UNCHANGED <<limiter, phase, conn, ticker>>

\* 429 Too Many Requests, or the handler.
Allow(p) ==
  /\ At(p, "limiter")
  /\ call' = [call EXCEPT ![p] =
                IF Limiter!Admits(p) THEN Ready(call[p].steps) ELSE NoCall]
  /\ Limiter!Allow(p)
  /\ UNCHANGED <<phase, conn, ticker>>

Tick == Limiter!Tick /\ UNCHANGED <<phase, conn, call, ticker>>

-----------------------------------------------------------------------------
(* The connection: SetMaxOpenConns(1). *)

\* database/sql hands a connection that comes back to any of those who wait.
Acquire(p) ==
  /\ At(p, "wait")
  /\ conn = None
  /\ conn' = p
  /\ call' = [call EXCEPT ![p].pc = Head(call[p].steps)]
  /\ UNCHANGED <<limiter, phase, ticker>>

\* The statement ends, or the transaction, or QueryRow's Scan.
Finish(p) ==
  /\ At(p, "stmt")
  /\ conn' = None
  /\ call' = [call EXCEPT ![p] = Ready(Tail(call[p].steps))]
  /\ UNCHANGED <<limiter, phase, ticker>>

\* Bug: a statement is run on h.db for each administrator while the rows are open.
FinishRows_Nested(p) ==
  /\ At(p, "rows")
  /\ call' = [call EXCEPT ![p] = Ready(<<"stmt">>)]
  /\ UNCHANGED <<limiter, phase, conn, ticker>>

\* The last administrator was mailed, and rows.Next closes the rows.
FinishRows(p) ==
  /\ At(p, "rows")
  /\ ~call[p].hung
  /\ conn' = None
  /\ call' = [call EXCEPT ![p] = Ready(Tail(call[p].steps))]
  /\ UNCHANGED <<limiter, phase, ticker>>

\* mail.Send returns; its error is printed at most.
FinishMail(p) ==
  /\ At(p, "mail")
  /\ ~call[p].hung
  /\ call' = [call EXCEPT ![p] = Ready(Tail(call[p].steps))]
  /\ UNCHANGED <<limiter, phase, conn, ticker>>

\* Send sets no deadline on the connection to the relay.
RelayHangs(p) ==
  /\ call[p].pc \in {"rows", "mail"}
  /\ ~call[p].hung
  /\ call' = [call EXCEPT ![p].hung = TRUE]
  /\ UNCHANGED <<limiter, phase, conn, ticker>>

\* Bug: the query was made without the request's context.
ClientLeaves_NoContext(p) ==
  /\ call[p].pc \in {"wait", "stmt", "rows", "mail"}
  /\ call' = [call EXCEPT ![p] =
                IF At(p, "wait") \/ At(p, "stmt") THEN NoCall ELSE @]
  /\ conn' = IF At(p, "stmt") THEN None ELSE conn
  /\ UNCHANGED <<limiter, phase, ticker>>

\* The context of the request ends: a statement, the wait for the connection and
\* the rows are given up, and later statements fail.  Mail takes no context: the
\* one being sent goes on without the connection.
ClientLeaves(p) ==
  /\ call[p].pc \in {"wait", "stmt", "rows", "mail"}
  /\ call' = [call EXCEPT ![p] =
                IF At(p, "wait") \/ At(p, "stmt") THEN NoCall
                ELSE [@ EXCEPT !.pc = "mail", !.steps = <<"mail">>]]
  /\ conn' = IF conn = p THEN None ELSE conn
  /\ UNCHANGED <<limiter, phase, ticker>>

\* The proxy gives a request up that the relay keeps waiting.
ProxyTimeout(p) == call[p].hung /\ ClientLeaves(p)

-----------------------------------------------------------------------------
(* The hourly CleanupSessions, with no context to give up by. *)

CleanupDue ==
  /\ phase # "exited"
  /\ ticker = "idle"
  /\ ticker' = "wait"
  /\ UNCHANGED <<limiter, phase, conn, call>>

CleanupAcquires ==
  /\ ticker = "wait"
  /\ conn = None
  /\ conn' = Ticker
  /\ ticker' = "stmt"
  /\ UNCHANGED <<limiter, phase, call>>

CleanupFinishes ==
  /\ ticker = "stmt"
  /\ conn' = None
  /\ ticker' = "idle"
  /\ UNCHANGED <<limiter, phase, call>>

-----------------------------------------------------------------------------
(* Stopping and starting. *)

Idle == \A p \in Calls : At(p, "idle")

\* SIGINT or SIGTERM: Shutdown closes the listener.
Terminate ==
  /\ phase = "serving"
  /\ phase' = "stopping"
  /\ UNCHANGED <<limiter, conn, call, ticker>>

\* What is in memory goes with the process.
Exit ==
  /\ phase' = "exited"
  /\ conn' = None
  /\ call' = [p \in Calls |-> NoCall]
  /\ ticker' = "idle"
  /\ Limiter!Restart

Stopped == phase = "stopping" /\ Idle /\ Exit

\* Bug: Shutdown is called with context.Background().
Deadline_None == phase = "stopping" /\ Idle /\ Exit

\* Ten seconds after the signal log.Fatalf ends what is still being served.
Deadline == phase = "stopping" /\ ~Idle /\ Exit

Crash == phase = "serving" /\ Exit

Start ==
  /\ phase = "exited"
  /\ phase' = "serving"
  /\ UNCHANGED <<limiter, conn, call, ticker>>

-----------------------------------------------------------------------------

Next ==
  \/ Tick \/ CleanupDue \/ CleanupAcquires \/ CleanupFinishes
  \/ Terminate \/ Stopped \/ Deadline \/ Crash \/ Start
  \/ \E p \in Calls :
       \/ Allow(p) \/ Acquire(p) \/ Finish(p) \/ FinishRows(p) \/ FinishMail(p)
       \/ RelayHangs(p) \/ ClientLeaves(p)
       \/ \E steps \in Handlers \ Limited : Arrive(p, steps)
       \/ \E steps \in Limited, ip \in IPs : ArriveLimited(p, steps, ip)

\* The scheduler runs every goroutine, statements end, a relay that has not
\* stopped answering answers, the proxy does not wait for ever, the deadline
\* passes; and of those who wait for the connection database/sql picks one at
\* random, so that nobody is passed over for ever.  Nothing makes a client come
\* or leave, or the process stop.
Fairness ==
  /\ \A p \in Calls :
       /\ WF_vars(Allow(p))
       /\ SF_vars(Acquire(p))
       /\ WF_vars(Finish(p)) /\ WF_vars(FinishRows(p)) /\ WF_vars(FinishMail(p))
       /\ WF_vars(ProxyTimeout(p))
  /\ SF_vars(CleanupAcquires) /\ WF_vars(CleanupFinishes)
  /\ WF_vars(Stopped) /\ WF_vars(Deadline)

Spec == Init /\ [][Next]_vars /\ Fairness

-----------------------------------------------------------------------------
(* Safety. *)

\* The connection is held by one who is using it: no request ends, is given up by
\* its client, or talks to the relay after its last row, and keeps the connection.
ConnectionInUse ==
  /\ conn \in Calls => Holds(conn)
  /\ conn = Ticker <=> ticker = "stmt"
  /\ \A p \in Calls : Holds(p) => conn = p

WithinLimit == Limiter!WithinLimit

RefusedOnlyWhenFull == Limiter!RefusedOnlyWhenFull

-----------------------------------------------------------------------------
(* Liveness. *)

\* However the relay behaves, the only connection is given back again and again.
ConnectionComesBack == []<>(conn = None)

\* Everybody who waits for the connection gets it, gives up, or ends with the
\* process: also the cleanup, which cannot give up.
NobodyWaitsForEver ==
  /\ \A p \in Calls : At(p, "wait") ~> ~At(p, "wait")
  /\ ticker = "wait" ~> ticker # "wait"

\* A signal to stop ends the process, also when a request hangs (main.go:185).
ShutdownEnds == phase = "stopping" ~> phase = "exited"

=============================================================================
