----------------------------- MODULE SocketRecord -----------------------------
(***************************************************************************)
(* hsmsss socketRecord: the one close gate of a socket, and the report     *)
(* scopes that order every frame's report ahead of the close's, without    *)
(* anyone waiting. Closers race for the gate (Stop, teardown, disconnect   *)
(* reports); reporters move frame after frame across the socket, each in a *)
(* scope. Sections under mu are one step; conn.Close, the observer calls   *)
(* and what happens between them are steps of their own.                   *)
(***************************************************************************)
EXTENDS Naturals, Sequences, FiniteSets

CONSTANTS
  Closer,       \* goroutines that close the socket
  ReportCloser, \* those of them that make a disconnect report (closeForReport)
  Reporter      \* goroutines that move frames: the read loop, the writers

ASSUME SocketAssumption ==
  /\ IsFiniteSet(Reporter)
  /\ ReportCloser \subseteq Closer
  /\ Closer \cap Reporter = {}

NoOne == "no one"
ASSUME NoOneAssumption == NoOne \notin Closer

VARIABLES
  closing,        \* the gate's winner (closed, closing), or NoOne
  connOpen,       \* the conn itself
  closeArmed, openReports, closeReported,
  pc,             \* of closers and reporters
  answer,         \* what closeForReport told its caller, and that it was acted on
  log             \* what the observers were told from the first close report on

recVars == <<closing, closeArmed, openReports, closeReported>>
sockVars == <<recVars, connOpen, pc, answer, log>>

Thread == Closer \cup Reporter
CloserPC == {"idle", "close", "arm", "deliver", "done"}
ReporterPC == {"idle", "open", "bare", "moved", "ending", "deliver", "done"}

SockInit ==
  /\ closing = NoOne /\ connOpen = TRUE
  /\ closeArmed = FALSE /\ openReports = 0 /\ closeReported = FALSE
  /\ pc = [t \in Thread |-> "idle"]
  /\ answer = [c \in Closer |-> "none"]
  /\ log = <<>>

\* Every variable has its type.
SockTypeOK ==
  /\ closing \in Closer \cup {NoOne} /\ connOpen \in BOOLEAN
  /\ closeArmed \in BOOLEAN /\ openReports \in 0 .. Cardinality(Reporter)
  /\ closeReported \in BOOLEAN
  /\ pc \in [Thread -> CloserPC \cup ReporterPC]
  /\ answer \in [Closer -> {"none", "report", "suppress", "made"}]
  /\ log \in Seq([what : {"frame", "closed"}, who : Thread])

Goto(t, l) == pc' = [pc EXCEPT ![t] = l]

-----------------------------------------------------------------------------
(* The gate. *)

GateFree == closing = NoOne

\* closeForReport: made, unless another disconnect report won.
\* Faulty variant: a report that lost to another is made too.
ReportMadeAlways(c) == TRUE
ReportMade(c) == GateFree \/ closing \notin ReportCloser

Gate(c) ==
  /\ pc[c] = "idle"
  /\ answer' = [answer EXCEPT ![c] = IF ReportMade(c) THEN "report" ELSE "suppress"]
  /\ IF GateFree THEN closing' = c /\ Goto(c, "close")
     ELSE UNCHANGED closing /\ Goto(c, "done")
  /\ UNCHANGED <<closeArmed, openReports, closeReported, connOpen, log>>

CloseConn(c) ==
  /\ pc[c] = "close"
  /\ connOpen' = FALSE /\ Goto(c, "arm")
  /\ UNCHANGED <<recVars, answer, log>>

\* The report is armed and, when no scope is open, taken.
\* Faulty variant: it is taken whether or not a scope is open.
NoScopeOpenIgnored == TRUE
NoScopeOpen == openReports = 0

Arm(c) ==
  /\ pc[c] = "arm"
  /\ closeArmed' = TRUE
  /\ closeReported' = (closeReported \/ NoScopeOpen)
  /\ Goto(c, IF NoScopeOpen THEN "deliver" ELSE "done")
  /\ UNCHANGED <<closing, openReports, connOpen, answer, log>>

\* observeSocket(SocketClosed), outside mu, with the winner's reason; a reporter
\* goes on with its next frame.
Deliver(t) ==
  /\ pc[t] = "deliver"
  /\ log' = Append(log, [what |-> "closed", who |-> closing])
  /\ Goto(t, IF t \in Closer THEN "done" ELSE "idle")
  /\ UNCHANGED <<recVars, connOpen, answer>>

-----------------------------------------------------------------------------
(* A report scope around each frame. *)

Refused == closing # NoOne

Counted == openReports + 1

\* A frame moved without a scope is not reported.
OpenReport(r) ==
  /\ pc[r] = "idle"
  /\ IF Refused THEN Goto(r, "bare") /\ UNCHANGED openReports
     ELSE Goto(r, "open") /\ openReports' = Counted
  /\ UNCHANGED <<closing, closeArmed, closeReported, connOpen, answer, log>>

\* The read or write went through, which takes an open conn.
Moved(r) ==
  /\ connOpen
  /\ \/ pc[r] = "open" /\ Goto(r, "moved")
     \/ pc[r] = "bare" /\ Goto(r, "idle")
  /\ UNCHANGED <<recVars, connOpen, answer, log>>

\* It failed, as it must once the conn is closed, and ends the goroutine's work.
MoveFails(r) ==
  /\ \/ pc[r] = "open" /\ Goto(r, "ending")
     \/ pc[r] = "bare" /\ Goto(r, "done")
  /\ UNCHANGED <<recVars, connOpen, answer, log>>

ReportFrame(r) ==
  /\ pc[r] = "moved"
  /\ log' = IF log = <<>> THEN log ELSE Append(log, [what |-> "frame", who |-> r])
  /\ Goto(r, "ending")
  /\ UNCHANGED <<recVars, connOpen, answer>>

\* The last scope takes the armed report, once.
\* Faulty variant: it leaves the report to the closer.
LastScopeNever == FALSE
LastScope == closeArmed /\ openReports = 1 /\ ~closeReported

EndReport(r) ==
  /\ pc[r] = "ending"
  /\ openReports' = openReports - 1
  /\ closeReported' = (closeReported \/ LastScope)
  /\ Goto(r, IF LastScope THEN "deliver" ELSE "idle")
  /\ UNCHANGED <<closing, closeArmed, connOpen, answer, log>>

-----------------------------------------------------------------------------
(* Properties. *)

CloseReports == {i \in 1 .. Len(log) : log[i].what = "closed"}

\* socketRecord and gate: the close is "reported exactly once, with the reason of
\* whichever path got there first", after "every frame read or written while a
\* scope was open", and only for a conn that is closed.
CloseReportedLast ==
  \A i \in CloseReports : i = Len(log) /\ log[i].who = closing /\ ~connOpen

\* endReport and gate hand the report to each other: once closed, and all scopes
\* ended, the close is reported.
CloseReported == closing # NoOne ~> CloseReports # {}
=============================================================================
