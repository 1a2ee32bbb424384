-------------------------- MODULE HsmsSessionProofs --------------------------
(***************************************************************************)
(* Theorems about HsmsSession, for every threshold, amount of traffic and  *)
(* capacity of the wire: who reports a socket's end, why the link goes     *)
(* down, and when the linktest gives it up.                                *)
(***************************************************************************)
EXTENDS HsmsSession, TLAPS

-----------------------------------------------------------------------------
(* The inductive invariant. *)

\* The receive loop is inside a report scope.
Scoped == {"open", "moved", "ending"}

\* One closer holds the gate, and closes the conn before it arms the report.
GateInv ==
  /\ closing = NoOne => connOpen /\ ~closeArmed
  /\ closeArmed => ~connOpen
  /\ \A c \in Closer :
       /\ IF c = closing THEN pc[c] \in CloserPC \ {"idle"}
          ELSE pc[c] = "idle" \/ (pc[c] = "done" /\ closing # NoOne)
       /\ pc[c] \in {"close", "arm"} => ~closeArmed
       /\ pc[c] \in {"arm", "deliver"} => ~connOpen

\* The close is reported by whoever comes last of the closer and the open
\* scope: nobody else is about to, and no frame follows.
ReportInv ==
  /\ closeReported => closeArmed /\ pc["recv"] \notin Scoped
  /\ \A t \in Thread : pc[t] = "deliver" =>
       closeReported /\ log = <<>> /\ \A u \in Thread : pc[u] = "deliver" => u = t
  /\ log # <<>> => closeReported /\ log = <<[what |-> "closed", who |-> closing]>>

\* openReports counts the read loop's scope.
SockTypes ==
  /\ closing \in Closer \cup {NoOne} /\ connOpen \in BOOLEAN
  /\ closeArmed \in BOOLEAN /\ closeReported \in BOOLEAN
  /\ pc \in [Thread -> CloserPC \cup ReporterPC]
  /\ openReports = IF pc["recv"] \in Scoped THEN 1 ELSE 0

SockInv == SockTypes /\ GateInv /\ ReportInv

\* A disconnect report is owed or queued only by the winner of the gate, or by
\* a goroutine that lost it to the teardown of a generation that is over.
CauseInv ==
  /\ answer \in [Closer -> {"none", "report", "suppress", "made"}]
  /\ \A c \in ReportCloser : answer[c] = "report" => closing \in {c, "teardown"}
  /\ closing = "teardown" => ~Live
  /\ events \in Seq(ReportCloser \cup {"t7"})
  /\ \A i \in 1 .. Len(events) : events[i] \in ReportCloser => events[i] = closing
  /\ applied \in ReportCloser => applied = closing

\* Where the receive loop is, and the frame it has in hand.
StageInv ==
  /\ fsm \in {"NotConnected", "NotSelected", "Selected"}
  /\ stage \in {"enter", "failed", "io"} => frame = NoFrame
  /\ stage = "commit" => frame.type = "Select.rsp"
  /\ stage \in {"selected", "unchanged"} =>
       frame.type \in {"Select.req", "Select.rsp"} /\ fsm # "NotSelected"
  /\ stage = "lost" => frame.type = "Deselect.req"
  /\ stage = "read" /\ pc["recv"] \in {"open", "bare"} => frame = NoFrame

\* The linktest goroutine.
LtTypes ==
  /\ fails \in Nat /\ probes \in Nat /\ quiet \in Nat
  /\ lt \in {"off", "sleep", "wait", "failed", "recheck", "report"}

\* Besides our Select only the probe that waits is an open transaction, and a probe
\* is sent only between startLinktest and stopLinktest.
OpenInv ==
  /\ \A i \in open : i = SelectId \/ (lt = "wait" /\ i = ProbeId(probes))
  /\ lt = "wait" => probes >= 1
  /\ lt \in {"wait", "failed"} => Live
  /\ lt \in {"sleep", "wait", "failed"} /\ Live => Started

\* Every failure of the current run is a probe sent since the last sign of life, and
\* so is the probe that waits. What a run without suppression reads excuses nothing.
\* A linktest that does not run has counted nothing.
QuietInv ==
  /\ (suppress /\ heardSince) \/ quiet >= fails
  /\ lt \in {"wait", "failed"} =>
       \/ suppress /\ heard
       \/ quiet >= 1 /\ ((suppress /\ heardSince) \/ quiet >= fails + 1)
  /\ lt = "recheck" => (suppress /\ heard) \/ (quiet >= Threshold /\ quiet >= fails)
  /\ lt = "off" \/ ~Live => fails = 0

LinktestInv == LtTypes /\ OpenInv /\ QuietInv

-----------------------------------------------------------------------------
(* The socket and what is reported of it. *)

\* The goroutines of a transport that may end its socket, and that report frames.
LEMMA Names ==
  /\ Closer = {"io", "separate", "select", "linktest", "teardown"}
  /\ ReportCloser = {"io", "separate", "select", "linktest"}
  /\ Reporter = {"recv"} /\ Thread = Closer \cup {"recv"} /\ NoOne \notin Closer
  /\ Threshold \in Nat \ {0} /\ MaxTraffic \in Nat /\ WireCap \in Nat
BY SessionAssumption, NoOneAssumption DEF SessionCloser, Thread

\* A step either leaves the socket alone or is one of the read loop's or a closer's.
LEMMA SockSteps ==
  ASSUME [Next]_vars
  PROVE  \/ UNCHANGED <<recVars, connOpen, pc, log>>
         \/ RecvOpens \/ ReadFrame \/ ReadFails \/ RecvScope
         \/ \E c \in Closer : CloseStep(c)
<1>1. CASE RecvStep
  BY <1>1, Zenon DEF RecvStep, EnterRecvLoop, ReadErrorJudged, RejectFrame, DeliverData,
     RouteReply, RouteMiss, CommitSelected, FinishSelect, HandleLinktestReq,
     HandleDeselectReq, SelectLost, HandleSeparateReq, sockVars
<1>2. CASE ProcStep \/ LinktestStep
  BY <1>2, Zenon DEF ProcStep, SendSelect, SelectT6, JudgeAlreadyActive, LinktestStep,
     SendProbe, ProbeT6, EvaluateFailure, DisconnectRecheck, sockVars
<1>3. CASE T7Expires \/ Supervise \/ LocalClose \/ SendAnswer \/ DataSent \/ PeerSends
           \/ PeerTakesRequest
  BY <1>3, Zenon DEF T7Expires, Supervise, LocalClose, SendAnswer, DataSent, PeerSends,
     PeerTakesRequest, sockVars
<1>4. ASSUME NEW c \in Closer, ReportDown(c) PROVE UNCHANGED <<recVars, connOpen, pc, log>>
  BY <1>4, Zenon DEF ReportDown
<1>5. CASE UNCHANGED vars BY <1>5, Zenon DEF vars, sockVars
<1>. QED BY <1>1, <1>2, <1>3, <1>4, <1>5, Zenon DEF Next

USE SMTT(20)

\* A step of one goroutine moves its own program point.
LEMMA GotoFacts ==
  ASSUME SockTypes, NEW t \in Thread, NEW l \in CloserPC \cup ReporterPC, Goto(t, l)
  PROVE  /\ pc' \in [Thread -> CloserPC \cup ReporterPC]
         /\ pc'[t] = l
         /\ \A u \in Thread : u # t => pc'[u] = pc[u]
BY DEF SockTypes, Goto

\* The read loop's scopes keep the order of the reports.
LEMMA ScopeSock ==
  ASSUME SockInv,
         OpenReport("recv") \/ Moved("recv") \/ MoveFails("recv") \/ ReportFrame("recv")
         \/ EndReport("recv")
  PROVE  SockInv'
<1> USE DEF SockInv, SockTypes, GateInv, ReportInv
<1>t. "recv" \in Thread /\ "recv" \notin Closer BY Names
<1>1. CASE OpenReport("recv")
  BY <1>1, <1>t, Names DEF OpenReport, Refused, Counted, Goto, Scoped, ReporterPC
<1>2. CASE Moved("recv") BY <1>2, <1>t, Names DEF Moved, Goto, Scoped, ReporterPC, recVars
<1>3. CASE MoveFails("recv")
  BY <1>3, <1>t, Names DEF MoveFails, Goto, Scoped, ReporterPC, recVars
<1>4. CASE ReportFrame("recv")
  BY <1>4, <1>t, Names DEF ReportFrame, Goto, Scoped, ReporterPC, recVars
<1>5. CASE EndReport("recv")
  BY <1>5, <1>t, Names DEF EndReport, LastScope, Goto, Scoped, ReporterPC
<1>. QED BY <1>1, <1>2, <1>3, <1>4, <1>5

\* So do a closer's way through the gate, and whoever delivers the close.
LEMMA CloserSock ==
  ASSUME SockInv, NEW c \in Closer, Gate(c) \/ CloseConn(c) \/ Arm(c)
  PROVE  SockInv'
<1>t. /\ c \in Thread /\ c # "recv" /\ NoOne \notin Closer
      /\ "recv" \in Thread /\ Closer \subseteq Thread
  BY Names
<1>1. CASE Gate(c)
  BY <1>1, <1>t DEF SockInv, SockTypes, GateInv, ReportInv, Gate, GateFree, Goto, CloserPC
<1>2. CASE CloseConn(c)
  <2>1. /\ pc[c] = "close" /\ connOpen' = FALSE
        /\ UNCHANGED <<closing, closeArmed, openReports, closeReported, log>>
    BY <1>2 DEF CloseConn, recVars
  <2>2. /\ pc' \in [Thread -> CloserPC \cup ReporterPC] /\ pc'[c] = "arm"
        /\ \A u \in Thread : u # c => pc'[u] = pc[u]
    BY <1>2, <1>t, GotoFacts DEF CloseConn, CloserPC, SockInv
  <2>3. c = closing /\ ~closeArmed BY <2>1 DEF SockInv, GateInv
  <2>4. pc'["recv"] = pc["recv"] BY <1>t, <2>2
  <2>5. SockTypes' BY <2>1, <2>2, <2>4, Zenon DEF SockInv, SockTypes
  <2>6. GateInv' BY <1>t, <2>1, <2>2, <2>3 DEF SockInv, GateInv, CloserPC
  <2>7. ~closeReported /\ log = <<>> /\ \A u \in Thread : pc[u] # "deliver"
    BY <2>3 DEF SockInv, ReportInv
  <2>8. ReportInv' BY <2>1, <2>2, <2>7 DEF ReportInv
  <2>. QED BY <2>5, <2>6, <2>8 DEF SockInv
<1>3. CASE Arm(c)
  <2>1. /\ pc[c] = "arm" /\ closeArmed' = TRUE
        /\ closeReported' = (closeReported \/ openReports = 0)
        /\ UNCHANGED <<closing, openReports, connOpen, log>>
    BY <1>3 DEF Arm, NoScopeOpen
  <2>2. /\ pc' \in [Thread -> CloserPC \cup ReporterPC]
        /\ pc'[c] = IF openReports = 0 THEN "deliver" ELSE "done"
        /\ \A u \in Thread : u # c => pc'[u] = pc[u]
    BY <1>3, <1>t, GotoFacts DEF Arm, NoScopeOpen, CloserPC, SockInv
  <2>3. c = closing /\ ~closeArmed /\ ~connOpen BY <2>1 DEF SockInv, GateInv
  <2>4. /\ pc'["recv"] = pc["recv"] /\ (openReports = 0 => pc["recv"] \notin Scoped)
        /\ closeReported' \in BOOLEAN
    BY <1>t, <2>1, <2>2 DEF SockInv, SockTypes
  <2>5. SockTypes' BY <2>1, <2>2, <2>4, Zenon DEF SockInv, SockTypes
  <2>6. GateInv' BY <1>t, <2>1, <2>2, <2>3 DEF SockInv, GateInv, CloserPC
  <2>7. ~closeReported /\ log = <<>> /\ \A u \in Thread : pc[u] # "deliver"
    BY <2>3 DEF SockInv, ReportInv
  <2>8. closeReported' <=> openReports = 0 BY <2>1, <2>7, Zenon
  <2>9. ReportInv'
    <3>1. \A u \in Thread : pc'[u] = "deliver" => u = c /\ openReports = 0
      BY <2>2, <2>7
    <3>2. log' = <<>> /\ closeArmed' BY <2>1, <2>7
    <3>. QED BY <2>4, <2>8, <3>1, <3>2 DEF ReportInv
  <2>. QED BY <2>5, <2>6, <2>9 DEF SockInv
<1>. QED BY <1>1, <1>2, <1>3

\* Whoever took the report delivers it with the reason of the gate's winner.
LEMMA DeliverSock == ASSUME SockInv, NEW t \in Thread, Deliver(t) PROVE SockInv'
<1>1. /\ pc[t] = "deliver" /\ log = <<>> /\ closeReported /\ closeArmed
      /\ UNCHANGED <<closing, closeArmed, openReports, closeReported, connOpen>>
  BY DEF SockInv, ReportInv, Deliver, recVars
<1>2. log' = <<[what |-> "closed", who |-> closing]>> BY <1>1 DEF Deliver
<1>3. /\ pc' \in [Thread -> CloserPC \cup ReporterPC]
      /\ pc'[t] = IF t \in Closer THEN "done" ELSE "idle"
      /\ \A u \in Thread : u # t => pc'[u] = pc[u]
  BY GotoFacts DEF Deliver, CloserPC, SockInv
<1>4. SockTypes' BY Names, <1>1, <1>3 DEF SockInv, SockTypes, Scoped
<1>5. GateInv' BY Names, <1>1, <1>3 DEF SockInv, GateInv, CloserPC
<1>6. ReportInv' BY Names, <1>1, <1>2, <1>3 DEF SockInv, ReportInv, Scoped
<1>. QED BY <1>4, <1>5, <1>6 DEF SockInv

\* The gate, the arming and the scopes keep the order of the reports in every step.
LEMMA SockStep == ASSUME SockInv, [Next]_vars PROVE SockInv'
<1>1. CASE UNCHANGED <<recVars, connOpen, pc, log>>
  BY <1>1 DEF SockInv, SockTypes, GateInv, ReportInv, recVars
<1>2. CASE RecvOpens BY <1>2, ScopeSock DEF RecvOpens
<1>3. CASE ReadFrame BY <1>3, ScopeSock DEF ReadFrame
<1>4. CASE ReadFails BY <1>4, ScopeSock DEF ReadFails
<1>5. CASE RecvScope BY <1>5, ScopeSock, DeliverSock, Names DEF RecvScope
<1>6. ASSUME NEW c \in Closer, CloseStep(c) PROVE SockInv'
  BY <1>6, CloserSock, DeliverSock, Names DEF CloseStep
<1>. QED BY <1>1, <1>2, <1>3, <1>4, <1>5, <1>6, SockSteps

-----------------------------------------------------------------------------
(* Who takes the link down. *)

\* A step leaves the gate's winner, the owed reports and the core alone, or is
\* one of these.
LEMMA CauseSteps ==
  ASSUME [Next]_vars
  PROVE  \/ UNCHANGED <<closing, answer, fsm, events, applied>>
         \/ CommitSelected \/ SelectLost \/ T7Expires \/ Supervise \/ LocalClose
         \/ \E c \in Closer : CloseStep(c) \/ ReportDown(c)
<1>1. CASE RecvStep
  <2>1. CASE RecvOpens \/ ReadFrame \/ RecvScope
    BY <2>1, Zenon DEF RecvOpens, OpenReport, ReadFrame, Moved, RecvScope, ReportFrame,
       EndReport, Deliver, recVars, coreVars
  <2>2. CASE EnterRecvLoop \/ ReadErrorJudged \/ RejectFrame \/ DeliverData \/ RouteReply
    BY <2>2, Zenon DEF EnterRecvLoop, ReadErrorJudged, RejectFrame, DeliverData, RouteReply,
       sockVars, recVars, coreVars
  <2>3. CASE RouteMiss \/ FinishSelect \/ HandleLinktestReq \/ HandleDeselectReq
             \/ HandleSeparateReq
    BY <2>3, Zenon DEF RouteMiss, FinishSelect, HandleLinktestReq, HandleDeselectReq,
       HandleSeparateReq, sockVars, recVars, coreVars
  <2>. QED BY <1>1, <2>1, <2>2, <2>3, Zenon DEF RecvStep
<1>2. CASE ProcStep \/ LinktestStep
  BY <1>2, Zenon DEF ProcStep, SendSelect, SelectT6, JudgeAlreadyActive, LinktestStep,
     SendProbe, ProbeT6, EvaluateFailure, DisconnectRecheck, sockVars, recVars, coreVars
<1>3. CASE SendAnswer \/ DataSent \/ PeerSends \/ PeerTakesRequest
  BY <1>3, Zenon DEF SendAnswer, DataSent, PeerSends, PeerTakesRequest, sockVars, recVars,
     coreVars
<1>4. CASE ReadFails
  BY <1>4, Zenon DEF ReadFails, MoveFails, recVars, coreVars
<1>5. CASE UNCHANGED vars BY <1>5, Zenon DEF vars, sockVars, recVars, coreVars
<1>. QED BY <1>1, <1>2, <1>3, <1>4, <1>5, Zenon DEF Next

\* What a queue holds after a message left it.
LEMMA TailFacts ==
  ASSUME NEW S, NEW q \in Seq(S), q # <<>>
  PROVE  /\ Head(q) \in S /\ Head(q) = q[1] /\ Tail(q) \in Seq(S)
         /\ Len(q) \in Nat /\ Len(q) >= 1 /\ Len(Tail(q)) = Len(q) - 1
         /\ \A i \in 1 .. Len(Tail(q)) : i + 1 \in 1 .. Len(q) /\ Tail(q)[i] = q[i + 1]
OBVIOUS

\* What a queue holds after a message joined it.
LEMMA AppendFacts ==
  ASSUME NEW S, NEW q \in Seq(S), NEW m \in S
  PROVE  /\ Append(q, m) \in Seq(S) /\ Len(q) \in Nat
         /\ Len(Append(q, m)) = Len(q) + 1 /\ Append(q, m)[Len(q) + 1] = m
         /\ \A i \in 1 .. Len(q) : Append(q, m)[i] = q[i]
OBVIOUS

\* The close that wins the gate is the one that may take the link down.
LEMMA CauseStep == ASSUME SockInv, CauseInv, [Next]_vars PROVE CauseInv'
<1>1. CASE UNCHANGED <<closing, answer, fsm, events, applied>>
  BY <1>1 DEF CauseInv, Live
<1>2. CASE CommitSelected
  <2>1. UNCHANGED <<closing, answer, events, applied>> /\ (Live <=> Live')
    BY <1>2, Zenon DEF CommitSelected, sockVars, recVars, Live
  <2>. QED BY <2>1 DEF CauseInv
<1>3. CASE SelectLost
  <2>1. UNCHANGED <<closing, answer, events, applied>> /\ (Live <=> Live')
    BY <1>3, Zenon DEF SelectLost, sockVars, recVars, Live
  <2>. QED BY <2>1 DEF CauseInv
<1>4. CASE T7Expires
  <2>1. UNCHANGED <<closing, answer, fsm, applied>> /\ events' = Append(events, "t7")
    BY <1>4 DEF T7Expires, sockVars, recVars
  <2>2. "t7" \notin ReportCloser BY Names
  <2>. QED BY <2>1, <2>2, AppendFacts DEF CauseInv, Live
<1>5. ASSUME NEW why, Ended(why), UNCHANGED sockVars, why \in ReportCloser => why = closing
      PROVE  CauseInv'
  <2>1. /\ UNCHANGED <<closing, answer>> /\ fsm' = "NotConnected" /\ applied' = why
        /\ events' = <<>>
    BY <1>5 DEF Ended, sockVars, recVars
  <2>. QED BY <1>5, <2>1 DEF CauseInv, Live
<1>6. CASE Supervise
  <2>1. events # <<>> /\ UNCHANGED sockVars BY <1>6 DEF Supervise
  <2>2. CASE TakesDown(Head(events))
    <3>1. Ended(Head(events)) BY <1>6, <2>2 DEF Supervise
    <3>2. Head(events) \in ReportCloser => Head(events) = closing
      BY <2>1, TailFacts DEF CauseInv
    <3>. QED BY <1>5, <2>1, <3>1, <3>2
  <2>3. CASE ~TakesDown(Head(events))
    <3>1. UNCHANGED <<closing, answer, fsm, applied>> /\ events' = Tail(events)
      BY <1>6, <2>3 DEF Supervise, sockVars, recVars
    <3>. QED BY <2>1, <3>1, TailFacts DEF CauseInv, Live
  <2>. QED BY <2>2, <2>3
<1>7. CASE LocalClose
  <2>1. "close" \notin ReportCloser BY Names
  <2>. QED BY <1>5, <1>7, <2>1 DEF LocalClose
<1>8. ASSUME NEW c \in Closer, CloseStep(c) PROVE CauseInv'
  <2>1. UNCHANGED <<fsm, events, applied>> BY <1>8 DEF CloseStep, coreVars
  <2>2. CASE CloseConn(c) \/ Arm(c) \/ Deliver(c)
    <3>1. UNCHANGED <<closing, answer>>
      BY <2>2, Zenon DEF CloseConn, Arm, Deliver, recVars
    <3>. QED BY <2>1, <3>1 DEF CauseInv, Live
  <2>3. CASE CallsTcpDown(c) /\ Gate(c)
    <3>1. c = "teardown" => ~Live BY <2>3 DEF CallsTcpDown
    <3>2. CASE GateFree
      <4>1. /\ closing' = c /\ closing = NoOne
            /\ answer' = [answer EXCEPT ![c] = "report"]
        BY <2>3, <3>2 DEF Gate, GateFree, ReportMade
      <4>2. /\ \A d \in ReportCloser : answer[d] # "report"
            /\ \A i \in 1 .. Len(events) : events[i] \notin ReportCloser
            /\ applied \notin ReportCloser
        BY <4>1, Names DEF CauseInv
      <4>. QED BY <2>1, <3>1, <4>1, <4>2, Names DEF CauseInv, Live
    <3>3. CASE ~GateFree
      <4>1. /\ UNCHANGED closing
            /\ \E r \in {"report", "suppress"} :
                 /\ answer' = [answer EXCEPT ![c] = r]
                 /\ r = "report" => closing \notin ReportCloser
        <5>1. UNCHANGED closing BY <2>3, <3>3 DEF Gate, GateFree
        <5>2. CASE closing \notin ReportCloser
          <6>1. answer' = [answer EXCEPT ![c] = "report"]
            BY <2>3, <5>2 DEF Gate, ReportMade
          <6>. QED BY <5>1, <5>2, <6>1
        <5>3. CASE closing \in ReportCloser
          <6>1. answer' = [answer EXCEPT ![c] = "suppress"]
            BY <2>3, <3>3, <5>3, Zenon DEF Gate, ReportMade
          <6>. QED BY <5>1, <6>1
        <5>. QED BY <5>2, <5>3
      <4>2. closing \notin ReportCloser => closing = "teardown"
        BY <3>3, Names DEF SockInv, SockTypes, GateFree
      <4>. QED BY <2>1, <4>1, <4>2 DEF CauseInv, Live
    <3>. QED BY <3>2, <3>3
  <2>. QED BY <1>8, <2>2, <2>3 DEF CloseStep
<1>9. ASSUME NEW c \in Closer, ReportDown(c) PROVE CauseInv'
  <2>1. /\ c \in ReportCloser /\ answer[c] = "report" /\ UNCHANGED <<closing, fsm, applied>>
        /\ answer' = [answer EXCEPT ![c] = "made"]
        /\ events' = IF Live THEN Append(events, c) ELSE events
    BY <1>9 DEF ReportDown, recVars
  <2>2. Live => closing = c BY <2>1 DEF CauseInv
  <2>. QED BY <2>1, <2>2, AppendFacts DEF CauseInv, Live
<1>. QED BY <1>1, <1>2, <1>3, <1>4, <1>6, <1>7, <1>8, <1>9, CauseSteps

-----------------------------------------------------------------------------
(* The auto-linktest. *)

\* A step leaves the linktest and the open transactions alone, or is one of these.
LEMMA LinktestSteps ==
  ASSUME [Next]_vars
  PROVE  \/ /\ UNCHANGED <<lt, fails, probes, suppress, heard, heardSince, quiet, open>>
            /\ (Live <=> Live') /\ (Started => Started')
         \/ ReadFrame \/ RouteReply \/ FinishSelect \/ SelectLost \/ SendSelect \/ SelectT6
         \/ LinktestStep \/ Supervise \/ LocalClose
<1> USE Zenon DEF Live, Started, coreVars, recvVars, ltVars
<1>1. CASE RecvStep
  <2>1. CASE RecvOpens \/ RecvScope \/ EnterRecvLoop \/ ReadErrorJudged
    BY <2>1 DEF RecvOpens, RecvScope, EnterRecvLoop, ReadErrorJudged
  <2>2. CASE RejectFrame \/ DeliverData
    BY <2>2 DEF RejectFrame, DeliverData, NextFrame
  <2>3. CASE RouteMiss \/ HandleLinktestReq
    BY <2>3 DEF RouteMiss, HandleLinktestReq, NextFrame
  <2>4. CASE HandleDeselectReq
    BY <2>4 DEF HandleDeselectReq, NextFrame
  <2>5. CASE HandleSeparateReq
    BY <2>5 DEF HandleSeparateReq
  <2>6. CASE CommitSelected
    BY <2>6 DEF CommitSelected
  <2>. QED BY <1>1, <2>1, <2>2, <2>3, <2>4, <2>5, <2>6 DEF RecvStep
<1>2. CASE JudgeAlreadyActive BY <1>2 DEF JudgeAlreadyActive
<1>3. CASE SendAnswer \/ DataSent \/ PeerSends \/ PeerTakesRequest
  BY <1>3 DEF SendAnswer, DataSent, PeerSends, PeerTakesRequest
<1>4. CASE ReadFails BY <1>4 DEF ReadFails
<1>5. CASE T7Expires BY <1>5 DEF T7Expires
<1>6. ASSUME NEW c \in Closer, CloseStep(c) \/ ReportDown(c)
      PROVE  /\ UNCHANGED <<lt, fails, probes, suppress, heard, heardSince, quiet, open>>
             /\ (Live <=> Live') /\ (Started => Started')
  BY <1>6 DEF CloseStep, ReportDown
<1>7. CASE UNCHANGED vars BY <1>7 DEF vars
<1>. QED BY <1>1, <1>2, <1>3, <1>4, <1>5, <1>6, <1>7 DEF Next, ProcStep

\* A count of the current run stands for a probe that nothing was read since.
LEMMA LinktestInvStep == ASSUME StageInv, LinktestInv, [Next]_vars PROVE LinktestInv'
<1>1. CASE /\ UNCHANGED <<lt, fails, probes, suppress, heard, heardSince, quiet, open>>
           /\ (Live <=> Live') /\ (Started => Started')
  <2>1. LtTypes' BY <1>1 DEF LinktestInv, LtTypes
  <2>2. OpenInv' BY <1>1, Zenon DEF LinktestInv, OpenInv
  <2>3. QuietInv' BY <1>1 DEF LinktestInv, QuietInv
  <2>. QED BY <2>1, <2>2, <2>3 DEF LinktestInv
<1>2. CASE ReadFrame
  <2>1. /\ UNCHANGED <<lt, fails, probes, suppress, open, fsm, stage>>
        /\ quiet' = IF suppress THEN 0 ELSE quiet
    BY <1>2 DEF ReadFrame, FrameIsLife, coreVars
  <2>2. lt \in {"wait", "failed", "recheck"} => heard'
    BY <1>2, Zenon DEF ReadFrame, Probing
  <2>3. fails > 0 => heardSince' BY <1>2, Zenon DEF ReadFrame
  <2>. QED
    <3>1. LtTypes' BY <2>1, <2>3, <2>2 DEF LinktestInv, LtTypes
    <3>2. OpenInv' BY <2>1, <2>3, <2>2 DEF LinktestInv, LtTypes, OpenInv, Live, Started
    <3>3. QuietInv' BY <2>1, <2>3, <2>2 DEF LinktestInv, LtTypes, QuietInv, Live
    <3>. QED BY <3>1, <3>2, <3>3 DEF LinktestInv
<1>3. CASE RouteReply
  <2>1. /\ open' = open \ {frame.id} /\ frame.id \in open
        /\ UNCHANGED <<probes, suppress, heardSince, fsm>> /\ stage = "read"
        /\ stage' \in {"read", "commit"}
    BY <1>3 DEF RouteReply, Hit, Handles, coreVars, NextFrame
  <2>2. CASE frame.id = SelectId
    <3>1. UNCHANGED <<lt, fails, heard, quiet>> BY <1>3, <2>2 DEF RouteReply
    <3>. QED
      <4>1. LtTypes' BY <2>1, <3>1 DEF LinktestInv, LtTypes
      <4>2. OpenInv' BY <2>1, <3>1 DEF LinktestInv, LtTypes, OpenInv, Live, Started
      <4>3. QuietInv' BY <2>1, <3>1 DEF LinktestInv, LtTypes, QuietInv, Live
      <4>. QED BY <4>1, <4>2, <4>3 DEF LinktestInv
  <2>3. CASE frame.id # SelectId
    <3>1. lt = "wait" /\ (\A i \in open' : i = SelectId)
      BY <2>1, <2>3 DEF LinktestInv, OpenInv
    <3>2. \/ lt' = "failed" /\ UNCHANGED <<fails, heard, quiet>>
          \/ lt' = "sleep" /\ fails' = 0 /\ heard' = FALSE /\ quiet' = 0
      BY <1>3, <2>3 DEF RouteReply, ForgetLife
    <3>. QED
      <4>1. LtTypes' BY <2>1, <3>1, <3>2 DEF LinktestInv, LtTypes
      <4>2. OpenInv' BY <2>1, <3>1, <3>2 DEF LinktestInv, LtTypes, OpenInv, Live, Started
      <4>3. QuietInv' BY <2>1, <3>1, <3>2 DEF LinktestInv, LtTypes, QuietInv, Live
      <4>. QED BY <4>1, <4>2, <4>3 DEF LinktestInv
  <2>. QED BY <2>2, <2>3
<1>4. CASE FinishSelect
  <2>1. /\ UNCHANGED <<fails, probes, heard, heardSince, quiet, open, fsm>>
        /\ stage' = "read" /\ stage \in {"selected", "unchanged"}
    BY <1>4 DEF FinishSelect, NextFrame, coreVars
  <2>2. CASE stage = "selected"
    <3>1. IF lt \in {"recheck", "report"} THEN UNCHANGED <<lt, suppress>> ELSE lt' = "sleep"
      BY <1>4, <2>2 DEF FinishSelect, Selected, StartLinktest, PastCancel
    <3>2. lt \notin {"wait", "failed"} BY <2>1, <2>2 DEF LinktestInv, OpenInv, Started
    <3>3. lt \in {"recheck", "report"} \/ fails = 0
      BY <2>1, <2>2, <3>2 DEF LinktestInv, LtTypes, OpenInv, QuietInv, Live, Started
    <3>. QED
      <4>1. LtTypes' BY <2>1, <2>2, <3>1, <3>2 DEF LinktestInv, LtTypes
      <4>2. OpenInv'
        BY <2>1, <2>2, <3>1, <3>2 DEF LinktestInv, LtTypes, OpenInv, StageInv, Live, Started
      <4>3. QuietInv' BY <2>1, <2>2, <3>1, <3>2, <3>3 DEF LinktestInv, LtTypes, QuietInv, Live
      <4>. QED BY <4>1, <4>2, <4>3 DEF LinktestInv
  <2>3. CASE stage = "unchanged"
    <3>1. UNCHANGED <<lt, suppress>> BY <1>4, <2>3 DEF FinishSelect
    <3>. QED
      <4>1. LtTypes' BY <2>1, <2>3, <3>1 DEF LinktestInv, LtTypes
      <4>2. OpenInv' BY <2>1, <2>3, <3>1 DEF LinktestInv, LtTypes, OpenInv, Live, Started
      <4>3. QuietInv' BY <2>1, <2>3, <3>1 DEF LinktestInv, LtTypes, QuietInv, Live
      <4>. QED BY <4>1, <4>2, <4>3 DEF LinktestInv
  <2>. QED BY <2>1, <2>2, <2>3
<1>5. CASE SelectLost
  <2>1. stage = "lost" /\ stage' = "read" BY <1>5 DEF SelectLost, NextFrame
  <2>2. CASE fsm = "Selected"
    <3>1. fsm' = "NotSelected" /\ open' = open \cap {SelectId}
      BY <1>5, <2>2 DEF SelectLost, StopLinktest
    <3>2. CASE lt \in {"recheck", "report"}
      <4>1. UNCHANGED <<lt, fails, probes, suppress, heard, heardSince, quiet>>
        BY <1>5, <2>2, <3>2 DEF SelectLost, StopLinktest, PastCancel, ltVars
      <4>. QED
        <5>1. LtTypes' BY <3>1, <3>2, <4>1 DEF LinktestInv, LtTypes
        <5>2. OpenInv' BY <3>1, <3>2, <4>1 DEF LinktestInv, LtTypes, OpenInv, Live, Started
        <5>3. QuietInv' BY <3>1, <3>2, <4>1 DEF LinktestInv, LtTypes, QuietInv, Live
        <5>. QED BY <5>1, <5>2, <5>3 DEF LinktestInv
    <3>3. CASE lt \notin {"recheck", "report"}
      <4>1. /\ lt' = "off" /\ UNCHANGED probes /\ heard' = FALSE /\ quiet' = 0
            /\ fails' = 0 /\ heardSince' = FALSE
        BY <1>5, <2>2, <3>3 DEF SelectLost, StopLinktest, PastCancel, ForgetLife
      <4>. QED
        <5>1. LtTypes' BY <3>1, <4>1 DEF LinktestInv, LtTypes
        <5>2. OpenInv' BY <3>1, <4>1 DEF LinktestInv, LtTypes, OpenInv, Live, Started
        <5>3. QuietInv' BY <3>1, <4>1 DEF LinktestInv, LtTypes, QuietInv, Live
        <5>. QED BY <5>1, <5>2, <5>3 DEF LinktestInv
    <3>. QED BY <3>2, <3>3
  <2>3. CASE fsm # "Selected"
    <3>1. UNCHANGED <<lt, fails, probes, suppress, heard, heardSince, quiet, open, fsm>>
      BY <1>5, <2>3 DEF SelectLost, ltVars
    <3>. QED
      <4>1. LtTypes' BY <2>1, <3>1 DEF LinktestInv, LtTypes
      <4>2. OpenInv' BY <2>1, <3>1 DEF LinktestInv, LtTypes, OpenInv, Live, Started
      <4>3. QuietInv' BY <2>1, <3>1 DEF LinktestInv, LtTypes, QuietInv, Live
      <4>. QED BY <4>1, <4>2, <4>3 DEF LinktestInv
  <2>. QED BY <2>2, <2>3
<1>6. CASE SendSelect \/ SelectT6
  <2>1. /\ UNCHANGED <<lt, fails, probes, suppress, heard, heardSince, quiet, fsm, stage>>
        /\ open' \subseteq open \cup {SelectId}
    BY <1>6 DEF SendSelect, SelectT6, ltVars, coreVars, recvVars
  <2>. QED
    <3>1. LtTypes' BY <2>1 DEF LinktestInv, LtTypes
    <3>2. OpenInv' BY <2>1 DEF LinktestInv, LtTypes, OpenInv, Live, Started
    <3>3. QuietInv' BY <2>1 DEF LinktestInv, LtTypes, QuietInv, Live
    <3>. QED BY <3>1, <3>2, <3>3 DEF LinktestInv
<1>7. CASE SendProbe
  <2>1. /\ UNCHANGED <<fails, suppress, heardSince, fsm, stage>> /\ lt = "sleep" /\ Live
        /\ probes' = probes + 1 /\ open' = open \cup {ProbeId(probes + 1)}
        /\ lt' = "wait" /\ heard' = FALSE /\ quiet' = quiet + 1
    BY <1>7 DEF SendProbe, coreVars, recvVars, PeerUp
  <2>. QED
    <3>1. LtTypes' BY <2>1 DEF LinktestInv, LtTypes
    <3>2. OpenInv' BY <2>1 DEF LinktestInv, LtTypes, OpenInv, Live, Started
    <3>3. QuietInv' BY <2>1 DEF LinktestInv, LtTypes, QuietInv, Live
    <3>. QED BY <3>1, <3>2, <3>3 DEF LinktestInv
<1>8. CASE ProbeT6
  <2>1. /\ UNCHANGED <<fails, probes, suppress, heard, heardSince, quiet, fsm, stage>>
        /\ lt = "wait"
        /\ open' = open \ {ProbeId(probes)} /\ lt' = "failed"
    BY <1>8 DEF ProbeT6, coreVars, recvVars
  <2>. QED
    <3>1. LtTypes' BY <2>1 DEF LinktestInv, LtTypes
    <3>2. OpenInv' BY <2>1 DEF LinktestInv, LtTypes, OpenInv, Live, Started
    <3>3. QuietInv' BY <2>1 DEF LinktestInv, LtTypes, QuietInv, Live
    <3>. QED BY <3>1, <3>2, <3>3 DEF LinktestInv
<1>9. CASE EvaluateFailure
  <2>1. /\ UNCHANGED <<probes, suppress, quiet, open, fsm, stage>> /\ lt = "failed" /\ Live
        /\ heard' = FALSE /\ heardSince' = FALSE /\ fails' = FailureStep
        /\ lt' = IF FailureStep >= Threshold THEN "recheck" ELSE "sleep"
    BY <1>9 DEF EvaluateFailure, coreVars, recvVars
  <2>2. FailureStep \in Nat /\ quiet >= FailureStep
    <3>1. CASE suppress /\ (heard \/ inflight)
      BY <3>1 DEF FailureStep, LinktestInv, LtTypes, QuietInv
    <3>2. CASE suppress /\ ~heard /\ ~inflight /\ fails > 0 /\ heardSince
      BY <2>1, <3>2 DEF FailureStep, LinktestInv, LtTypes, QuietInv, Live
    <3>3. CASE ~(suppress /\ (heard \/ inflight)) /\ ~(suppress /\ fails > 0 /\ heardSince)
      BY <2>1, <3>3 DEF FailureStep, LinktestInv, LtTypes, QuietInv, Live
    <3>. QED BY <3>1, <3>2, <3>3
  <2>. QED
    <3>1. LtTypes' BY <2>1, <2>2, Names DEF LinktestInv, LtTypes
    <3>2. OpenInv' BY <2>1, <2>2, Names DEF LinktestInv, LtTypes, OpenInv, Live, Started
    <3>3. QuietInv' BY <2>1, <2>2, Names DEF LinktestInv, LtTypes, QuietInv, Live
    <3>. QED BY <3>1, <3>2, <3>3 DEF LinktestInv
<1>10. CASE DisconnectRecheck
  <2>1. /\ UNCHANGED <<probes, quiet, open, fsm, stage>> /\ lt = "recheck"
        /\ heard' = FALSE /\ heardSince' = FALSE
    BY <1>10 DEF DisconnectRecheck, coreVars, recvVars
  <2>2. CASE suppress /\ (heard \/ inflight)
    <3>1. lt' = (IF Started THEN "sleep" ELSE "off") /\ fails' = 0 /\ UNCHANGED suppress
      BY <1>10, <2>2, Zenon DEF DisconnectRecheck
    <3>. QED
      <4>1. LtTypes' BY <2>1, <3>1 DEF LinktestInv, LtTypes
      <4>2. OpenInv' BY <2>1, <3>1 DEF LinktestInv, LtTypes, OpenInv, Live, Started
      <4>3. QuietInv' BY <2>1, <3>1 DEF LinktestInv, LtTypes, QuietInv, Live
      <4>. QED BY <4>1, <4>2, <4>3 DEF LinktestInv
  <2>3. CASE ~(suppress /\ (heard \/ inflight))
    <3>1. lt' = "report" /\ UNCHANGED fails /\ ~(suppress /\ heard)
      BY <1>10, <2>3 DEF DisconnectRecheck
    <3>. QED
      <4>1. LtTypes' BY <2>1, <3>1 DEF LinktestInv, LtTypes
      <4>2. OpenInv' BY <2>1, <3>1 DEF LinktestInv, LtTypes, OpenInv, Live, Started
      <4>3. QuietInv' BY <2>1, <3>1 DEF LinktestInv, LtTypes, QuietInv, Live
      <4>. QED BY <4>1, <4>2, <4>3 DEF LinktestInv
  <2>. QED BY <2>2, <2>3
<1>11. ASSUME NEW why, Ended(why) PROVE LinktestInv'
  <2>1. /\ fsm' = "NotConnected" /\ open' = {} /\ fails' = 0 /\ probes' = 0
        /\ heardSince' = FALSE /\ lt' = IF lt \in {"recheck", "report"} THEN lt ELSE "off"
        /\ IF lt = "recheck" THEN UNCHANGED <<suppress, heard, quiet>>
           ELSE heard' = FALSE /\ quiet' = 0
    BY <1>11 DEF Ended, ForgetLife
  <2>. QED
    <3>1. LtTypes' BY <2>1 DEF LinktestInv, LtTypes
    <3>2. OpenInv' BY <2>1 DEF LinktestInv, LtTypes, OpenInv, Live, Started
    <3>3. QuietInv' BY <2>1 DEF LinktestInv, LtTypes, QuietInv, Live
    <3>. QED BY <3>1, <3>2, <3>3 DEF LinktestInv
<1>12. CASE Supervise
  <2>1. CASE TakesDown(Head(events)) BY <1>11, <1>12, <2>1 DEF Supervise
  <2>2. CASE ~TakesDown(Head(events))
    <3>1. UNCHANGED <<lt, fails, probes, suppress, heard, heardSince, quiet, open, fsm, stage>>
      BY <1>12, <2>2 DEF Supervise, ltVars, recvVars
    <3>. QED
      <4>1. LtTypes' BY <3>1 DEF LinktestInv, LtTypes
      <4>2. OpenInv' BY <3>1 DEF LinktestInv, LtTypes, OpenInv, Live, Started
      <4>3. QuietInv' BY <3>1 DEF LinktestInv, LtTypes, QuietInv, Live
      <4>. QED BY <4>1, <4>2, <4>3 DEF LinktestInv
  <2>. QED BY <2>1, <2>2
<1>13. CASE LocalClose BY <1>11, <1>13 DEF LocalClose
<1>. QED
  BY <1>1, <1>2, <1>3, <1>4, <1>5, <1>6, <1>7, <1>8, <1>9, <1>10, <1>12, <1>13,
     LinktestSteps DEF LinktestStep

-----------------------------------------------------------------------------
(* The receive loop. *)

\* A step leaves the receive loop and the state alone, or is one of these.
LEMMA StageSteps ==
  ASSUME SockInv, [Next]_vars
  PROVE  \/ /\ UNCHANGED <<fsm, stage, frame>>
            /\ pc'["recv"] = pc["recv"] \/ pc'["recv"] \notin {"open", "bare"}
         \/ EnterRecvLoop \/ RecvOpens \/ ReadFrame \/ ReadFails \/ ReadErrorJudged
         \/ RejectFrame \/ DeliverData \/ RouteReply \/ RouteMiss \/ CommitSelected
         \/ FinishSelect \/ HandleLinktestReq \/ HandleDeselectReq \/ SelectLost
         \/ HandleSeparateReq \/ Supervise \/ LocalClose
<1>1. CASE RecvScope
  <2>1. UNCHANGED <<fsm, stage, frame>> BY <1>1 DEF RecvScope, coreVars, recvVars
  <2>2. /\ "recv" \in Thread /\ "recv" \notin Closer BY Names
  <2>3. \E l \in {"ending", "deliver", "idle"} : pc' = [pc EXCEPT !["recv"] = l]
    BY <1>1, <2>2 DEF RecvScope, ReportFrame, EndReport, Deliver, Goto
  <2>4. pc'["recv"] \in {"ending", "deliver", "idle"} BY <2>2, <2>3 DEF SockInv, SockTypes
  <2>. QED BY <2>1, <2>4
<1>2. ASSUME NEW c \in Closer, CloseStep(c)
      PROVE  UNCHANGED <<fsm, stage, frame>> /\ pc'["recv"] = pc["recv"]
  <2>1. UNCHANGED <<fsm, stage, frame>> BY <1>2 DEF CloseStep, coreVars, recvVars
  <2>2. c # "recv" BY Names
  <2>3. \E l : Goto(c, l) BY <1>2 DEF CloseStep, Gate, CloseConn, Arm, Deliver
  <2>. QED BY <2>1, <2>2, <2>3, Names DEF Goto, SockInv, SockTypes
<1>3. CASE ProcStep
  BY <1>3, Zenon DEF ProcStep, SendSelect, SelectT6, JudgeAlreadyActive, sockVars,
     coreVars, recvVars
<1>4. CASE LinktestStep
  BY <1>4, Zenon DEF LinktestStep, SendProbe, ProbeT6, EvaluateFailure, DisconnectRecheck,
     sockVars, coreVars, recvVars
<1>5. CASE T7Expires \/ SendAnswer \/ DataSent \/ PeerSends \/ PeerTakesRequest
  BY <1>5, Zenon DEF T7Expires, SendAnswer, DataSent, PeerSends, PeerTakesRequest,
     sockVars, coreVars, recvVars
<1>6. ASSUME NEW c \in Closer, ReportDown(c)
      PROVE  UNCHANGED <<fsm, stage, frame>> /\ pc'["recv"] = pc["recv"]
  BY <1>6, Zenon DEF ReportDown, recvVars
<1>7. CASE UNCHANGED vars BY <1>7, Zenon DEF vars, sockVars, coreVars, recvVars
<1>. QED BY <1>1, <1>2, <1>3, <1>4, <1>5, <1>6, <1>7, Zenon DEF Next, RecvStep

\* Each stage has the frame its handler was entered with.
LEMMA StageStep == ASSUME SockInv, StageInv, [Next]_vars PROVE StageInv'
<1>1. CASE /\ UNCHANGED <<fsm, stage, frame>>
           /\ pc'["recv"] = pc["recv"] \/ pc'["recv"] \notin {"open", "bare"}
  BY <1>1 DEF StageInv
<1>2. ASSUME NextFrame, fsm' \in {"NotConnected", "NotSelected", "Selected"} PROVE StageInv'
  BY <1>2 DEF StageInv, NextFrame
<1>3. CASE RejectFrame \/ DeliverData \/ RouteMiss \/ HandleLinktestReq
  <2>1. UNCHANGED fsm /\ NextFrame
    BY <1>3, Zenon DEF RejectFrame, DeliverData, RouteMiss, HandleLinktestReq, coreVars
  <2>. QED BY <1>2, <2>1 DEF StageInv
<1>4. CASE FinishSelect \/ SelectLost
  <2>1. NextFrame /\ (fsm' = fsm \/ fsm' = "NotSelected")
    BY <1>4, Zenon DEF FinishSelect, SelectLost, coreVars
  <2>. QED BY <1>2, <2>1 DEF StageInv
<1>5. CASE EnterRecvLoop \/ ReadErrorJudged
  <2>1. /\ UNCHANGED <<fsm, frame>> /\ stage \in {"enter", "failed"}
        /\ stage' \in {"read", "io", "done"}
    BY <1>5 DEF EnterRecvLoop, ReadErrorJudged, coreVars
  <2>. QED BY <2>1 DEF StageInv
<1>6. CASE RecvOpens BY <1>6 DEF RecvOpens, StageInv, coreVars, recvVars
<1>7. CASE ReadFrame
  <2>1. /\ "recv" \in Thread BY Names
  <2>2. pc'["recv"] \in {"moved", "idle"}
    BY <1>7, <2>1 DEF ReadFrame, Moved, Goto, SockInv, SockTypes
  <2>3. UNCHANGED <<fsm, stage>> /\ stage = "read" BY <1>7 DEF ReadFrame, coreVars
  <2>. QED BY <2>2, <2>3 DEF StageInv
<1>8. CASE ReadFails
  <2>1. /\ pc["recv"] \in {"open", "bare"} /\ stage = "read" /\ stage' = "failed"
        /\ UNCHANGED <<fsm, frame>>
    BY <1>8 DEF ReadFails, MoveFails, coreVars
  <2>. QED BY <2>1 DEF StageInv
<1>9. CASE RouteReply
  <2>1. UNCHANGED fsm BY <1>9 DEF RouteReply, coreVars
  <2>2. CASE CommitsHere(frame)
    <3>1. stage' = "commit" /\ UNCHANGED frame BY <1>9, <2>2 DEF RouteReply
    <3>. QED BY <2>1, <2>2, <3>1 DEF StageInv, CommitsHere
  <2>3. CASE ~CommitsHere(frame)
    <3>1. NextFrame BY <1>9, <2>3 DEF RouteReply
    <3>. QED BY <1>2, <2>1, <3>1 DEF StageInv
  <2>. QED BY <2>2, <2>3
<1>10. CASE CommitSelected
  <2>1. /\ stage = "commit" \/ frame.type = "Select.req"
        /\ fsm' = IF fsm = "NotSelected" THEN "Selected" ELSE fsm
        /\ stage' \in {"selected", "unchanged"}
    BY <1>10 DEF CommitSelected, Handles
  <2>2. UNCHANGED frame BY <1>10 DEF CommitSelected
  <2>. QED BY <2>1, <2>2 DEF StageInv
<1>11. CASE HandleDeselectReq
  <2>1. UNCHANGED fsm /\ frame.type = "Deselect.req"
    BY <1>11 DEF HandleDeselectReq, Handles, coreVars
  <2>2. CASE fsm = "Selected"
    <3>1. stage' = "lost" /\ UNCHANGED frame BY <1>11, <2>2 DEF HandleDeselectReq
    <3>. QED BY <2>1, <3>1 DEF StageInv
  <2>3. CASE fsm # "Selected"
    <3>1. NextFrame BY <1>11, <2>3 DEF HandleDeselectReq
    <3>. QED BY <1>2, <2>1, <3>1 DEF StageInv
  <2>. QED BY <2>2, <2>3
<1>12. CASE HandleSeparateReq
  <2>1. UNCHANGED <<fsm, frame>> /\ stage' \in {"separate", "done"}
    BY <1>12 DEF HandleSeparateReq, coreVars
  <2>. QED BY <2>1 DEF StageInv
<1>13. CASE Supervise \/ LocalClose
  <2>1. /\ UNCHANGED <<stage, frame, pc>> /\ (fsm' = fsm \/ fsm' = "NotConnected")
    BY <1>13, Zenon DEF Supervise, LocalClose, Ended, sockVars, recvVars
  <2>. QED BY <2>1 DEF StageInv
<1>. QED
  BY <1>1, <1>3, <1>4, <1>5, <1>6, <1>7, <1>8, <1>9, <1>10, <1>11, <1>12, <1>13, StageSteps

-----------------------------------------------------------------------------
(* The theorems. *)

SessionInv == SockInv /\ CauseInv /\ StageInv /\ LinktestInv

\* A socket that was just opened, in either role, satisfies the invariant.
LEMMA SessionInit == ASSUME Init PROVE SessionInv
<1>1. SockInv
  <2>1. /\ closing = NoOne /\ connOpen = TRUE /\ closeArmed = FALSE /\ closeReported = FALSE
        /\ openReports = 0 /\ log = <<>>
    BY DEF Init, SockInit
  <2>2. /\ pc \in [Thread -> CloserPC \cup ReporterPC] /\ "recv" \in Thread
        /\ \A t \in Thread : pc[t] = "idle"
    BY Names DEF Init, SockInit, CloserPC, ReporterPC
  <2>3. pc["recv"] \notin Scoped BY <2>2 DEF Scoped
  <2>4. SockTypes BY <2>1, <2>2, <2>3, Zenon DEF SockTypes
  <2>5. GateInv BY <2>1, <2>2, Names DEF GateInv
  <2>6. ReportInv BY <2>1, <2>2 DEF ReportInv
  <2>. QED BY <2>4, <2>5, <2>6 DEF SockInv
<1>2. CauseInv
  <2>1. /\ answer = [c \in Closer |-> "none"] /\ closing = NoOne
        /\ events = <<>> /\ applied = "nothing"
    BY DEF Init, SockInit
  <2>2. NoOne # "teardown" /\ "nothing" \notin ReportCloser /\ ReportCloser \subseteq Closer
    BY Names DEF NoOne
  <2>3. events \in Seq(ReportCloser \cup {"t7"}) /\ Len(events) = 0 BY <2>1
  <2>. QED BY <2>1, <2>2, <2>3 DEF CauseInv
<1>3. StageInv BY DEF Init, StageInv
<1>4. LtTypes /\ OpenInv /\ QuietInv
  BY DEF Init, LtTypes, OpenInv, QuietInv, Live
<1>. QED BY <1>1, <1>2, <1>3, <1>4 DEF SessionInv, LinktestInv

\* Every step of the transport, the core and the peer keeps the invariant.
LEMMA SessionStep == ASSUME SessionInv, [Next]_vars PROVE SessionInv'
<1>1. SockInv' BY SockStep DEF SessionInv
<1>2. CauseInv' BY CauseStep DEF SessionInv
<1>3. StageInv' BY StageStep DEF SessionInv
<1>4. LinktestInv' BY LinktestInvStep DEF SessionInv
<1>. QED BY <1>1, <1>2, <1>3, <1>4 DEF SessionInv

\* The inductive invariant holds throughout the life of a socket.
THEOREM SessionInvariance == Spec => []SessionInv
<1>1. Init => SessionInv BY SessionInit
<1>2. SessionInv /\ [Next]_vars => SessionInv' BY SessionStep
<1>. QED BY <1>1, <1>2, PTL DEF Spec

\* socketRecord: however the gate, the close, the arming and the read loop's scopes
\* interleave, the close is reported once, with the reason of the path that won the
\* gate, after every frame report of an open scope, for a conn that is closed.
THEOREM ReportedLast == Spec => []CloseReportedLast
<1>1. SessionInv => CloseReportedLast
  <2> SUFFICES ASSUME SessionInv, NEW i \in CloseReports
               PROVE  i = Len(log) /\ log[i].who = closing /\ ~connOpen
    BY DEF CloseReportedLast
  <2>1. i \in 1 .. Len(log) BY DEF CloseReports
  <2>2. log # <<>>
    <3> SUFFICES ASSUME log = <<>> PROVE FALSE OBVIOUS
    <3>1. Len(log) = 0 OBVIOUS
    <3>. QED BY <2>1, <3>1
  <2>3. log = <<[what |-> "closed", who |-> closing]>> /\ ~connOpen
    BY <2>2 DEF SessionInv, SockInv, ReportInv, GateInv
  <2>4. Len(log) = 1 /\ log[1].who = closing BY <2>3
  <2>. QED BY <2>1, <2>3, <2>4
<1>. QED BY <1>1, SessionInvariance, PTL

\* tcpDown: of the disconnect reports of the goroutines that saw the socket die, the
\* one that takes the link down is of the goroutine that won the gate.
THEOREM CauseIsWinner == Spec => []CauseAgrees
<1>1. SessionInv => CauseAgrees BY DEF SessionInv, CauseInv, CauseAgrees
<1>. QED BY <1>1, SessionInvariance, PTL

\* runLinktest: with suppression the link is reported dead only after Threshold probes
\* in a row since which no frame was read, and with no data transaction open; without
\* it, only after Threshold probes in a row that were not answered. This holds whatever
\* was credited, cancelled or started again between, in either mode, between sessions.
THEOREM SilenceDrops == Spec => SilentBeforeDrop
<1>1. ASSUME SessionInv, [Next]_vars, lt # "report", lt' = "report"
      PROVE  quiet >= Threshold /\ (suppress => ~inflight)
  <2>1. CASE UNCHANGED lt BY <1>1, <2>1
  <2>2. CASE ReadFrame \/ SendSelect \/ SelectT6
    BY <1>1, <2>2 DEF ReadFrame, SendSelect, SelectT6, ltVars
  <2>3. CASE RouteReply BY <1>1, <2>3 DEF RouteReply
  <2>4. CASE FinishSelect
    BY <1>1, <2>4 DEF FinishSelect, Selected, StartLinktest, PastCancel
  <2>5. CASE SelectLost BY <1>1, <2>5 DEF SelectLost, StopLinktest, PastCancel, ltVars
  <2>6. CASE SendProbe \/ ProbeT6 \/ EvaluateFailure
    BY <1>1, <2>6 DEF SendProbe, ProbeT6, EvaluateFailure
  <2>7. CASE DisconnectRecheck
    <3>1. ~(suppress /\ (heard \/ inflight)) /\ lt = "recheck"
      BY <1>1, <2>7 DEF DisconnectRecheck
    <3>. QED BY <1>1, <3>1 DEF SessionInv, LinktestInv, QuietInv
  <2>8. CASE Supervise \/ LocalClose
    BY <1>1, <2>8 DEF Supervise, LocalClose, Ended, ltVars
  <2>. QED
    BY <1>1, <2>1, <2>2, <2>3, <2>4, <2>5, <2>6, <2>7, <2>8, LinktestSteps DEF LinktestStep
<1>2. SessionInv /\ [Next]_vars
        => [lt # "report" /\ lt' = "report" =>
              quiet >= Threshold /\ (suppress => ~inflight)]_vars
  BY <1>1
<1>. QED BY <1>2, SessionInvariance, PTL DEF Spec, SilentBeforeDrop
=============================================================================
