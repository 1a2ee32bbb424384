----------------------------- MODULE HsmsSession -----------------------------
(***************************************************************************)
(* hsmsss: one generation of the HSMS-SS transport on its socket, either   *)
(* role, against a peer. The receive loop answers the peer's procedures    *)
(* (Select, Deselect, Linktest, Separate, Reject) and commits the FSM; the *)
(* Select procedure, the auto-linktest and the T7 dwell are goroutines of  *)
(* their own; each of them may end the socket through its record's gate    *)
(* (SocketRecord) and report the disconnect to the core. Of the core this  *)
(* keeps the state and the order it applies down reports in (the events of *)
(* its own commits and the rest are in Connection), of time only the order *)
(* of things: a timer may expire at any moment it is armed.                *)
(***************************************************************************)
EXTENDS SocketRecord

CONSTANTS
  Threshold,   \* linktestFailThreshold
  MaxTraffic,  \* bound: probes and data we send, frames the peer sends of its own accord
  WireCap      \* frames the peer has not read, or we have not

SessionCloser == {"io", "separate", "select", "linktest", "teardown"}
ASSUME SessionAssumption ==
  /\ Closer = SessionCloser /\ ReportCloser = SessionCloser \ {"teardown"}
  /\ Reporter = {"recv"}
  /\ Threshold \in Nat \ {0} /\ MaxTraffic \in Nat /\ WireCap \in Nat

VARIABLES
  fsm,            \* hsms state of this generation
  events,         \* reports the supervisor has yet to apply
  applied,        \* what took the link down
  stage, frame,   \* the receive loop: where it is, and the frame it handles
  t7, selectedOnce,
  proc,           \* the Select procedure
  open,           \* system bytes of our open control transactions
  lt, fails, probes,
  suppress,       \* the linktest runs with suppression (sr # nil); TRUE when none runs
  heard,          \* a frame was read since the probe was sent (recvNow > sentAt)
  heardSince,     \* a frame was read since the last counted failure
  inflight,       \* a data message awaits its reply (DataMsgInflight > 0)
  quiet,          \* history: probes sent since the last sign of life
  inq, outq, reqs, \* frames to us; our answers and our requests to the peer
  left,            \* of the bound
  pst, pReq,      \* the peer: its state, the request it awaits
  refused         \* history: the peer declined our Select

coreVars == <<fsm, events, applied>>
recvVars == <<stage, frame>>
procVars == <<proc, selectedOnce>>
ltVars == <<lt, fails, probes, suppress, heard, heardSince, inflight, quiet>>
peerVars == <<left, pst, pReq, refused>>
wireVars == <<inq, outq, reqs>>
vars == <<sockVars, coreVars, recvVars, procVars, t7, open, ltVars, peerVars, wireVars>>

Msg(type, id, status) == [type |-> type, id |-> id, status |-> status]
NoFrame == Msg("none", 0, 0)
SelectId == 1                    \* the system bytes of our Select.req
ProbeId(n) == n + 1              \* of our n-th Linktest.req
PeerId == 0                      \* of the peer's requests

Success == 0
AlreadyActive == 1               \* and DeselectStatusNotEstablished
Declined == 2

Init ==
  /\ SockInit
  /\ fsm = "NotSelected" /\ events = <<>> /\ applied = "nothing"
  /\ stage = "enter" /\ frame = NoFrame
  /\ t7 = FALSE /\ selectedOnce = FALSE /\ open = {}
  /\ proc \in {"send", "done"}        \* active, passive
  /\ lt = "off" /\ fails = 0 /\ probes = 0 /\ suppress = TRUE
  /\ heard = FALSE /\ heardSince = FALSE /\ inflight = FALSE
  /\ quiet = 0
  /\ inq = <<>> /\ outq = <<>> /\ reqs = <<>>
  /\ pst = "NotSelected" /\ pReq = "none" /\ left = MaxTraffic /\ refused = FALSE

Live == fsm # "NotConnected"     \* the generation's ctx, and the core's gate on it

PeerUp == GateFree /\ Live

\* external: the peer takes one of our answers.
PeerTakes(m) ==
  /\ pst' = CASE m.type = "Select.rsp" /\ m.status = Success -> "Selected"
              [] m.type = "Deselect.rsp" -> "NotSelected"
              [] OTHER -> pst
  /\ pReq' = IF m.type \in {"Select.rsp", "Deselect.rsp"} THEN "none" ELSE pReq

\* Once the close is decided nothing more is written, and the peer is not followed.
PeerGone ==
  /\ pst' = "NotSelected" /\ pReq' = "none" /\ left' = 0
  /\ refused' = (refused /\ proc = "already")
  /\ outq' = <<>> /\ reqs' = <<>> /\ UNCHANGED inq

-----------------------------------------------------------------------------
(* The timers of a generation. *)

ForgetLife == heard' = FALSE /\ quiet' = 0

\* stopLinktest: a cancelled goroutine ends where it next looks at its ctx, which
\* is not between the threshold and the report.
PastCancel == lt \in {"recheck", "report"}
StopLinktest ==
  /\ open' = open \cap {SelectId}
  /\ IF PastCancel THEN UNCHANGED ltVars
     ELSE /\ lt' = "off" /\ inflight' = FALSE /\ suppress' = TRUE /\ UNCHANGED probes
          /\ ForgetLife /\ fails' = 0 /\ heardSince' = FALSE

\* startLinktest reads the suppression switch from the live configuration, once.
StartLinktest == IF PastCancel THEN UNCHANGED <<lt, suppress>>
                 ELSE lt' = "sleep" /\ suppress' \in BOOLEAN

\* startLinktest was called for this Selected session, and stopLinktest was not.
Started == fsm = "Selected" /\ stage # "selected"

\* handleSelectReq and dispatchFrame, after a commit that changed the state.
Selected ==
  /\ t7' = FALSE /\ StartLinktest /\ selectedOnce' = TRUE

\* handleDeselectReq: the dwell applies again.
\* Faulty variant: it is not armed.
T7AfterDeselectForgotten == FALSE
T7AfterDeselect == TRUE

-----------------------------------------------------------------------------
(* The receive loop. *)

\* sendResponse: queued for the peer, or dropped when the generation is over.
CanRespond == Live => Len(outq) < WireCap
Respond(m) == outq' = IF Live THEN Append(outq, m) ELSE outq

Reject(m) == Msg("Reject.req", PeerId, Success)

EnterRecvLoop ==
  /\ stage = "enter"
  /\ t7' = TRUE /\ stage' = "read"
  /\ UNCHANGED <<sockVars, coreVars, frame, procVars, open, ltVars, peerVars, wireVars>>

\* readObserved opens a scope, reads, stamps the frame's arrival, reports it and
\* ends the scope; then the frame is dispatched.
RecvOpens ==
  /\ stage = "read" /\ frame = NoFrame
  /\ OpenReport("recv")
  /\ UNCHANGED <<coreVars, recvVars, procVars, t7, open, ltVars, peerVars, wireVars>>

Probing == lt \in {"wait", "failed", "recheck"}

\* Any frame is a sign of life; without suppression only a probe's answer is.
FrameIsLife == quiet' = IF suppress THEN 0 ELSE quiet

ReadFrame ==
  /\ stage = "read" /\ inq # <<>>
  /\ Moved("recv")
  /\ frame' = Head(inq) /\ inq' = Tail(inq)
  /\ heard' = Probing /\ heardSince' = (fails > 0) /\ FrameIsLife
  /\ UNCHANGED <<coreVars, stage, procVars, t7, open, lt, fails, probes, suppress,
                 inflight, peerVars, outq, reqs>>

ReadFails ==
  /\ stage = "read"
  /\ MoveFails("recv")
  /\ stage' = "failed"
  /\ UNCHANGED <<coreVars, frame, procVars, t7, open, ltVars, peerVars, wireVars>>

\* The straggler guard: only a live generation's read error is a disconnect.
ReadErrorJudged ==
  /\ stage = "failed" /\ pc["recv"] \in {"idle", "done"}
  /\ stage' = IF Live THEN "io" ELSE "done"
  /\ UNCHANGED <<sockVars, coreVars, frame, procVars, t7, open, ltVars, peerVars, wireVars>>

RecvScope ==
  /\ ReportFrame("recv") \/ EndReport("recv") \/ Deliver("recv")
  /\ UNCHANGED <<coreVars, recvVars, procVars, t7, open, ltVars, peerVars, wireVars>>

NextFrame == stage' = "read" /\ frame' = NoFrame
Handles(types) == stage = "read" /\ pc["recv"] = "idle" /\ frame.type \in types

\* An unsupported or malformed frame, and data while not Selected, are rejected
\* and the link is kept.
RejectFrame ==
  /\ Handles({"junk", "Data"}) /\ (frame.type = "Data" => fsm # "Selected")
  /\ CanRespond /\ Respond(Reject(frame)) /\ NextFrame
  /\ UNCHANGED <<sockVars, coreVars, procVars, t7, open, ltVars, peerVars, inq, reqs>>

\* deliverOwnedFrame: a data frame may be the reply we wait for.
DeliverData ==
  /\ Handles({"Data"}) /\ fsm = "Selected"
  /\ inflight' \in {inflight, FALSE} /\ NextFrame
  /\ UNCHANGED <<sockVars, coreVars, procVars, t7, open, lt, fails, probes, suppress,
                 heard, heardSince, quiet, peerVars, wireVars>>

Response == {"Select.rsp", "Deselect.rsp", "Linktest.rsp", "Reject.req"}
Hit == Live /\ frame.id \in open

\* What runSelectProcedure's wait returns.
Outcome(m) ==
  CASE m.type = "Select.rsp" /\ m.status = Success -> "done"
    [] m.type = "Select.rsp" /\ m.status = AlreadyActive -> "already"
    [] OTHER -> "report"

\* The initiator's commit is the receive loop's.
\* Faulty variant: it is left to the Select procedure.
CommitsHereNever(m) == FALSE
CommitsHere(m) == m.type = "Select.rsp" /\ m.status = Success

\* routeReply: the waiting Select procedure or linktest has its answer.
RouteReply ==
  /\ Handles(Response) /\ Hit
  /\ open' = open \ {frame.id}
  /\ IF frame.id = SelectId
     THEN proc' = Outcome(frame) /\ UNCHANGED <<lt, fails, heard, quiet>>
     ELSE /\ UNCHANGED proc
          /\ IF frame.type = "Reject.req" THEN lt' = "failed" /\ UNCHANGED <<fails, heard, quiet>>
             ELSE lt' = "sleep" /\ fails' = 0 /\ ForgetLife
  /\ IF CommitsHere(frame) THEN stage' = "commit" /\ UNCHANGED frame ELSE NextFrame
  /\ UNCHANGED <<sockVars, coreVars, selectedOnce, t7, probes, suppress, heardSince,
                 inflight, peerVars, wireVars>>

\* No such transaction: a response is rejected, a Reject.req is dropped.
RouteMiss ==
  /\ Handles(Response) /\ ~Hit
  /\ IF frame.type = "Reject.req" THEN UNCHANGED outq
     ELSE CanRespond /\ Respond(Reject(frame))
  /\ NextFrame
  /\ UNCHANGED <<sockVars, coreVars, procVars, t7, open, ltVars, peerVars, inq, reqs>>

\* commitSelected, as initiator and as responder; a responder goes on to answer
\* with what the commit said.
CommitSelected ==
  /\ stage = "commit" \/ Handles({"Select.req"})
  /\ fsm' = IF fsm = "NotSelected" THEN "Selected" ELSE fsm
  /\ stage' = IF fsm = "NotSelected" THEN "selected" ELSE "unchanged"
  /\ UNCHANGED <<sockVars, events, applied, frame, procVars, t7, open, ltVars,
                 peerVars, wireVars>>

FinishSelect ==
  /\ stage \in {"selected", "unchanged"}
  /\ IF stage = "selected" THEN Selected
     ELSE UNCHANGED <<t7, selectedOnce, lt, suppress>>
  /\ IF frame.type = "Select.req"
     THEN /\ CanRespond
          /\ Respond(Msg("Select.rsp", frame.id,
                         IF stage = "selected" THEN Success ELSE AlreadyActive))
     ELSE UNCHANGED outq
  /\ NextFrame
  /\ UNCHANGED <<sockVars, coreVars, proc, open, fails, probes, heard, heardSince, inflight,
                 quiet, peerVars, inq, reqs>>

HandleLinktestReq ==
  /\ Handles({"Linktest.req"})
  /\ CanRespond /\ Respond(Msg("Linktest.rsp", frame.id, Success)) /\ NextFrame
  /\ UNCHANGED <<sockVars, coreVars, procVars, t7, open, ltVars, peerVars, inq, reqs>>

\* The answer is queued before the transition, which the core may refuse.
HandleDeselectReq ==
  /\ Handles({"Deselect.req"}) /\ CanRespond
  /\ IF fsm = "Selected"
     THEN /\ Respond(Msg("Deselect.rsp", frame.id, Success))
          /\ stage' = "lost" /\ UNCHANGED frame
     ELSE Respond(Msg("Deselect.rsp", frame.id, AlreadyActive)) /\ NextFrame
  /\ UNCHANGED <<sockVars, coreVars, procVars, t7, open, ltVars, peerVars, inq, reqs>>

SelectLost ==
  /\ stage = "lost"
  /\ IF fsm = "Selected"
     THEN fsm' = "NotSelected" /\ StopLinktest /\ t7' = T7AfterDeselect
     ELSE UNCHANGED <<fsm, ltVars, open, t7>>
  /\ NextFrame
  /\ UNCHANGED <<sockVars, events, applied, procVars, peerVars, wireVars>>

HandleSeparateReq ==
  /\ Handles({"Separate.req"})
  /\ stage' = IF Live THEN "separate" ELSE "done"
  /\ UNCHANGED <<sockVars, coreVars, frame, procVars, t7, open, ltVars, peerVars, wireVars>>

RecvStep ==
  \/ EnterRecvLoop \/ RecvOpens \/ ReadFrame \/ RecvScope \/ ReadErrorJudged
  \/ RejectFrame \/ DeliverData \/ RouteReply \/ RouteMiss \/ CommitSelected
  \/ FinishSelect \/ HandleLinktestReq \/ HandleDeselectReq \/ SelectLost
  \/ HandleSeparateReq

-----------------------------------------------------------------------------
(* runSelectProcedure. *)

SendSelect ==
  /\ proc = "send" /\ Live
  /\ open' = open \cup {SelectId} /\ reqs' = Append(reqs, Msg("Select.req", SelectId, Success))
  /\ proc' = "wait"
  /\ UNCHANGED <<sockVars, coreVars, recvVars, selectedOnce, t7, ltVars, peerVars,
                 inq, outq>>

\* T6: the peer never answered.
SelectT6 ==
  /\ proc = "wait" /\ Live
  /\ open' = open \ {SelectId} /\ proc' = "report"
  /\ UNCHANGED <<sockVars, coreVars, recvVars, selectedOnce, t7, ltVars, peerVars, wireVars>>

\* Status 1 is the simultaneous select, if this generation has ever selected.
\* Faulty variant: if it is Selected now.
CrossedNow == fsm = "Selected"
Crossed == selectedOnce

JudgeAlreadyActive ==
  /\ proc = "already"
  /\ proc' = IF Crossed THEN "done" ELSE "report"
  /\ UNCHANGED <<sockVars, coreVars, recvVars, selectedOnce, t7, open, ltVars, peerVars,
                 wireVars>>

ProcStep == SendSelect \/ SelectT6 \/ JudgeAlreadyActive

-----------------------------------------------------------------------------
(* runLinktest. *)

\* The timer fires. With suppression a frame of the last interval, or an open data
\* transaction, defers the probe, and the timer is armed again.
SendProbe ==
  /\ lt = "sleep" /\ fsm = "Selected" /\ PeerUp
  /\ suppress => ~inflight
  /\ left > 0 /\ left' = left - 1
  /\ probes' = probes + 1
  /\ open' = open \cup {ProbeId(probes + 1)}
  /\ reqs' = Append(reqs, Msg("Linktest.req", ProbeId(probes + 1), Success))
  /\ lt' = "wait" /\ heard' = FALSE /\ quiet' = quiet + 1
  /\ UNCHANGED <<sockVars, coreVars, recvVars, procVars, t7, fails, suppress, heardSince,
                 inflight, pst, pReq, refused, inq, outq>>

ProbeT6 ==
  /\ lt = "wait" /\ Live
  /\ open' = open \ {ProbeId(probes)} /\ lt' = "failed"
  /\ UNCHANGED <<sockVars, coreVars, recvVars, procVars, t7, fails, probes, suppress,
                 heard, heardSince, inflight, quiet, peerVars, wireVars>>

\* linktestFailureStep: with suppression, life after the probe credits the failure
\* and life between two counted failures restarts the run.
\* Faulty variant: a run survives life between its failures.
FailureStepBlind ==
  IF suppress /\ (heard \/ inflight) THEN 0 ELSE fails + 1
FailureStep ==
  IF suppress /\ (heard \/ inflight) THEN 0
  ELSE IF suppress /\ fails > 0 /\ heardSince THEN 1
  ELSE fails + 1

EvaluateFailure ==
  /\ lt = "failed" /\ Live
  /\ fails' = FailureStep
  /\ heardSince' = FALSE
  /\ lt' = IF FailureStep >= Threshold THEN "recheck" ELSE "sleep"
  /\ heard' = FALSE
  /\ UNCHANGED <<sockVars, coreVars, recvVars, procVars, t7, open, probes, suppress,
                 inflight, quiet, peerVars, wireVars>>

\* linktestDisconnectRecheck, with suppression on what is true now; a goroutine that was cancelled
\* meanwhile finds out when it would sleep again.
DisconnectRecheck ==
  /\ lt = "recheck"
  /\ IF suppress /\ (heard \/ inflight)
     THEN lt' = (IF Started THEN "sleep" ELSE "off") /\ fails' = 0 /\ UNCHANGED suppress
     ELSE lt' = "report" /\ UNCHANGED fails /\ suppress' = TRUE
  /\ heard' = FALSE /\ heardSince' = FALSE
  /\ UNCHANGED <<sockVars, coreVars, recvVars, procVars, t7, open, probes, inflight,
                 quiet, peerVars, wireVars>>

LinktestStep ==
  SendProbe \/ ProbeT6 \/ EvaluateFailure \/ DisconnectRecheck

-----------------------------------------------------------------------------
(* runT7, the reports and what the core makes of them. *)

\* t7Expired, if the dwell is not cancelled first.
T7Expires ==
  /\ t7 /\ Live
  /\ t7' = FALSE /\ events' = Append(events, "t7")
  /\ UNCHANGED <<sockVars, fsm, applied, recvVars, procVars, open, ltVars, peerVars, wireVars>>

\* tcpDown: the goroutine that has a reason goes through the gate,
CallsTcpDown(c) ==
  \/ c \in {"io", "separate"} /\ stage = c
  \/ c = "select" /\ proc = "report"
  \/ c = "linktest" /\ lt = "report"
  \/ c = "teardown" /\ ~Live

CloseStep(c) ==
  /\ \/ /\ CallsTcpDown(c) /\ Gate(c)
        /\ IF GateFree THEN PeerGone ELSE UNCHANGED <<peerVars, wireVars>>
     \/ (CloseConn(c) \/ Arm(c) \/ Deliver(c)) /\ UNCHANGED <<peerVars, wireVars>>
  /\ UNCHANGED <<coreVars, recvVars, procVars, t7, open, ltVars>>

\* and reports to the core unless another report owns the socket's end.
ReportDown(c) ==
  /\ c \in ReportCloser /\ pc[c] = "done" /\ answer[c] = "report"
  /\ answer' = [answer EXCEPT ![c] = "made"]
  /\ events' = IF Live THEN Append(events, c) ELSE events
  /\ UNCHANGED <<recVars, connOpen, pc, log, fsm, applied, recvVars, procVars, t7, open,
                 ltVars, peerVars, wireVars>>

TakesDown(e) == Live /\ (e = "t7" => fsm = "NotSelected")

\* The end of the generation: its ctx ends the dwell and every wait, its open
\* transactions and queued frames are dropped. Only a goroutine that already has
\* its answer goes on.
Ended(why) ==
  /\ fsm' = "NotConnected" /\ applied' = why /\ events' = <<>>
  /\ t7' = FALSE /\ open' = {} /\ inflight' = FALSE
  /\ proc' = IF proc \in {"send", "wait"} THEN "done" ELSE proc
  /\ lt' = IF lt \in {"recheck", "report"} THEN lt ELSE "off"
  /\ fails' = 0 /\ probes' = 0 /\ heardSince' = FALSE
  /\ IF lt = "recheck" THEN UNCHANGED <<suppress, heard, quiet>>
     ELSE suppress' = TRUE /\ ForgetLife
  /\ selectedOnce' = (selectedOnce /\ proc = "already")
  /\ PeerGone

\* The supervisor applies the reports in order; the first that takes the link
\* down ends the generation.
Supervise ==
  /\ events # <<>>
  /\ IF TakesDown(Head(events)) THEN Ended(Head(events))
     ELSE /\ events' = Tail(events)
          /\ UNCHANGED <<fsm, applied, procVars, t7, open, ltVars, wireVars, peerVars>>
  /\ UNCHANGED <<sockVars, recvVars>>

\* Close.
LocalClose ==
  /\ Live
  /\ Ended("close")
  /\ UNCHANGED <<sockVars, recvVars>>

\* The core's writer puts our answers on the socket, and the peer has them in
\* that order.
SendAnswer ==
  /\ outq # <<>> /\ PeerUp
  /\ outq' = Tail(outq) /\ PeerTakes(Head(outq))
  /\ UNCHANGED <<sockVars, coreVars, recvVars, procVars, t7, open, ltVars, left, refused,
                 inq, reqs>>

\* The application sends a data message that wants a reply; T3 ends the wait.
DataSent ==
  /\ PeerUp /\ lt # "off"
  /\ \/ fsm = "Selected" /\ ~inflight /\ left > 0 /\ inflight' = TRUE /\ left' = left - 1
     \/ inflight /\ inflight' = FALSE /\ UNCHANGED left
  /\ UNCHANGED <<sockVars, coreVars, recvVars, procVars, t7, open, lt, fails, probes, suppress,
                 heard, heardSince, quiet, pst, pReq, refused, wireVars>>

-----------------------------------------------------------------------------
(* The peer: an E37 entity that keeps its side of each procedure, or ends it. *)

ToUs(m) == Len(inq) < WireCap /\ inq' = Append(inq, m)
PeerFrame == {Msg(t, PeerId, Success) : t \in {"Linktest.req", "junk", "Separate.req"}}

\* Of its own accord: a request, data once it is selected, data too early, a stray.
PeerSends ==
  /\ PeerUp /\ left > 0 /\ left' = left - 1
  /\ \/ /\ pst = "NotSelected" /\ pReq = "none" /\ pReq' = "Select"
        /\ ToUs(Msg("Select.req", PeerId, 0))
     \/ /\ pst = "Selected" /\ pReq = "none" /\ pReq' = "Deselect"
        /\ ToUs(Msg("Deselect.req", PeerId, 0))
     \/ /\ pst = "Selected" /\ pReq # "Deselect" /\ ToUs(Msg("Data", PeerId, 0))
        /\ UNCHANGED pReq
     \/ /\ left = 1 /\ \E m \in PeerFrame : ToUs(m)
        /\ UNCHANGED pReq
  /\ UNCHANGED <<sockVars, coreVars, recvVars, procVars, t7, open, ltVars, pst, refused,
                 outq, reqs>>

\* It takes our requests in order, and answers them, declines the Select, or is silent.
PeerTakesRequest ==
  /\ PeerUp /\ reqs # <<>> /\ reqs' = Tail(reqs)
  /\ LET m == Head(reqs) IN
       \/ /\ m.type = "Linktest.req" /\ UNCHANGED <<pst, refused>>
          /\ \E r \in {"Linktest.rsp", "Reject.req"} : ToUs(Msg(r, m.id, Success))
       \/ /\ m.type = "Select.req" /\ pst' = "Selected" /\ UNCHANGED refused
          /\ ToUs(Msg("Select.rsp", m.id, IF pst = "Selected" THEN AlreadyActive ELSE Success))
       \/ /\ m.type = "Select.req" /\ UNCHANGED pst /\ refused' = TRUE
          /\ \E r \in {"Select.rsp", "Deselect.rsp", "Reject.req"} : ToUs(Msg(r, m.id, Declined))
  /\ UNCHANGED <<sockVars, coreVars, recvVars, procVars, t7, open, ltVars, pReq, left, outq>>

Next ==
  \/ RecvStep \/ ReadFails \/ ProcStep \/ LinktestStep \/ T7Expires \/ Supervise
  \/ \E c \in Closer : CloseStep(c) \/ ReportDown(c)
  \/ LocalClose \/ SendAnswer \/ DataSent
  \/ PeerSends \/ PeerTakesRequest

Spec == Init /\ [][Next]_vars

\* Goroutines run and armed dwells expire. A read or write may block while the
\* conn is open, and fails once it is closed; the peer owes nothing.
FairSpec ==
  /\ Spec
  /\ WF_vars(RecvStep \/ (ReadFails /\ ~connOpen))
  /\ WF_vars(T7Expires) /\ WF_vars(Supervise)
  /\ \A c \in Closer : WF_vars(CloseStep(c) \/ ReportDown(c))

-----------------------------------------------------------------------------
(* Properties. *)

\* handleSelectReq and dispatchFrame (H2): the commit is made before the answer is
\* sent and before the next frame is read, so data that a peer sends once it is
\* selected is never rejected as NotSelected, unless the Select was given up.
SelectedBeforeData ==
  Handles({"Data"}) /\ fsm = "NotSelected" => proc = "report"

\* runSelectProcedure: only a Select the peer declined, or never answered, drops
\* the link; a simultaneous select, even one deselected since, does not.
OnlyDeclinedDrops ==
  [][proc = "already" /\ proc' = "report" => refused]_vars

\* runLinktest: with suppression the link is dropped only after Threshold probes
\* during which nothing was read, and with no data transaction open; without it, only
\* after Threshold probes in a row of which none was answered.
SilentBeforeDrop ==
  [][lt # "report" /\ lt' = "report" =>
       quiet >= Threshold /\ (suppress => ~inflight)]_vars

\* tcpDown: the report that takes the link down is the one whose reason the
\* socket's close carries.
CauseAgrees == applied \in ReportCloser => applied = closing

\* armT7: a peer cannot hold a link that is not Selected.
UnselectedEnds == fsm = "NotSelected" ~> fsm # "NotSelected"
=============================================================================
