-------------------------- MODULE HsmsSelectProofs ---------------------------
(***************************************************************************)
(* The exchange of HsmsSession with the peer, step by step, and the        *)
(* theorem about the simultaneous select.                                  *)
(***************************************************************************)
EXTENDS HsmsSessionProofs

-----------------------------------------------------------------------------
(* The inductive invariant, continued: the Select procedure. *)

\* What is on the wire. A Select.req is the one request with its system bytes.
FrameType ==
  {"none", "junk", "Data", "Separate.req", "Linktest.req", "Select.req", "Deselect.req",
   "Select.rsp", "Deselect.rsp", "Linktest.rsp", "Reject.req"}
Frame == [type : FrameType, id : Nat, status : {Success, AlreadyActive, Declined}]

WireTypes ==
  /\ inq \in Seq(Frame) /\ outq \in Seq(Frame) /\ reqs \in Seq(Frame) /\ frame \in Frame
  /\ \A i \in 1 .. Len(reqs) : reqs[i].id = SelectId <=> reqs[i].type = "Select.req"
  /\ \A i \in 1 .. Len(inq) : inq[i].type = "Select.rsp" => inq[i].id = SelectId
  /\ frame.type = "Select.rsp" => frame.id = SelectId

\* Our Select.req is outstanding only while its procedure waits, and a peer that
\* finds it already selected is one that we selected before.
Waiting == SelectId \in open
SelectInv ==
  /\ Waiting => proc = "wait"
  /\ \A i \in 1 .. Len(reqs) : reqs[i].id = SelectId =>
       /\ proc # "send"
       /\ pst = "Selected" => selectedOnce
       /\ \A j \in 1 .. Len(reqs) : reqs[j].id = SelectId => i = j
  /\ proc = "send" /\ pst = "Selected" => selectedOnce
  /\ \A i \in 1 .. Len(outq) :
       outq[i].type = "Select.rsp" /\ outq[i].status = Success => selectedOnce
  /\ Live => \A i \in 1 .. Len(inq) :
       inq[i].type = "Select.rsp" /\ inq[i].status = AlreadyActive => selectedOnce
  /\ Live /\ frame.type = "Select.rsp" /\ frame.status = AlreadyActive => selectedOnce
  /\ proc = "already" => selectedOnce

-----------------------------------------------------------------------------
(* The exchange with the peer: what each step does to it. *)

\* r is q with m at its end; q without its first frame.
Joins(q, r, m) ==
  /\ r \in Seq(Frame) /\ Len(q) \in Nat /\ Len(r) = Len(q) + 1 /\ r[Len(q) + 1] = m
  /\ \A i \in 1 .. Len(q) : r[i] = q[i]
Leaves(q, r) ==
  /\ r \in Seq(Frame) /\ Len(q) \in Nat /\ Len(q) >= 1 /\ Len(r) = Len(q) - 1
  /\ \A i \in 1 .. Len(r) : i + 1 \in 1 .. Len(q) /\ r[i] = q[i + 1]

recvSame == UNCHANGED <<fsm, stage, frame>>
procSame == UNCHANGED <<proc, selectedOnce>> /\ (Waiting' <=> Waiting)
peerSame == UNCHANGED <<pst, pReq, closing>>

Apart == recvSame /\ procSame /\ peerSame /\ UNCHANGED <<inq, outq, reqs>>

Turns ==
  /\ frame.type \in {"none", "Separate.req"} /\ (stage' = "read" => frame = NoFrame)
  /\ stage' \in {"read", "failed", "io", "separate", "done"}
  /\ UNCHANGED <<fsm, frame>> /\ procSame /\ peerSame /\ UNCHANGED <<inq, outq, reqs>>

Reads ==
  /\ stage = "read" /\ frame = NoFrame
  /\ Leaves(inq, inq') /\ frame' = inq[1] /\ frame' \in Frame
  /\ UNCHANGED <<fsm, stage>> /\ procSame /\ peerSame /\ UNCHANGED <<outq, reqs>>

Drops ==
  /\ stage = "read" /\ stage' = "read" /\ frame' = NoFrame
  /\ frame.type \in {"junk", "Data", "Linktest.req"} \cup Response
  /\ frame.type \in Response /\ Live => frame.id \notin open
  /\ \/ UNCHANGED outq
     \/ \E m \in Frame : Joins(outq, outq', m) /\ m.type \in {"Reject.req", "Linktest.rsp"}
  /\ UNCHANGED fsm /\ procSame /\ peerSame /\ UNCHANGED <<inq, reqs>>

Routes ==
  /\ stage = "read" /\ Live /\ frame.type \in Response
  /\ IF frame.id = SelectId THEN Waiting /\ ~Waiting' /\ proc' = Outcome(frame)
     ELSE (Waiting' <=> Waiting) /\ UNCHANGED proc
  /\ IF CommitsHere(frame) THEN stage' = "commit" /\ UNCHANGED frame
     ELSE stage' = "read" /\ frame' = NoFrame
  /\ UNCHANGED <<fsm, selectedOnce>> /\ peerSame /\ UNCHANGED <<inq, outq, reqs>>

Selects ==
  /\ stage = "commit" \/ (stage = "read" /\ frame.type = "Select.req")
  /\ fsm' = IF fsm = "NotSelected" THEN "Selected" ELSE fsm
  /\ stage' = IF fsm = "NotSelected" THEN "selected" ELSE "unchanged"
  /\ UNCHANGED frame /\ procSame /\ peerSame /\ UNCHANGED <<inq, outq, reqs>>

Finishes ==
  /\ stage \in {"selected", "unchanged"} /\ stage' = "read" /\ frame' = NoFrame
  /\ (selectedOnce => selectedOnce') /\ (stage = "selected" => selectedOnce')
  /\ IF Live /\ frame.type = "Select.req"
     THEN \E m \in Frame : /\ Joins(outq, outq', m) /\ m.type = "Select.rsp"
                           /\ m.status = Success => stage = "selected"
     ELSE UNCHANGED outq
  /\ UNCHANGED <<fsm, proc>> /\ (Waiting' <=> Waiting) /\ peerSame /\ UNCHANGED <<inq, reqs>>

Deselects ==
  /\ stage = "read" /\ frame.type = "Deselect.req"
  /\ IF Live THEN \E m \in Frame : Joins(outq, outq', m) /\ m.type = "Deselect.rsp"
     ELSE UNCHANGED outq
  /\ IF fsm = "Selected" THEN stage' = "lost" /\ UNCHANGED frame
     ELSE stage' = "read" /\ frame' = NoFrame
  /\ UNCHANGED fsm /\ procSame /\ peerSame /\ UNCHANGED <<inq, reqs>>

Loses ==
  /\ stage = "lost" /\ stage' = "read" /\ frame' = NoFrame
  /\ fsm' = IF fsm = "Selected" THEN "NotSelected" ELSE fsm
  /\ procSame /\ peerSame /\ UNCHANGED <<inq, outq, reqs>>

Requests ==
  /\ proc = "send" /\ proc' = "wait" /\ Waiting' /\ UNCHANGED selectedOnce
  /\ \E m \in Frame : Joins(reqs, reqs', m) /\ m.type = "Select.req" /\ m.id = SelectId
  /\ recvSame /\ peerSame /\ UNCHANGED <<inq, outq>>

GivesUp ==
  /\ proc = "wait" /\ proc' = "report" /\ ~Waiting' /\ UNCHANGED selectedOnce
  /\ recvSame /\ peerSame /\ UNCHANGED <<inq, outq, reqs>>

Judges ==
  /\ proc = "already" /\ (proc' = "done" \/ (proc' = "report" /\ ~selectedOnce))
  /\ UNCHANGED selectedOnce /\ (Waiting' <=> Waiting)
  /\ recvSame /\ peerSame /\ UNCHANGED <<inq, outq, reqs>>

Probes ==
  /\ \E m \in Frame : Joins(reqs, reqs', m) /\ m.type = "Linktest.req" /\ m.id # SelectId
  /\ recvSame /\ procSame /\ peerSame /\ UNCHANGED <<inq, outq>>

PeerLeft == pst' = "NotSelected" /\ pReq' = "none" /\ outq' = <<>> /\ reqs' = <<>>

Ends ==
  /\ fsm' = "NotConnected" /\ ~Waiting' /\ proc' \notin {"send", "wait"}
  /\ proc' = "already" <=> proc = "already"
  /\ proc = "already" /\ selectedOnce => selectedOnce'
  /\ PeerLeft /\ UNCHANGED <<stage, frame, closing, inq>>

Shuts ==
  closing' # NoOne /\ PeerLeft /\ recvSame /\ procSame /\ UNCHANGED inq

PeerHears ==
  /\ PeerUp /\ Leaves(outq, outq') /\ PeerTakes(outq[1])
  /\ UNCHANGED closing /\ recvSame /\ procSame /\ UNCHANGED <<inq, reqs>>

PeerSpeaks ==
  /\ PeerUp
  /\ \E m \in Frame :
       /\ Joins(inq, inq', m) /\ m.id # SelectId
       /\ \/ pReq = "none" /\ pReq' = "Select" /\ m.type = "Select.req"
          \/ pReq = "none" /\ pReq' = "Deselect" /\ m.type = "Deselect.req"
          \/ /\ pst = "Selected" /\ pReq # "Deselect" /\ m.type = "Data"
             /\ UNCHANGED pReq
          \/ m.type \in {"Linktest.req", "junk", "Separate.req"} /\ UNCHANGED pReq
  /\ UNCHANGED <<pst, closing>> /\ recvSame /\ procSame /\ UNCHANGED <<outq, reqs>>

PeerReplies ==
  /\ PeerUp /\ Leaves(reqs, reqs')
  /\ \E m \in Frame :
       /\ Joins(inq, inq', m) /\ m.id = reqs[1].id
       /\ \/ /\ reqs[1].type = "Linktest.req" /\ m.type \in {"Linktest.rsp", "Reject.req"}
             /\ UNCHANGED pst
          \/ /\ reqs[1].type = "Select.req" /\ m.type = "Select.rsp" /\ pst' = "Selected"
             /\ m.status = IF pst = "Selected" THEN AlreadyActive ELSE Success
          \/ /\ reqs[1].type = "Select.req"
             /\ m.type \in {"Select.rsp", "Deselect.rsp", "Reject.req"}
             /\ m.status = Declined /\ UNCHANGED pst
  /\ UNCHANGED <<pReq, closing>> /\ recvSame /\ procSame /\ UNCHANGED outq

\* Queueing a frame, in these terms.
LEMMA AppendJoins ==
  ASSUME NEW q \in Seq(Frame), NEW m \in Frame
  PROVE  Joins(q, Append(q, m), m)
BY AppendFacts DEF Joins

\* Taking the head of a queue, in these terms.
LEMMA TailLeaves ==
  ASSUME NEW q \in Seq(Frame), q # <<>>
  PROVE  Leaves(q, Tail(q)) /\ Head(q) = q[1] /\ Head(q) \in Frame
BY TailFacts DEF Leaves

\* The parts of a frame.
LEMMA MsgFacts ==
  ASSUME NEW t \in FrameType, NEW i \in Nat, NEW s \in {Success, AlreadyActive, Declined}
  PROVE  /\ Msg(t, i, s) \in Frame /\ Msg(t, i, s).type = t /\ Msg(t, i, s).id = i
         /\ Msg(t, i, s).status = s
BY DEF Msg, Frame

\* The system bytes of our Select, of our probes and of the peer's requests differ.
LEMMA Ids ==
  /\ SelectId \in Nat /\ PeerId \in Nat /\ PeerId # SelectId
  /\ Success # AlreadyActive /\ Success # Declined /\ AlreadyActive # Declined
  /\ NoFrame \in Frame /\ NoFrame.type = "none" /\ NoFrame.id # SelectId
  /\ \A n \in Nat \ {0} : ProbeId(n) # SelectId /\ ProbeId(n) \in Nat
BY
   DEF SelectId, PeerId, Success, AlreadyActive, Declined, NoFrame, Msg, Frame, FrameType,
       ProbeId

\* The frames of a queue that one joined.
LEMMA JoinsCases ==
  ASSUME NEW q, NEW r, NEW m, Joins(q, r, m)
  PROVE  \A i \in 1 .. Len(r) :
           (i \in 1 .. Len(q) /\ r[i] = q[i]) \/ (i = Len(q) + 1 /\ r[i] = m)
BY DEF Joins

\* The frames of a queue that the first one left.
LEMMA LeavesCases ==
  ASSUME NEW q, NEW r, Leaves(q, r)
  PROVE  /\ 1 \in 1 .. Len(q)
         /\ \A i \in 1 .. Len(r) :
              i \in Nat /\ i + 1 \in 1 .. Len(q) /\ i + 1 # 1 /\ r[i] = q[i + 1]
BY DEF Leaves

\* An answer joins the queue of a live generation, and is dropped otherwise.
LEMMA RespondFacts ==
  ASSUME WireTypes, NEW m \in Frame, Respond(m)
  PROVE  IF Live THEN Joins(outq, outq', m) ELSE UNCHANGED outq
BY AppendJoins DEF WireTypes, Respond

\* Steps of the receive loop.
LEMMA RecvExchange ==
  ASSUME WireTypes, StageInv, LinktestInv, RecvStep
  PROVE  Apart \/ Turns \/ Reads \/ Drops \/ Routes \/ Selects \/ Finishes \/ Deselects
         \/ Loses
<1>n. NoFrame.type = "none" BY Ids
<1>f. frame.id \in Nat /\ frame.type \in FrameType BY DEF WireTypes, Frame
<1>1. CASE EnterRecvLoop \/ ReadErrorJudged
  <2>1. /\ stage \in {"enter", "failed"} /\ stage' \in {"read", "io", "done"}
        /\ UNCHANGED <<fsm, frame, proc, selectedOnce, open, pst, pReq, closing, inq, outq,
                       reqs>>
    BY <1>1 DEF EnterRecvLoop, ReadErrorJudged, coreVars, procVars, peerVars, wireVars,
       sockVars, recVars
  <2>2. frame = NoFrame BY <2>1 DEF StageInv
  <2>. QED BY <1>n, <2>1, <2>2 DEF Turns, procSame, peerSame, Waiting
<1>2. CASE RecvOpens \/ RecvScope
  <2>1. UNCHANGED <<fsm, stage, frame, proc, selectedOnce, open, pst, pReq, closing, inq,
                    outq, reqs>>
    BY <1>2, Zenon DEF RecvOpens, RecvScope, OpenReport, ReportFrame, EndReport, Deliver,
       coreVars, recvVars, procVars, peerVars, wireVars, recVars
  <2>. QED BY <2>1 DEF Apart, recvSame, procSame, peerSame, Waiting
<1>3. CASE ReadFrame
  <2>1. /\ stage = "read" /\ inq # <<>> /\ frame' = Head(inq) /\ inq' = Tail(inq)
        /\ UNCHANGED <<fsm, stage, proc, selectedOnce, open, pst, pReq, closing, outq, reqs>>
        /\ pc["recv"] \in {"open", "bare"}
    BY <1>3 DEF ReadFrame, Moved, coreVars, procVars, peerVars, recVars
  <2>2. frame = NoFrame BY <2>1 DEF StageInv
  <2>3. Leaves(inq, inq') /\ frame' = inq[1] /\ frame' \in Frame
    BY <2>1, TailLeaves DEF WireTypes
  <2>. QED BY <2>1, <2>2, <2>3 DEF Reads, procSame, peerSame, Waiting
<1>4. CASE RejectFrame \/ DeliverData \/ HandleLinktestReq
  <2>1. /\ stage = "read" /\ stage' = "read" /\ frame' = NoFrame
        /\ UNCHANGED <<fsm, proc, selectedOnce, open, pst, pReq, closing, inq, reqs>>
        /\ \/ frame.type \in {"junk", "Data"} \/ frame.type \in {"Data"}
           \/ frame.type \in {"Linktest.req"}
    BY <1>4, Zenon DEF RejectFrame, DeliverData, HandleLinktestReq, Handles, NextFrame,
       coreVars, procVars, peerVars, wireVars, sockVars, recVars
  <2>2. \/ UNCHANGED outq
        \/ Respond(Msg("Reject.req", PeerId, Success))
        \/ Respond(Msg("Linktest.rsp", frame.id, Success))
    BY <1>4, Zenon DEF RejectFrame, DeliverData, HandleLinktestReq, Reject, wireVars
  <2>3. \/ UNCHANGED outq
        \/ \E m \in Frame : Joins(outq, outq', m) /\ m.type \in {"Reject.req", "Linktest.rsp"}
    <3>1. ASSUME NEW m \in Frame, Respond(m), m.type \in {"Reject.req", "Linktest.rsp"}
          PROVE  <2>3!1 \/ <2>3!2
      BY <3>1, RespondFacts
    <3>2. /\ Msg("Reject.req", PeerId, Success) \in Frame
          /\ Msg("Reject.req", PeerId, Success).type = "Reject.req"
          /\ Msg("Linktest.rsp", frame.id, Success) \in Frame
          /\ Msg("Linktest.rsp", frame.id, Success).type = "Linktest.rsp"
      BY <1>f, MsgFacts, Ids DEF FrameType
    <3>. QED BY <2>2, <3>1, <3>2
  <2>4. frame.type \notin Response BY <2>1 DEF Response
  <2>. QED BY <2>1, <2>3, <2>4 DEF Drops, procSame, peerSame, Waiting
<1>5. CASE RouteMiss
  <2>1. /\ stage = "read" /\ stage' = "read" /\ frame' = NoFrame
        /\ frame.type \in Response /\ (Live => frame.id \notin open)
        /\ UNCHANGED <<fsm, proc, selectedOnce, open, pst, pReq, closing, inq, reqs>>
        /\ UNCHANGED outq \/ Respond(Msg("Reject.req", PeerId, Success))
    BY <1>5, Zenon DEF RouteMiss, Hit, Handles, NextFrame, Reject, coreVars, procVars,
       peerVars, sockVars, recVars
  <2>2. /\ Msg("Reject.req", PeerId, Success) \in Frame
        /\ Msg("Reject.req", PeerId, Success).type = "Reject.req"
    BY MsgFacts, Ids DEF FrameType
  <2>3. \/ UNCHANGED outq
        \/ \E m \in Frame : Joins(outq, outq', m) /\ m.type \in {"Reject.req", "Linktest.rsp"}
    BY <2>1, <2>2, RespondFacts
  <2>. QED BY <2>1, <2>3 DEF Drops, procSame, peerSame, Waiting
<1>6. CASE RouteReply
  <2>1. /\ stage = "read" /\ Live /\ frame.type \in Response /\ frame.id \in open
        /\ open' = open \ {frame.id}
        /\ IF frame.id = SelectId THEN proc' = Outcome(frame) ELSE UNCHANGED proc
        /\ IF CommitsHere(frame) THEN stage' = "commit" /\ UNCHANGED frame ELSE NextFrame
        /\ UNCHANGED <<fsm, selectedOnce, pst, pReq, closing, inq, outq, reqs>>
    BY <1>6 DEF RouteReply, Hit, Handles, coreVars, peerVars, wireVars, sockVars, recVars
  <2>. QED BY <2>1 DEF Routes, NextFrame, peerSame, Waiting
<1>7. CASE CommitSelected
  <2>1. /\ stage = "commit" \/ (stage = "read" /\ frame.type = "Select.req")
        /\ fsm' = IF fsm = "NotSelected" THEN "Selected" ELSE fsm
        /\ stage' = IF fsm = "NotSelected" THEN "selected" ELSE "unchanged"
        /\ UNCHANGED <<frame, proc, selectedOnce, open, pst, pReq, closing, inq, outq, reqs>>
    BY <1>7 DEF CommitSelected, Handles, procVars, peerVars, wireVars, sockVars, recVars
  <2>. QED BY <2>1 DEF Selects, procSame, peerSame, Waiting
<1>8. CASE FinishSelect
  <2>1. /\ stage \in {"selected", "unchanged"} /\ stage' = "read" /\ frame' = NoFrame
        /\ UNCHANGED <<fsm, proc, open, pst, pReq, closing, inq, reqs>>
    BY <1>8 DEF FinishSelect, NextFrame, coreVars, peerVars, sockVars, recVars
  <2>2. (selectedOnce => selectedOnce') /\ (stage = "selected" => selectedOnce')
    BY <1>8, Zenon DEF FinishSelect, Selected
  <2>3. CASE frame.type = "Select.req"
    <3>1. PICK s \in {Success, AlreadyActive, Declined} :
             /\ Respond(Msg("Select.rsp", frame.id, s))
             /\ s = Success => stage = "selected"
      BY <1>8, <2>3, Ids DEF FinishSelect
    <3>2. /\ Msg("Select.rsp", frame.id, s) \in Frame
          /\ Msg("Select.rsp", frame.id, s).type = "Select.rsp"
          /\ Msg("Select.rsp", frame.id, s).status = s
      BY <1>f, MsgFacts DEF FrameType
    <3>3. IF Live THEN \E m \in Frame : /\ Joins(outq, outq', m) /\ m.type = "Select.rsp"
                                        /\ m.status = Success => stage = "selected"
          ELSE UNCHANGED outq
      BY <3>1, <3>2, RespondFacts
    <3>. QED BY <2>1, <2>2, <2>3, <3>3, Zenon DEF Finishes, peerSame, Waiting
  <2>4. CASE frame.type # "Select.req"
    <3>1. UNCHANGED outq BY <1>8, <2>4 DEF FinishSelect
    <3>. QED BY <2>1, <2>2, <2>4, <3>1, Zenon DEF Finishes, peerSame, Waiting
  <2>. QED BY <2>3, <2>4
<1>9. CASE HandleDeselectReq
  <2>1. /\ stage = "read" /\ frame.type = "Deselect.req"
        /\ IF fsm = "Selected" THEN stage' = "lost" /\ UNCHANGED frame
           ELSE stage' = "read" /\ frame' = NoFrame
        /\ UNCHANGED <<fsm, proc, selectedOnce, open, pst, pReq, closing, inq, reqs>>
    BY <1>9 DEF HandleDeselectReq, Handles, NextFrame, coreVars, procVars, peerVars,
       sockVars, recVars
  <2>2. PICK s \in {Success, AlreadyActive, Declined} :
           Respond(Msg("Deselect.rsp", frame.id, s))
    BY <1>9 DEF HandleDeselectReq
  <2>3. /\ Msg("Deselect.rsp", frame.id, s) \in Frame
        /\ Msg("Deselect.rsp", frame.id, s).type = "Deselect.rsp"
    BY <1>f, MsgFacts DEF FrameType
  <2>4. IF Live THEN \E m \in Frame : Joins(outq, outq', m) /\ m.type = "Deselect.rsp"
        ELSE UNCHANGED outq
    BY <2>2, <2>3, RespondFacts
  <2>. QED BY <2>1, <2>4 DEF Deselects, procSame, peerSame, Waiting
<1>10. CASE SelectLost
  <2>1. /\ stage = "lost" /\ stage' = "read" /\ frame' = NoFrame
        /\ fsm' = IF fsm = "Selected" THEN "NotSelected" ELSE fsm
        /\ open' = open \cap {SelectId} \/ UNCHANGED open
        /\ UNCHANGED <<proc, selectedOnce, pst, pReq, closing, inq, outq, reqs>>
    BY <1>10 DEF SelectLost, StopLinktest, NextFrame, procVars, peerVars, wireVars,
       sockVars, recVars
  <2>. QED BY <2>1 DEF Loses, procSame, peerSame, Waiting
<1>11. CASE HandleSeparateReq
  <2>1. /\ frame.type = "Separate.req" /\ stage' \in {"separate", "done"}
        /\ UNCHANGED <<fsm, frame, proc, selectedOnce, open, pst, pReq, closing, inq, outq,
                       reqs>>
    BY <1>11 DEF HandleSeparateReq, Handles, coreVars, procVars, peerVars, wireVars,
       sockVars, recVars
  <2>. QED BY <2>1 DEF Turns, procSame, peerSame, Waiting
<1>. QED
  BY <1>1, <1>2, <1>3, <1>4, <1>5, <1>6, <1>7, <1>8, <1>9, <1>10, <1>11, Zenon DEF RecvStep

\* Steps of the peer.
LEMMA PeerExchange ==
  ASSUME WireTypes, SendAnswer \/ PeerSends \/ PeerTakesRequest
  PROVE  PeerHears \/ PeerSpeaks \/ PeerReplies
<1>1. CASE SendAnswer
  <2>1. /\ outq # <<>> /\ PeerUp /\ outq' = Tail(outq) /\ PeerTakes(Head(outq))
        /\ UNCHANGED <<fsm, stage, frame, proc, selectedOnce, open, closing, inq, reqs>>
    BY <1>1 DEF SendAnswer, coreVars, recvVars, procVars, sockVars, recVars
  <2>2. Leaves(outq, outq') /\ Head(outq) = outq[1] BY <2>1, TailLeaves DEF WireTypes
  <2>. QED BY <2>1, <2>2 DEF PeerHears, recvSame, procSame, Waiting
<1>2. CASE PeerSends
  <2>1. /\ PeerUp
        /\ UNCHANGED <<fsm, stage, frame, proc, selectedOnce, open, pst, closing, outq, reqs>>
    BY <1>2 DEF PeerSends, coreVars, recvVars, procVars, sockVars, recVars
  <2>2. PICK t \in FrameType :
          /\ ToUs(Msg(t, PeerId, Success))
          /\ \/ pReq = "none" /\ pReq' = "Select" /\ t = "Select.req"
             \/ pReq = "none" /\ pReq' = "Deselect" /\ t = "Deselect.req"
             \/ pst = "Selected" /\ pReq # "Deselect" /\ t = "Data" /\ UNCHANGED pReq
             \/ t \in {"Linktest.req", "junk", "Separate.req"} /\ UNCHANGED pReq
    BY <1>2 DEF PeerSends, PeerFrame, FrameType, Success
  <2>3. /\ Msg(t, PeerId, Success) \in Frame /\ Msg(t, PeerId, Success).type = t
        /\ Msg(t, PeerId, Success).id # SelectId
    BY MsgFacts, Ids
  <2>4. Joins(inq, inq', Msg(t, PeerId, Success))
    BY <2>2, <2>3, AppendJoins DEF ToUs, WireTypes
  <2>5. \E m \in Frame :
          /\ Joins(inq, inq', m) /\ m.id # SelectId
          /\ \/ pReq = "none" /\ pReq' = "Select" /\ m.type = "Select.req"
             \/ pReq = "none" /\ pReq' = "Deselect" /\ m.type = "Deselect.req"
             \/ /\ pst = "Selected" /\ pReq # "Deselect" /\ m.type = "Data"
                /\ UNCHANGED pReq
             \/ m.type \in {"Linktest.req", "junk", "Separate.req"} /\ UNCHANGED pReq
    BY <2>2, <2>3, <2>4
  <2>. QED BY <2>1, <2>5 DEF PeerSpeaks, recvSame, procSame, Waiting
<1>3. CASE PeerTakesRequest
  <2>1. /\ PeerUp /\ reqs # <<>> /\ reqs' = Tail(reqs)
        /\ UNCHANGED <<fsm, stage, frame, proc, selectedOnce, open, pReq, closing, outq>>
    BY <1>3 DEF PeerTakesRequest, coreVars, recvVars, procVars, sockVars, recVars
  <2>2. Leaves(reqs, reqs') /\ Head(reqs) = reqs[1] /\ reqs[1] \in Frame
    BY <2>1, TailLeaves DEF WireTypes
  <2>3. PICK t \in FrameType, s \in {Success, AlreadyActive, Declined} :
          /\ ToUs(Msg(t, reqs[1].id, s))
          /\ \/ /\ reqs[1].type = "Linktest.req" /\ t \in {"Linktest.rsp", "Reject.req"}
                /\ UNCHANGED pst
             \/ /\ reqs[1].type = "Select.req" /\ t = "Select.rsp" /\ pst' = "Selected"
                /\ s = IF pst = "Selected" THEN AlreadyActive ELSE Success
             \/ /\ reqs[1].type = "Select.req"
                /\ t \in {"Select.rsp", "Deselect.rsp", "Reject.req"}
                /\ s = Declined /\ UNCHANGED pst
    <3>1. CASE /\ reqs[1].type = "Linktest.req" /\ UNCHANGED <<pst, refused>>
               /\ \E r \in {"Linktest.rsp", "Reject.req"} : ToUs(Msg(r, reqs[1].id, Success))
      BY <3>1 DEF FrameType
    <3>2. CASE /\ reqs[1].type = "Select.req" /\ pst' = "Selected" /\ UNCHANGED refused
               /\ ToUs(Msg("Select.rsp", reqs[1].id,
                           IF pst = "Selected" THEN AlreadyActive ELSE Success))
      BY <3>2 DEF FrameType
    <3>3. CASE /\ reqs[1].type = "Select.req" /\ UNCHANGED pst /\ refused' = TRUE
               /\ \E r \in {"Select.rsp", "Deselect.rsp", "Reject.req"} :
                    ToUs(Msg(r, reqs[1].id, Declined))
      BY <3>3 DEF FrameType
    <3>. QED BY <1>3, <2>2, <3>1, <3>2, <3>3, Zenon DEF PeerTakesRequest
  <2>4. /\ Msg(t, reqs[1].id, s) \in Frame /\ Msg(t, reqs[1].id, s).type = t
        /\ Msg(t, reqs[1].id, s).id = reqs[1].id /\ Msg(t, reqs[1].id, s).status = s
    <3>1. reqs[1].id \in Nat BY <2>2 DEF Frame
    <3>. QED BY <3>1, MsgFacts
  <2>5. Joins(inq, inq', Msg(t, reqs[1].id, s))
    BY <2>3, <2>4, AppendJoins DEF ToUs, WireTypes
  <2>. QED BY <2>1, <2>2, <2>3, <2>4, <2>5 DEF PeerReplies, recvSame, procSame, Waiting
<1>. QED BY <1>1, <1>2, <1>3

\* The other goroutines of the generation, and the core.
LEMMA CoreExchange ==
  ASSUME WireTypes, LinktestInv, [Next]_vars, ~RecvStep,
         ~(SendAnswer \/ PeerSends \/ PeerTakesRequest)
  PROVE  Apart \/ Turns \/ Requests \/ GivesUp \/ Judges \/ Probes \/ Ends \/ Shuts
         \/ ReadFails
<1> DEFINE unch == UNCHANGED <<fsm, stage, frame, proc, selectedOnce, open, pst, pReq,
                               closing, inq, outq, reqs>>
<1>a. ASSUME unch PROVE Apart
  BY <1>a DEF Apart, recvSame, procSame, peerSame, Waiting
<1>1. CASE SendSelect
  <2>1. /\ proc = "send" /\ proc' = "wait" /\ open' = open \cup {SelectId}
        /\ reqs' = Append(reqs, Msg("Select.req", SelectId, Success))
        /\ UNCHANGED <<fsm, stage, frame, selectedOnce, pst, pReq, closing, inq, outq>>
    BY <1>1 DEF SendSelect, coreVars, recvVars, peerVars, sockVars, recVars
  <2>2. /\ Msg("Select.req", SelectId, Success) \in Frame
        /\ Msg("Select.req", SelectId, Success).type = "Select.req"
        /\ Msg("Select.req", SelectId, Success).id = SelectId
    BY MsgFacts, Ids DEF FrameType
  <2>3. Joins(reqs, reqs', Msg("Select.req", SelectId, Success))
    BY <2>1, <2>2, AppendJoins DEF WireTypes
  <2>. QED BY <2>1, <2>2, <2>3 DEF Requests, recvSame, peerSame, Waiting
<1>2. CASE SelectT6
  <2>1. /\ proc = "wait" /\ proc' = "report" /\ open' = open \ {SelectId}
        /\ UNCHANGED <<fsm, stage, frame, selectedOnce, pst, pReq, closing, inq, outq, reqs>>
    BY <1>2 DEF SelectT6, coreVars, recvVars, peerVars, wireVars, sockVars, recVars
  <2>. QED BY <2>1 DEF GivesUp, recvSame, peerSame, Waiting
<1>3. CASE JudgeAlreadyActive
  <2>1. /\ proc = "already" /\ (proc' = "done" \/ (proc' = "report" /\ ~selectedOnce))
        /\ UNCHANGED <<fsm, stage, frame, selectedOnce, open, pst, pReq, closing, inq, outq,
                       reqs>>
    BY <1>3, Zenon DEF JudgeAlreadyActive, Crossed, coreVars, recvVars, peerVars, wireVars,
       sockVars, recVars
  <2>. QED BY <2>1 DEF Judges, recvSame, peerSame, Waiting
<1>4. CASE SendProbe
  <2>1. /\ reqs' = Append(reqs, Msg("Linktest.req", ProbeId(probes + 1), Success))
        /\ open' = open \cup {ProbeId(probes + 1)}
        /\ UNCHANGED <<fsm, stage, frame, proc, selectedOnce, pst, pReq, closing, inq, outq>>
    BY <1>4 DEF SendProbe, coreVars, recvVars, procVars, sockVars, recVars
  <2>2. probes + 1 \in Nat \ {0} BY DEF LinktestInv, LtTypes
  <2>3. ProbeId(probes + 1) # SelectId /\ ProbeId(probes + 1) \in Nat BY <2>2, Ids
  <2>4. /\ Msg("Linktest.req", ProbeId(probes + 1), Success) \in Frame
        /\ Msg("Linktest.req", ProbeId(probes + 1), Success).type = "Linktest.req"
        /\ Msg("Linktest.req", ProbeId(probes + 1), Success).id # SelectId
    BY <2>3, MsgFacts DEF FrameType
  <2>5. Joins(reqs, reqs', Msg("Linktest.req", ProbeId(probes + 1), Success))
    BY <2>1, <2>4, AppendJoins DEF WireTypes
  <2>. QED BY <2>1, <2>3, <2>4, <2>5 DEF Probes, recvSame, procSame, peerSame, Waiting
<1>5. CASE ProbeT6
  <2>1. /\ lt = "wait" /\ open' = open \ {ProbeId(probes)}
        /\ UNCHANGED <<fsm, stage, frame, proc, selectedOnce, pst, pReq, closing, inq, outq,
                       reqs>>
    BY <1>5 DEF ProbeT6, coreVars, recvVars, procVars, peerVars, wireVars, sockVars, recVars
  <2>2. probes \in Nat \ {0} BY <2>1 DEF LinktestInv, LtTypes, OpenInv
  <2>3. ProbeId(probes) # SelectId BY <2>2, Ids
  <2>. QED BY <2>1, <2>3 DEF Apart, recvSame, procSame, peerSame, Waiting
<1>6. CASE EvaluateFailure \/ DisconnectRecheck \/ T7Expires \/ DataSent
  <2>1. unch
    BY <1>6, Zenon DEF EvaluateFailure, DisconnectRecheck, T7Expires, DataSent, coreVars,
       recvVars, procVars, peerVars, wireVars, sockVars, recVars
  <2>. QED BY <1>a, <2>1
<1>7. ASSUME NEW why, Ended(why), UNCHANGED <<sockVars, recvVars>> PROVE Ends
  <2>1. /\ fsm' = "NotConnected" /\ open' = {}
        /\ proc' = IF proc \in {"send", "wait"} THEN "done" ELSE proc
        /\ PeerLeft /\ UNCHANGED <<stage, frame, closing, inq>>
    BY <1>7 DEF Ended, PeerGone, PeerLeft, recvVars, sockVars, recVars
  <2>2. selectedOnce' = (selectedOnce /\ proc = "already") BY <1>7 DEF Ended
  <2>3. proc' = "already" => proc = "already" BY <2>1
  <2>4. selectedOnce /\ proc = "already" => selectedOnce' BY <2>2, Zenon
  <2>. QED BY <2>1, <2>3, <2>4 DEF Ends, Waiting
<1>8. CASE Supervise
  <2>1. CASE TakesDown(Head(events)) BY <1>7, <1>8, <2>1 DEF Supervise
  <2>2. CASE ~TakesDown(Head(events))
    <3>1. unch
      BY <1>8, <2>2 DEF Supervise, recvVars, procVars, peerVars, wireVars, sockVars, recVars
    <3>. QED BY <1>a, <3>1
  <2>. QED BY <2>1, <2>2
<1>9. CASE LocalClose BY <1>7, <1>9 DEF LocalClose
<1>10. ASSUME NEW c \in Closer, CloseStep(c) PROVE Apart \/ Shuts
  <2>1. UNCHANGED <<fsm, stage, frame, proc, selectedOnce, open>>
    BY <1>10 DEF CloseStep, coreVars, recvVars, procVars
  <2>2. CASE /\ CallsTcpDown(c) /\ Gate(c)
             /\ IF GateFree THEN PeerGone ELSE UNCHANGED <<peerVars, wireVars>>
    <3>1. CASE GateFree
      <4>1. closing' = c /\ PeerGone BY <2>2, <3>1 DEF Gate
      <4>2. c # NoOne BY Names
      <4>. QED BY <2>1, <4>1, <4>2
        DEF Shuts, PeerGone, PeerLeft, recvSame, procSame, Waiting
    <3>2. CASE ~GateFree
      <4>1. UNCHANGED <<closing, pst, pReq, inq, outq, reqs>>
        BY <2>2, <3>2 DEF Gate, peerVars, wireVars
      <4>. QED BY <1>a, <2>1, <4>1
    <3>. QED BY <3>1, <3>2
  <2>3. CASE (CloseConn(c) \/ Arm(c) \/ Deliver(c)) /\ UNCHANGED <<peerVars, wireVars>>
    <3>1. UNCHANGED <<closing, pst, pReq, inq, outq, reqs>>
      BY <2>3, Zenon DEF CloseConn, Arm, Deliver, recVars, peerVars, wireVars
    <3>. QED BY <1>a, <2>1, <3>1
  <2>. QED BY <1>10, <2>2, <2>3, Zenon DEF CloseStep
<1>11. ASSUME NEW c \in Closer, ReportDown(c) PROVE Apart
  <2>1. unch BY <1>11 DEF ReportDown, recVars, recvVars, procVars, peerVars, wireVars
  <2>. QED BY <1>a, <2>1
<1>12. CASE UNCHANGED vars
  <2>1. unch
    BY <1>12 DEF vars, sockVars, recVars, coreVars, recvVars, procVars, peerVars, wireVars
  <2>. QED BY <1>a, <2>1
<1> HIDE DEF unch
<1>. QED
  BY <1>1, <1>2, <1>3, <1>4, <1>5, <1>6, <1>8, <1>9, <1>10, <1>11, <1>12, Zenon
  DEF Next, ProcStep, LinktestStep

\* What any step does to the exchange with the peer.
LEMMA ExchangeSteps ==
  ASSUME WireTypes, StageInv, LinktestInv, [Next]_vars
  PROVE  \/ Apart \/ Turns \/ Reads \/ Drops \/ Routes \/ Selects \/ Finishes \/ Deselects
         \/ Loses \/ Requests \/ GivesUp \/ Judges \/ Probes \/ Ends \/ Shuts
         \/ PeerHears \/ PeerSpeaks \/ PeerReplies
<1>1. CASE ReadFails
  <2>1. /\ stage = "read" /\ pc["recv"] \in {"open", "bare"} /\ stage' = "failed"
        /\ UNCHANGED <<fsm, frame, proc, selectedOnce, open, pst, pReq, closing, inq, outq,
                       reqs>>
    BY <1>1 DEF ReadFails, MoveFails, coreVars, procVars, peerVars, wireVars, recVars
  <2>2. frame = NoFrame BY <2>1 DEF StageInv
  <2>. QED BY <2>1, <2>2, Ids DEF Turns, procSame, peerSame, Waiting
<1>. QED BY <1>1, RecvExchange, PeerExchange, CoreExchange, Zenon

\* The frames on the wire keep their shape.
LEMMA WireStep == ASSUME WireTypes, StageInv, LinktestInv, [Next]_vars PROVE WireTypes'
<1>e. <<>> \in Seq(Frame) /\ Len(<<>>) = 0 OBVIOUS
<1>n. NoFrame \in Frame /\ NoFrame.type = "none" BY Ids
<1>1. CASE Apart BY <1>1 DEF Apart, WireTypes, recvSame
<1>2. CASE Turns \/ Selects BY <1>2 DEF Turns, Selects, WireTypes
<1>3. CASE Reads
  <2>1. Leaves(inq, inq') /\ frame' = inq[1] /\ frame' \in Frame /\ UNCHANGED <<outq, reqs>>
    BY <1>3 DEF Reads
  <2>2. inq' \in Seq(Frame) BY <2>1 DEF Leaves
  <2>3. \A i \in 1 .. Len(inq') : inq'[i].type = "Select.rsp" => inq'[i].id = SelectId
    BY <2>1, LeavesCases DEF WireTypes
  <2>4. frame'.type = "Select.rsp" => frame'.id = SelectId
    BY <2>1, LeavesCases DEF WireTypes
  <2>5. frame' \in Frame /\ UNCHANGED <<outq, reqs>> BY <2>1
  <2>. QED BY <2>2, <2>3, <2>4, <2>5 DEF WireTypes
<1>s. ASSUME UNCHANGED <<inq, reqs>>, frame' = NoFrame, outq' \in Seq(Frame) PROVE WireTypes'
  BY <1>s, <1>n DEF WireTypes
<1>4. CASE Drops
  <2>1. UNCHANGED <<inq, reqs>> /\ frame' = NoFrame BY <1>4 DEF Drops
  <2>2. UNCHANGED outq \/ \E m \in Frame : Joins(outq, outq', m) BY <1>4 DEF Drops
  <2>3. outq' \in Seq(Frame) BY <2>2 DEF Joins, WireTypes
  <2>. QED BY <1>s, <2>1, <2>3
<1>5. CASE Routes BY <1>5, <1>n DEF Routes, WireTypes
<1>6. CASE Finishes
  <2>1. UNCHANGED <<inq, reqs>> /\ frame' = NoFrame BY <1>6 DEF Finishes
  <2>2. UNCHANGED outq \/ \E m \in Frame : Joins(outq, outq', m) BY <1>6 DEF Finishes
  <2>3. outq' \in Seq(Frame) BY <2>2 DEF Joins, WireTypes
  <2>. QED BY <1>s, <2>1, <2>3
<1>7. CASE Deselects
  <2>1. UNCHANGED <<inq, reqs>> /\ (UNCHANGED frame \/ frame' = NoFrame)
    BY <1>7 DEF Deselects
  <2>2. UNCHANGED outq \/ \E m \in Frame : Joins(outq, outq', m) BY <1>7 DEF Deselects
  <2>3. outq' \in Seq(Frame) BY <2>2 DEF Joins, WireTypes
  <2>. QED BY <1>n, <2>1, <2>3 DEF WireTypes
<1>8. CASE Loses BY <1>8, <1>n DEF Loses, WireTypes
<1>9. CASE Requests
  <2>1. PICK m \in Frame : Joins(reqs, reqs', m) /\ m.type = "Select.req" /\ m.id = SelectId
    BY <1>9 DEF Requests
  <2>2. reqs' \in Seq(Frame) /\ UNCHANGED <<inq, outq, frame>>
    BY <1>9, <2>1 DEF Requests, Joins, recvSame
  <2>3. \A i \in 1 .. Len(reqs') : reqs'[i].id = SelectId <=> reqs'[i].type = "Select.req"
    BY <2>1, JoinsCases DEF WireTypes
  <2>. QED BY <2>2, <2>3 DEF WireTypes
<1>10. CASE GivesUp \/ Judges BY <1>10 DEF GivesUp, Judges, WireTypes, recvSame
<1>11. CASE Probes
  <2>1. PICK m \in Frame : /\ Joins(reqs, reqs', m) /\ m.type = "Linktest.req"
                           /\ m.id # SelectId
    BY <1>11 DEF Probes
  <2>2. reqs' \in Seq(Frame) /\ UNCHANGED <<inq, outq, frame>>
    BY <1>11, <2>1 DEF Probes, Joins, recvSame
  <2>3. \A i \in 1 .. Len(reqs') : reqs'[i].id = SelectId <=> reqs'[i].type = "Select.req"
    BY <2>1, JoinsCases DEF WireTypes
  <2>. QED BY <2>2, <2>3 DEF WireTypes
<1>12. CASE Ends \/ Shuts
  <2>1. UNCHANGED <<inq, frame>> /\ outq' = <<>> /\ reqs' = <<>>
    BY <1>12 DEF Ends, Shuts, PeerLeft, recvSame
  <2>. QED BY <1>e, <2>1 DEF WireTypes
<1>13. CASE PeerHears
  <2>1. outq' \in Seq(Frame) /\ UNCHANGED <<inq, reqs, frame>>
    BY <1>13 DEF PeerHears, Leaves, recvSame
  <2>. QED BY <2>1 DEF WireTypes
<1>14. CASE PeerSpeaks
  <2>1. PICK m \in Frame :
          Joins(inq, inq', m) /\ m.id # SelectId /\ m.type # "Select.rsp"
    BY <1>14 DEF PeerSpeaks
  <2>2. inq' \in Seq(Frame) /\ UNCHANGED <<outq, reqs, frame>>
    BY <1>14, <2>1 DEF PeerSpeaks, Joins, recvSame
  <2>3. \A i \in 1 .. Len(inq') : inq'[i].type = "Select.rsp" => inq'[i].id = SelectId
    BY <2>1, JoinsCases DEF WireTypes
  <2>. QED BY <2>2, <2>3 DEF WireTypes
<1>15. CASE PeerReplies
  <2>1. PICK m \in Frame :
          /\ Joins(inq, inq', m) /\ m.id = reqs[1].id
          /\ reqs[1].type = "Select.req" \/ m.type \in {"Linktest.rsp", "Reject.req"}
    BY <1>15 DEF PeerReplies
  <2>2. UNCHANGED <<outq, frame>> /\ Leaves(reqs, reqs') BY <1>15 DEF PeerReplies, recvSame
  <2>3. m.type = "Select.rsp" => m.id = SelectId
    BY <2>1, <2>2, LeavesCases DEF WireTypes
  <2>4. inq' \in Seq(Frame) /\ reqs' \in Seq(Frame) BY <2>1, <2>2 DEF Joins, Leaves
  <2>5. \A i \in 1 .. Len(reqs') : reqs'[i].id = SelectId <=> reqs'[i].type = "Select.req"
    BY <2>2, LeavesCases DEF WireTypes
  <2>6. \A i \in 1 .. Len(inq') : inq'[i].type = "Select.rsp" => inq'[i].id = SelectId
    BY <2>1, <2>3, JoinsCases DEF WireTypes
  <2>. QED BY <2>2, <2>4, <2>5, <2>6 DEF WireTypes
<1>. QED
  BY <1>1, <1>2, <1>3, <1>4, <1>5, <1>6, <1>7, <1>8, <1>9, <1>10, <1>11, <1>12, <1>13,
     <1>14, <1>15, ExchangeSteps, Zenon

\* A peer that is selected before our Select.req reaches it was selected by us.
LEMMA SelectStep ==
  ASSUME WireTypes, StageInv, LinktestInv, SelectInv, [Next]_vars
  PROVE  SelectInv'
<1>e. Len(<<>>) = 0 OBVIOUS
<1>n. NoFrame.type = "none" BY Ids
<1>1. CASE Apart
  BY <1>1 DEF Apart, recvSame, procSame, peerSame, SelectInv, Live
<1>2. CASE Turns
  BY <1>2 DEF Turns, procSame, peerSame, SelectInv, Live
<1>3. CASE Reads BY <1>3, <1>n DEF Reads, Leaves, procSame, peerSame, SelectInv, Live
<1>4. CASE Drops
  BY <1>4, <1>n DEF Drops, Joins, procSame, peerSame, SelectInv, Live, Response
<1>5. CASE Routes
  BY <1>5, <1>n, Ids DEF Routes, Outcome, CommitsHere, peerSame, SelectInv, Live
<1>6. CASE Selects BY <1>6 DEF Selects, procSame, peerSame, SelectInv, Live
<1>7. CASE Finishes BY <1>7, <1>n DEF Finishes, Joins, peerSame, SelectInv, Live
<1>8. CASE Deselects BY <1>8, <1>n DEF Deselects, Joins, procSame, peerSame, SelectInv, Live
<1>9. CASE Loses BY <1>9, <1>n DEF Loses, procSame, peerSame, SelectInv, Live
<1>10. CASE Requests BY <1>10 DEF Requests, Joins, recvSame, peerSame, SelectInv, Live
<1>11. CASE GivesUp \/ Judges
  BY <1>11 DEF GivesUp, Judges, recvSame, peerSame, SelectInv, Live
<1>12. CASE Probes BY <1>12 DEF Probes, Joins, recvSame, procSame, peerSame, SelectInv, Live
<1>13. CASE Ends BY <1>13, <1>e DEF Ends, PeerLeft, SelectInv, Live
<1>14. CASE Shuts BY <1>14, <1>e DEF Shuts, PeerLeft, recvSame, procSame, SelectInv, Live
<1>15. CASE PeerHears
  BY <1>15 DEF PeerHears, PeerTakes, Leaves, recvSame, procSame, SelectInv, Live
<1>16. CASE PeerSpeaks
  BY <1>16 DEF PeerSpeaks, Joins, recvSame, procSame, SelectInv, Live
<1>17. CASE PeerReplies
  <2>1. PICK m \in Frame :
          /\ Joins(inq, inq', m) /\ m.id = reqs[1].id
          /\ \/ reqs[1].type # "Select.req" /\ m.type # "Select.rsp" /\ UNCHANGED pst
             \/ reqs[1].type = "Select.req" /\ (m.status = AlreadyActive => pst = "Selected")
    BY Zenon, <1>17, Ids DEF PeerReplies
  <2>2. recvSame /\ procSame /\ UNCHANGED outq /\ Leaves(reqs, reqs')
    BY <1>17 DEF PeerReplies
  <2>3. 1 \in 1 .. Len(reqs) /\ (reqs[1].id = SelectId <=> reqs[1].type = "Select.req")
    BY <2>2, LeavesCases DEF WireTypes
  <2>4. reqs[1].type = "Select.req" =>
          /\ proc # "send" /\ (pst = "Selected" => selectedOnce)
          /\ \A i \in 1 .. Len(reqs') : reqs'[i].id # SelectId
    BY <2>2, <2>3, LeavesCases DEF SelectInv
  <2>5. \A i \in 1 .. Len(reqs') : reqs'[i].id = SelectId =>
          /\ proc # "send" /\ (pst' = "Selected" => selectedOnce)
          /\ \A j \in 1 .. Len(reqs') : reqs'[j].id = SelectId => i = j
    BY <2>1, <2>2, <2>4, LeavesCases DEF SelectInv
  <2>6. Live => \A i \in 1 .. Len(inq') :
          inq'[i].type = "Select.rsp" /\ inq'[i].status = AlreadyActive => selectedOnce
    BY <2>1, <2>4, JoinsCases DEF SelectInv
  <2>7. proc = "send" /\ pst' = "Selected" => selectedOnce BY <2>1, <2>4 DEF SelectInv
  <2>. QED BY <2>2, <2>5, <2>6, <2>7 DEF SelectInv, recvSame, procSame, Live
<1>. QED
  BY <1>1, <1>2, <1>3, <1>4, <1>5, <1>6, <1>7, <1>8, <1>9, <1>10, <1>11, <1>12, <1>13,
     <1>14, <1>15, <1>16, <1>17, ExchangeSteps, Zenon

-----------------------------------------------------------------------------
(* The theorem. *)

WireInv == SessionInv /\ WireTypes /\ SelectInv

\* A socket that was just opened has an empty wire.
LEMMA WireInit == ASSUME Init PROVE WireInv
<1>1. SessionInv BY SessionInit
<1>2. /\ inq = <<>> /\ outq = <<>> /\ reqs = <<>> /\ frame = NoFrame /\ stage = "enter"
      /\ open = {} /\ proc \in {"send", "done"} /\ pst = "NotSelected" /\ fsm = "NotSelected"
  BY DEF Init
<1>3. Len(<<>>) = 0 /\ <<>> \in Seq(Frame) OBVIOUS
<1>4. NoFrame \in Frame /\ NoFrame.type = "none"
  BY Ids DEF NoFrame, Msg, Frame, FrameType, Success
<1>5. WireTypes BY <1>2, <1>3, <1>4 DEF WireTypes
<1>6. SelectInv BY <1>2, <1>3, <1>4 DEF SelectInv, Waiting
<1>. QED BY <1>1, <1>5, <1>6 DEF WireInv

\* Every step of the transport, the core and the peer keeps the invariant.
LEMMA WireInvStep == ASSUME WireInv, [Next]_vars PROVE WireInv'
<1>1. SessionInv' BY SessionStep DEF WireInv
<1>2. WireTypes' BY WireStep DEF WireInv, SessionInv
<1>3. SelectInv' BY SelectStep DEF WireInv, SessionInv
<1>. QED BY <1>1, <1>2, <1>3 DEF WireInv

\* The inductive invariant holds throughout the life of a socket.
THEOREM WireInvariance == Spec => []WireInv
<1>1. Init => WireInv BY WireInit
<1>2. WireInv /\ [Next]_vars => WireInv' BY WireInvStep
<1>. QED BY <1>1, <1>2, PTL DEF Spec

\* runSelectProcedure: the answer "already active" is the simultaneous select of a
\* generation that did select, so it never drops the link.
THEOREM CrossedSelectKept == Spec => OnlyDeclinedDrops
<1>1. ASSUME WireInv, [Next]_vars, proc = "already" PROVE proc' # "report"
  <2>1. selectedOnce /\ ~Waiting BY <1>1 DEF WireInv, SelectInv
  <2>2. CASE Apart \/ Turns \/ Reads \/ Drops \/ Selects \/ Finishes \/ Deselects
    BY Zenon, <1>1, <2>2 DEF Apart, Turns, Reads, Drops, Selects, Finishes, Deselects, procSame
  <2>3. CASE Loses \/ Probes \/ Shuts \/ PeerHears \/ PeerSpeaks \/ PeerReplies
    BY Zenon, <1>1, <2>3 DEF Loses, Probes, Shuts, PeerHears, PeerSpeaks, PeerReplies, procSame
  <2>4. CASE Routes BY Zenon, <1>1, <2>1, <2>4 DEF Routes
  <2>5. CASE Requests \/ GivesUp BY Zenon, <1>1, <2>5 DEF Requests, GivesUp
  <2>6. CASE Judges BY <2>1, <2>6 DEF Judges
  <2>7. CASE Ends BY <1>1, <2>7 DEF Ends
  <2>. QED BY <1>1, <2>2, <2>3, <2>4, <2>5, <2>6, <2>7, ExchangeSteps DEF WireInv, SessionInv
<1>2. WireInv /\ [Next]_vars => [proc = "already" /\ proc' = "report" => refused]_vars
  BY <1>1
<1>. QED BY <1>2, WireInvariance, PTL DEF Spec, OnlyDeclinedDrops
=============================================================================
