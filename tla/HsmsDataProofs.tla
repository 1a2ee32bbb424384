--------------------------- MODULE HsmsDataProofs ----------------------------
(***************************************************************************)
(* The theorem of HsmsSession about data: what a selected peer sends is    *)
(* not rejected.                                                           *)
(***************************************************************************)
EXTENDS HsmsSelectProofs

-----------------------------------------------------------------------------
(* The inductive invariant, continued: answers, requests and data. *)

\* Until the Select is given up: it is with the peer, or its answer is on the wire
\* or in hand, and its transaction is open.
Awaited == stage = "read" /\ frame.id = SelectId
AnswerInv ==
  Live /\ proc # "report" =>
    /\ \A i \in 1 .. Len(reqs) : reqs[i].id = SelectId =>
         Waiting /\ ~Awaited /\ \A j \in 1 .. Len(inq) : inq[j].id # SelectId
    /\ \A i \in 1 .. Len(inq) : inq[i].id = SelectId =>
         Waiting /\ ~Awaited /\ \A j \in 1 .. Len(inq) : inq[j].id = SelectId => i = j
    /\ Awaited => Waiting
    /\ proc = "send" => ~Awaited /\ \A i \in 1 .. Len(inq) : inq[i].id # SelectId

\* The request the peer awaits an answer of is on the wire, or in hand, or its
\* answer is on the wire.
Asks(m) == m.type \in {"Select.req", "Deselect.req"}
Answers(m) == m.type \in {"Select.rsp", "Deselect.rsp"}
Of(m) == IF m.type \in {"Select.req", "Select.rsp"} THEN "Select" ELSE "Deselect"
Asked == stage # "lost" /\ Asks(frame)
Unanswered == \A j \in 1 .. Len(outq) : ~Answers(outq[j])
RequestInv ==
  PeerUp =>
    /\ \A i \in 1 .. Len(inq) : Asks(inq[i]) =>
         /\ pReq = Of(inq[i]) /\ ~Asked /\ Unanswered
         /\ \A j \in 1 .. Len(inq) : Asks(inq[j]) => i = j
    /\ Asked => pReq = Of(frame) /\ Unanswered
    /\ \A i \in 1 .. Len(outq) : Answers(outq[i]) =>
         pReq = Of(outq[i]) /\ \A j \in 1 .. Len(outq) : Answers(outq[j]) => i = j

\* Every data frame on the wire will find us selected: we are, or a frame that is
\* read before it makes us so, and nothing between deselects us.
Commits(m) == m.type = "Select.req" \/ (m.type = "Select.rsp" /\ m.status = Success)
Now ==
  \/ stage = "commit" \/ frame.type = "Select.req"
  \/ stage = "read" /\ frame.type = "Select.rsp" /\ frame.status = Success
  \/ fsm = "Selected" /\ frame.type # "Deselect.req"
Kept(j, k) == \A i \in 1 .. Len(inq) : j < i /\ i < k => inq[i].type # "Deselect.req"
SelectedAt(k) ==
  (Now /\ Kept(0, k)) \/ \E j \in 1 .. Len(inq) : j < k /\ Commits(inq[j]) /\ Kept(j, k)
PeerSelected ==
  \/ pst = "Selected" /\ pReq # "Deselect"
  \/ \E i \in 1 .. Len(outq) : outq[i].type = "Select.rsp" /\ outq[i].status = Success
DataInv ==
  Live /\ proc # "report" =>
    /\ \A k \in 1 .. Len(inq) : inq[k].type = "Data" => SelectedAt(k)
    /\ frame.type = "Data" => fsm = "Selected"
    /\ GateFree /\ PeerSelected => SelectedAt(Len(inq) + 1)

-----------------------------------------------------------------------------
(* The steps. *)

\* The answer to our Select.req finds its transaction open.
LEMMA AnswerStep ==
  ASSUME WireTypes, StageInv, LinktestInv, SelectInv, AnswerInv, [Next]_vars
  PROVE  AnswerInv'
<1> SUFFICES ASSUME Live', proc' # "report" PROVE AnswerInv' BY DEF AnswerInv
<1>e. Len(<<>>) = 0 OBVIOUS
<1>n. NoFrame.id # SelectId BY Ids
<1>1. CASE Apart
  BY <1>1 DEF Apart, recvSame, procSame, peerSame, AnswerInv, Awaited, Live
<1>2. CASE Turns
  BY <1>2, <1>n DEF Turns, procSame, peerSame, AnswerInv, Awaited, Live
<1>3. CASE Reads
  <2>1. ~Awaited /\ frame' = inq[1] /\ UNCHANGED <<fsm, stage, reqs>> /\ procSame
    BY <1>3, <1>n DEF Reads, Awaited
  <2>2. Leaves(inq, inq') BY <1>3 DEF Reads
  <2>3. Awaited' => inq[1].id = SelectId BY <2>1 DEF Awaited
  <2>4. Awaited' => Waiting /\ (\A i \in 1 .. Len(inq') : inq'[i].id # SelectId)
                    /\ (\A i \in 1 .. Len(reqs) : reqs[i].id # SelectId) /\ proc # "send"
    BY <2>1, <2>2, <2>3, LeavesCases DEF AnswerInv, procSame, Live
  <2>5. \A i \in 1 .. Len(inq') : inq'[i].id = SelectId =>
          Waiting /\ \A j \in 1 .. Len(inq') : inq'[j].id = SelectId => i = j
    BY <2>1, <2>2, LeavesCases DEF AnswerInv, procSame, Live
  <2>6. \A i \in 1 .. Len(reqs) : reqs[i].id = SelectId =>
          Waiting /\ \A j \in 1 .. Len(inq') : inq'[j].id # SelectId
    <3>1. \A j \in 1 .. Len(inq') : \E k \in 1 .. Len(inq) : inq'[j] = inq[k]
      BY <2>2, LeavesCases
    <3>. QED BY <2>1, <3>1 DEF AnswerInv, procSame, Live
  <2>7. proc = "send" => \A i \in 1 .. Len(inq') : inq'[i].id # SelectId
    BY <2>1, <2>2, LeavesCases DEF AnswerInv, procSame, Live
  <2>. QED BY <2>1, <2>4, <2>5, <2>6, <2>7 DEF AnswerInv, procSame
<1>4. CASE Drops BY <1>4, <1>n DEF Drops, procSame, AnswerInv, Awaited, Live
<1>5. CASE Routes
  <2>1. ~Awaited' BY <1>5, <1>n DEF Routes, Awaited
  <2>2. UNCHANGED <<fsm, inq, reqs>> BY <1>5 DEF Routes
  <2>3. CASE frame.id = SelectId
    <3>1. /\ Awaited /\ Waiting /\ proc' \in {"done", "already", "report"}
      BY <1>5, <2>3 DEF Routes, Awaited, Outcome
    <3>2. proc = "wait" BY <3>1 DEF SelectInv
    <3>. QED BY <2>1, <2>2, <3>1, <3>2 DEF AnswerInv, Live
  <2>4. CASE frame.id # SelectId
    <3>1. (Waiting' <=> Waiting) /\ UNCHANGED proc BY <1>5, <2>4 DEF Routes
    <3>. QED BY <2>1, <2>2, <3>1 DEF AnswerInv, Live
  <2>. QED BY <2>3, <2>4
<1>6. CASE Selects
  <2>1. ~Awaited' /\ (Live' <=> Live) /\ UNCHANGED <<inq, reqs>> /\ procSame
    BY <1>6 DEF Selects, Awaited, Live
  <2>. QED BY <2>1 DEF AnswerInv, procSame
<1>7. CASE Finishes \/ Deselects \/ Loses
  <2>1. ~Awaited' /\ Live
    BY <1>7, <1>n DEF Finishes, Deselects, Loses, Awaited, Live
  <2>2. /\ UNCHANGED <<inq, reqs, proc>> /\ (Waiting' <=> Waiting)
    BY <1>7 DEF Finishes, Deselects, Loses, procSame
  <2>. QED BY <2>1, <2>2 DEF AnswerInv
<1>8. CASE Requests
  <2>1. /\ proc = "send" /\ proc' = "wait" /\ Waiting' /\ UNCHANGED <<fsm, stage, frame, inq>>
    BY <1>8 DEF Requests, recvSame
  <2>2. ~Awaited /\ \A i \in 1 .. Len(inq) : inq[i].id # SelectId
    BY <2>1 DEF AnswerInv, Live
  <2>. QED BY <2>1, <2>2 DEF AnswerInv, Awaited
<1>9. CASE GivesUp BY <1>9 DEF GivesUp
<1>10. CASE Judges BY <1>10 DEF Judges, recvSame, peerSame, AnswerInv, Awaited, Live
<1>11. CASE Probes
  <2>1. PICK m \in Frame : Joins(reqs, reqs', m) /\ m.id # SelectId BY <1>11 DEF Probes
  <2>2. UNCHANGED <<fsm, stage, frame, inq>> /\ procSame BY <1>11 DEF Probes, recvSame
  <2>. QED BY <2>1, <2>2, JoinsCases DEF AnswerInv, Awaited, procSame, Live
<1>12. CASE Ends BY <1>12 DEF Ends, Live
<1>13. CASE Shuts
  <2>1. reqs' = <<>> /\ UNCHANGED <<fsm, stage, frame, inq>> /\ procSame
    BY <1>13 DEF Shuts, PeerLeft, recvSame
  <2>. QED BY <1>e, <2>1 DEF AnswerInv, Awaited, procSame, Live
<1>14. CASE PeerHears
  BY <1>14 DEF PeerHears, recvSame, procSame, AnswerInv, Awaited, Live
<1>15. CASE PeerSpeaks
  <2>1. PICK m \in Frame : Joins(inq, inq', m) /\ m.id # SelectId BY <1>15 DEF PeerSpeaks
  <2>2. UNCHANGED <<fsm, stage, frame, reqs>> /\ procSame BY <1>15 DEF PeerSpeaks, recvSame
  <2>. QED BY <2>1, <2>2, JoinsCases DEF AnswerInv, Awaited, procSame, Live
<1>16. CASE PeerReplies
  <2>1. PICK m \in Frame : Joins(inq, inq', m) /\ m.id = reqs[1].id BY <1>16 DEF PeerReplies
  <2>2. UNCHANGED <<fsm, stage, frame>> /\ procSame /\ Leaves(reqs, reqs')
    BY <1>16 DEF PeerReplies, recvSame
  <2>3. CASE reqs[1].id # SelectId
    <3>1. \A i \in 1 .. Len(inq') : inq'[i].id = SelectId =>
            i \in 1 .. Len(inq) /\ inq[i].id = SelectId
      BY <2>1, <2>3, JoinsCases
    <3>2. \A i \in 1 .. Len(reqs') : reqs'[i].id = SelectId =>
            \E k \in 1 .. Len(reqs) : reqs[k].id = SelectId
      BY <2>2, LeavesCases
    <3>. QED BY <2>2, <3>1, <3>2 DEF AnswerInv, Awaited, procSame, Live
  <2>4. CASE reqs[1].id = SelectId
    <3>1. /\ Waiting /\ ~Awaited /\ (\A j \in 1 .. Len(inq) : inq[j].id # SelectId)
          /\ proc # "send" /\ \A i \in 1 .. Len(reqs') : reqs'[i].id # SelectId
      BY <2>2, <2>4, LeavesCases DEF AnswerInv, SelectInv, procSame, Live
    <3>2. \A i \in 1 .. Len(inq') : inq'[i].id = SelectId => i = Len(inq) + 1
      BY <2>1, <3>1, JoinsCases
    <3>. QED BY <2>2, <3>1, <3>2 DEF AnswerInv, Awaited, procSame
  <2>. QED BY <2>3, <2>4
<1>. QED
  BY <1>1, <1>2, <1>3, <1>4, <1>5, <1>6, <1>7, <1>8, <1>9, <1>10, <1>11, <1>12, <1>13,
     <1>14, <1>15, <1>16, ExchangeSteps, Zenon

\* The peer has one request open at a time, and its answer answers that one.
LEMMA RequestStep ==
  ASSUME WireTypes, StageInv, LinktestInv, RequestInv, [Next]_vars
  PROVE  RequestInv'
<1> SUFFICES ASSUME PeerUp' PROVE RequestInv' BY DEF RequestInv
<1>n. ~Asks(NoFrame) BY Ids DEF Asks
<1>1. CASE Apart
  BY <1>1
     DEF Apart, recvSame, peerSame, RequestInv, Asked, Unanswered, PeerUp, GateFree, Live
<1>2. CASE Turns
  <2>1. UNCHANGED <<inq, outq, pReq, frame>> /\ PeerUp /\ ~Asks(frame)
    BY <1>2 DEF Turns, peerSame, PeerUp, GateFree, Live, Asks
  <2>. QED BY <2>1 DEF RequestInv, Asked, Unanswered
<1>3. CASE Reads
  <2>1. /\ Leaves(inq, inq') /\ UNCHANGED <<outq, pReq, stage>> /\ frame' = inq[1] /\ PeerUp
        /\ stage = "read"
    BY <1>3 DEF Reads, peerSame, PeerUp, GateFree, Live
  <2>2. Asks(inq[1]) => /\ pReq = Of(inq[1]) /\ Unanswered
                        /\ \A i \in 1 .. Len(inq') : ~Asks(inq'[i])
    BY <2>1, LeavesCases DEF RequestInv
  <2>3. \A i \in 1 .. Len(inq') : Asks(inq'[i]) =>
          /\ pReq = Of(inq'[i]) /\ Unanswered
          /\ \A j \in 1 .. Len(inq') : Asks(inq'[j]) => i = j
    BY <2>1, LeavesCases DEF RequestInv
  <2>4. Unanswered => Unanswered' BY <2>1 DEF Unanswered
  <2>5. Asked' <=> Asks(inq[1]) BY <2>1 DEF Asked
  <2>. QED BY <2>1, <2>2, <2>3, <2>4, <2>5 DEF RequestInv
<1>4. CASE Drops
  <2>1. ~Asked' /\ UNCHANGED <<inq, pReq>> /\ PeerUp
    BY <1>4, <1>n DEF Drops, peerSame, PeerUp, GateFree, Live, Asked
  <2>2. /\ Unanswered => Unanswered'
        /\ \A i \in 1 .. Len(outq') : Answers(outq'[i]) =>
             i \in 1 .. Len(outq) /\ outq'[i] = outq[i]
    <3>1. CASE UNCHANGED outq BY <3>1 DEF Unanswered
    <3>2. ASSUME NEW m \in Frame, Joins(outq, outq', m),
                 m.type \in {"Reject.req", "Linktest.rsp"}
          PROVE  <2>2
      <4>1. ~Answers(m) BY <3>2 DEF Answers
      <4>. QED BY <3>2, <4>1, JoinsCases DEF Unanswered
    <3>. QED BY <1>4, <3>1, <3>2 DEF Drops
  <2>. QED BY <2>1, <2>2 DEF RequestInv
<1>5. CASE Routes
  <2>1. ~Asks(frame) BY <1>5 DEF Routes, Response, Asks
  <2>2. frame' = frame \/ frame' = NoFrame BY <1>5 DEF Routes
  <2>3. UNCHANGED <<inq, outq, pReq>> /\ PeerUp
    BY <1>5 DEF Routes, peerSame, PeerUp, GateFree, Live
  <2>. QED BY <1>n, <2>1, <2>2, <2>3 DEF RequestInv, Asked, Unanswered
<1>6. CASE Selects
  <2>1. UNCHANGED <<inq, outq, pReq, frame>> /\ PeerUp /\ stage # "lost" /\ stage' # "lost"
    BY <1>6 DEF Selects, peerSame, PeerUp, GateFree, Live
  <2>. QED BY <2>1 DEF RequestInv, Asked, Unanswered
<1>7. ASSUME UNCHANGED <<inq, pReq>>, PeerUp, Asked, ~Asked',
             NEW m \in Frame, Joins(outq, outq', m), Answers(m), Of(m) = Of(frame)
      PROVE  RequestInv'
  <2>1. \A i \in 1 .. Len(outq') : Answers(outq'[i]) => i = Len(outq) + 1 /\ outq'[i] = m
    BY <1>7, JoinsCases DEF RequestInv, Unanswered
  <2>2. pReq = Of(frame) /\ \A i \in 1 .. Len(inq) : ~Asks(inq[i]) BY <1>7 DEF RequestInv
  <2>. QED BY <1>7, <2>1, <2>2 DEF RequestInv
<1>8. CASE Finishes
  <2>1. ~Asked' /\ UNCHANGED <<inq, pReq>> /\ PeerUp /\ stage \in {"selected", "unchanged"}
    BY <1>8, <1>n DEF Finishes, peerSame, PeerUp, GateFree, Live, Asked
  <2>2. CASE frame.type = "Select.req"
    <3>1. PICK m \in Frame : Joins(outq, outq', m) /\ m.type = "Select.rsp"
      BY <1>8, <2>1, <2>2 DEF Finishes, PeerUp
    <3>2. Asked /\ Answers(m) /\ Of(m) = Of(frame)
      BY <2>1, <2>2, <3>1 DEF Asked, Asks, Answers, Of
    <3>. QED BY <1>7, <2>1, <3>1, <3>2
  <2>3. CASE frame.type # "Select.req"
    <3>1. UNCHANGED outq BY <1>8, <2>3 DEF Finishes
    <3>. QED BY <2>1, <3>1 DEF RequestInv, Unanswered
  <2>. QED BY <2>2, <2>3
<1>9. CASE Deselects
  <2>1. ~Asked' /\ UNCHANGED <<inq, pReq>> /\ PeerUp /\ stage = "read"
    BY <1>9, <1>n DEF Deselects, peerSame, PeerUp, GateFree, Live, Asked
  <2>2. PICK m \in Frame : Joins(outq, outq', m) /\ m.type = "Deselect.rsp"
    BY <1>9, <2>1 DEF Deselects, PeerUp
  <2>3. Asked /\ Answers(m) /\ Of(m) = Of(frame)
    BY <1>9, <2>1, <2>2 DEF Deselects, Asked, Asks, Answers, Of
  <2>. QED BY <1>7, <2>1, <2>2, <2>3
<1>10. CASE Loses
  <2>1. ~Asked' /\ ~Asked /\ UNCHANGED <<inq, outq, pReq>> /\ PeerUp
    BY <1>10, <1>n DEF Loses, peerSame, PeerUp, GateFree, Live, Asked
  <2>. QED BY <2>1 DEF RequestInv, Unanswered
<1>11. CASE Requests \/ GivesUp \/ Judges \/ Probes
  <2>1. UNCHANGED <<fsm, stage, frame, closing, pReq, inq, outq>>
    BY <1>11 DEF Requests, GivesUp, Judges, Probes, recvSame, peerSame
  <2>. QED BY <2>1 DEF RequestInv, Asked, Unanswered, PeerUp, GateFree, Live
<1>12. CASE Ends \/ Shuts BY <1>12 DEF Ends, Shuts, PeerUp, GateFree, Live
<1>13. CASE PeerHears
  <2>1. Leaves(outq, outq') /\ UNCHANGED <<fsm, stage, frame, inq>> /\ PeerUp
    BY <1>13 DEF PeerHears, recvSame
  <2>2. pReq' = IF Answers(outq[1]) THEN "none" ELSE pReq
    BY <1>13 DEF PeerHears, PeerTakes, Answers
  <2>3. CASE Answers(outq[1])
    <3>1. \A i \in 1 .. Len(outq') : ~Answers(outq'[i])
      BY <2>1, <2>3, LeavesCases DEF RequestInv
    <3>2. ~Asked /\ \A i \in 1 .. Len(inq) : ~Asks(inq[i])
      BY <2>1, <2>3, LeavesCases DEF RequestInv, Unanswered
    <3>. QED BY <2>1, <3>1, <3>2 DEF RequestInv, Asked
  <2>4. CASE ~Answers(outq[1])
    <3>1. pReq' = pReq BY <2>2, <2>4
    <3>2. Unanswered => Unanswered' BY <2>1, LeavesCases DEF Unanswered
    <3>3. \A i \in 1 .. Len(outq') : Answers(outq'[i]) =>
            pReq = Of(outq'[i]) /\ \A j \in 1 .. Len(outq') : Answers(outq'[j]) => i = j
      BY <2>1, LeavesCases DEF RequestInv
    <3>. QED BY <2>1, <3>1, <3>2, <3>3 DEF RequestInv, Asked
  <2>. QED BY <2>3, <2>4
<1>14. CASE PeerSpeaks
  <2>1. UNCHANGED <<fsm, stage, frame, outq>> /\ PeerUp BY <1>14 DEF PeerSpeaks, recvSame
  <2>2. PICK m \in Frame :
          /\ Joins(inq, inq', m)
          /\ (pReq = "none" /\ pReq' = Of(m)) \/ (~Asks(m) /\ UNCHANGED pReq)
    BY <1>14 DEF PeerSpeaks, Of, Asks
  <2>3. CASE pReq = "none" /\ pReq' = Of(m)
    <3>1. \A f : Of(f) # "none" BY DEF Of
    <3>2. /\ ~Asked /\ Unanswered /\ \A i \in 1 .. Len(inq) : ~Asks(inq[i])
      BY <2>1, <2>3, <3>1 DEF RequestInv, Unanswered
    <3>3. \A i \in 1 .. Len(inq') : Asks(inq'[i]) => i = Len(inq) + 1 /\ inq'[i] = m
      BY <2>2, <3>2, JoinsCases
    <3>. QED BY <2>1, <2>3, <3>2, <3>3 DEF RequestInv, Asked, Unanswered
  <2>4. CASE ~Asks(m) /\ UNCHANGED pReq
    <3>1. \A i \in 1 .. Len(inq') : Asks(inq'[i]) => i \in 1 .. Len(inq) /\ inq'[i] = inq[i]
      BY <2>2, <2>4, JoinsCases
    <3>. QED BY <2>1, <2>4, <3>1 DEF RequestInv, Asked, Unanswered
  <2>. QED BY <2>2, <2>3, <2>4
<1>15. CASE PeerReplies
  <2>1. UNCHANGED <<fsm, stage, frame, outq, pReq>> /\ PeerUp
    BY <1>15 DEF PeerReplies, recvSame
  <2>2. PICK m \in Frame : Joins(inq, inq', m) /\ ~Asks(m) BY <1>15 DEF PeerReplies, Asks
  <2>3. \A i \in 1 .. Len(inq') : Asks(inq'[i]) => i \in 1 .. Len(inq) /\ inq'[i] = inq[i]
    BY <2>2, JoinsCases
  <2>. QED BY <2>1, <2>3 DEF RequestInv, Asked, Unanswered
<1>. QED
  BY <1>1, <1>2, <1>3, <1>4, <1>5, <1>6, <1>8, <1>9, <1>10, <1>11, <1>12, <1>13,
     <1>14, <1>15, ExchangeSteps, Zenon

\* When a data frame on the wire finds us selected, it still does after a step that
\* leaves the wire alone, takes a frame off it, or puts one on it.
LEMMA SelectedSame ==
  ASSUME UNCHANGED inq, Now => Now', NEW k, SelectedAt(k)
  PROVE  SelectedAt(k)'
BY DEF SelectedAt, Kept

\* Reading a frame moves the ones after it up, and does to the state what they need.
LEMMA SelectedReads ==
  ASSUME Leaves(inq, inq'), NEW k \in Nat, k >= 1, k <= Len(inq), SelectedAt(k + 1),
         Now /\ inq[1].type # "Deselect.req" => Now', Commits(inq[1]) => Now'
  PROVE  SelectedAt(k)'
<1>1. Len(inq) \in Nat /\ Len(inq') = Len(inq) - 1 BY DEF Leaves
<1>2. \A i \in 1 .. Len(inq') : i + 1 \in 1 .. Len(inq) /\ inq'[i] = inq[i + 1]
  BY DEF Leaves
<1>3. ASSUME NEW j \in Nat, Kept(j + 1, k + 1) PROVE Kept(j, k)'
  <2> SUFFICES ASSUME NEW i \in 1 .. Len(inq'), j < i, i < k
               PROVE  inq'[i].type # "Deselect.req"
    BY DEF Kept
  <2>1. i + 1 \in 1 .. Len(inq) /\ inq'[i] = inq[i + 1] BY <1>2
  <2>2. j + 1 < i + 1 /\ i + 1 < k + 1 BY <1>1
  <2>. QED BY <1>3, <2>1, <2>2 DEF Kept
<1>4. CASE Now /\ Kept(0, k + 1)
  <2>1. inq[1].type # "Deselect.req" BY <1>1, <1>4 DEF Kept
  <2>2. Kept(0 + 1, k + 1) BY <1>4 DEF Kept
  <2>3. Kept(0, k)' BY <1>3, <2>2
  <2>. QED BY <1>4, <2>1, <2>3 DEF SelectedAt
<1>5. ASSUME NEW j \in 1 .. Len(inq), j < k + 1, Commits(inq[j]), Kept(j, k + 1)
      PROVE  SelectedAt(k)'
  <2>1. CASE j = 1
    <3>1. Kept(0 + 1, k + 1) BY <1>5, <2>1
    <3>2. Kept(0, k)' BY <1>3, <3>1
    <3>. QED BY <1>5, <2>1, <3>2 DEF SelectedAt
  <2>2. CASE j # 1
    <3>1. j - 1 \in 1 .. Len(inq') /\ (j - 1) + 1 = j /\ j - 1 < k /\ j - 1 \in Nat
      BY <1>1, <1>5, <2>2
    <3>3. inq'[j - 1] = inq[j] BY <1>2, <3>1
    <3>4. Kept(j - 1, k)' BY <1>3, <1>5, <3>1
    <3>5. Commits(inq'[j - 1]) BY <1>5, <3>3
    <3>. QED BY <3>1, <3>4, <3>5 DEF SelectedAt, Commits
  <2>. QED BY <2>1, <2>2
<1>. QED BY <1>4, <1>5 DEF SelectedAt

\* A frame the peer adds leaves the ones before it alone; a Select of its own, or a
\* Select.rsp that accepts ours, makes the data after it acceptable.
LEMMA SelectedJoins ==
  ASSUME NEW m, Joins(inq, inq', m), Now => Now'
  PROVE  /\ \A k \in 1 .. Len(inq) + 1 : SelectedAt(k) => SelectedAt(k)'
         /\ SelectedAt(Len(inq) + 1) /\ m.type # "Deselect.req" =>
              SelectedAt(Len(inq) + 1)'
         /\ Commits(m) => SelectedAt(Len(inq) + 1)'
<1>1. /\ Len(inq) \in Nat /\ Len(inq') = Len(inq) + 1 /\ inq'[Len(inq) + 1] = m
      /\ \A i \in 1 .. Len(inq) : inq'[i] = inq[i]
  BY DEF Joins
<1>2. ASSUME NEW k \in 1 .. Len(inq) + 1, NEW j \in Nat, Kept(j, k) PROVE Kept(j, k)'
  <2> SUFFICES ASSUME NEW i \in 1 .. Len(inq'), j < i, i < k
               PROVE  inq'[i].type # "Deselect.req"
    BY DEF Kept
  <2>1. i \in 1 .. Len(inq) BY <1>1
  <2>. QED BY <1>1, <1>2, <2>1 DEF Kept
<1>3. ASSUME NEW k \in 1 .. Len(inq) + 1, SelectedAt(k) PROVE SelectedAt(k)'
  <2>1. CASE Now /\ Kept(0, k) BY <1>2, <2>1 DEF SelectedAt
  <2>2. ASSUME NEW j \in 1 .. Len(inq), j < k, Commits(inq[j]), Kept(j, k)
        PROVE  SelectedAt(k)'
    <3>1. Kept(j, k)' BY <1>2, <2>2
    <3>2. j \in 1 .. Len(inq') /\ inq'[j] = inq[j] BY <1>1
    <3>3. Commits(inq'[j]) BY <2>2, <3>2
    <3>. QED BY <2>2, <3>1, <3>2, <3>3 DEF SelectedAt, Commits
  <2>. QED BY <1>3, <2>1, <2>2 DEF SelectedAt
<1>4. ASSUME SelectedAt(Len(inq) + 1), m.type # "Deselect.req"
      PROVE  SelectedAt(Len(inq) + 1)'
  <2>1. ASSUME NEW j \in Nat, Kept(j, Len(inq) + 1) PROVE Kept(j, Len(inq) + 1)'
    <3> SUFFICES ASSUME NEW i \in 1 .. Len(inq'), j < i, i < Len(inq') + 1
                 PROVE  inq'[i].type # "Deselect.req"
      BY DEF Kept
    <3>1. CASE i = Len(inq) + 1 BY <1>1, <1>4, <3>1
    <3>2. CASE i # Len(inq) + 1
      <4>1. i \in 1 .. Len(inq) /\ i < Len(inq) + 1 BY <1>1, <3>2
      <4>. QED BY <1>1, <2>1, <4>1 DEF Kept
    <3>. QED BY <3>1, <3>2
  <2>2. CASE Now /\ Kept(0, Len(inq) + 1) BY <2>1, <2>2 DEF SelectedAt
  <2>3. ASSUME NEW j \in 1 .. Len(inq), Commits(inq[j]), Kept(j, Len(inq) + 1)
        PROVE  SelectedAt(Len(inq) + 1)'
    <3>1. Kept(j, Len(inq) + 1)' BY <2>1, <2>3
    <3>2. j \in 1 .. Len(inq') /\ inq'[j] = inq[j] /\ j < Len(inq') + 1 BY <1>1
    <3>3. Commits(inq'[j]) BY <2>3, <3>2
    <3>. QED BY <3>1, <3>2, <3>3 DEF SelectedAt, Commits
  <2>. QED BY <1>4, <2>2, <2>3 DEF SelectedAt
<1>5. ASSUME Commits(m) PROVE SelectedAt(Len(inq) + 1)'
  <2>1. Len(inq') \in 1 .. Len(inq') /\ inq'[Len(inq')] = m /\ Len(inq') < Len(inq') + 1
    BY <1>1
  <2>2. Kept(Len(inq), Len(inq) + 1)' BY <1>1 DEF Kept
  <2>3. Commits(inq'[Len(inq')]) BY <1>5, <2>1
  <2>. QED BY <2>1, <2>2, <2>3 DEF SelectedAt, Commits
<1>. QED BY <1>3, <1>4, <1>5

\* Data of a peer that we selected is not rejected.
LEMMA DataStep ==
  ASSUME WireTypes, StageInv, LinktestInv, SelectInv, AnswerInv, RequestInv, DataInv,
         [Next]_vars
  PROVE  DataInv'
<1> SUFFICES ASSUME Live', proc' # "report" PROVE DataInv' BY DEF DataInv
<1>n. NoFrame.type = "none" BY Ids
<1>s. ASSUME UNCHANGED inq, Live, proc # "report", Now => Now',
             GateFree' /\ PeerSelected' => GateFree /\ PeerSelected,
             frame'.type = "Data" => frame' = frame /\ (fsm = "Selected" => fsm' = "Selected")
      PROVE  DataInv'
  <2>1. \A k : SelectedAt(k) => SelectedAt(k)' BY <1>s, SelectedSame
  <2>2. \A k \in 1 .. Len(inq) : inq[k].type = "Data" => SelectedAt(k)'
    BY <1>s, <2>1 DEF DataInv
  <2>3. GateFree' /\ PeerSelected' => SelectedAt(Len(inq) + 1) BY <1>s DEF DataInv
  <2>4. SelectedAt(Len(inq) + 1) => SelectedAt(Len(inq) + 1)'
    BY <1>s, <2>1 DEF SelectedAt, Kept
  <2>. QED BY <1>s, <2>2, <2>3, <2>4 DEF DataInv
<1>p. ASSUME UNCHANGED <<pst, pReq, outq, closing>>
      PROVE  GateFree' /\ PeerSelected' => GateFree /\ PeerSelected
  BY <1>p DEF GateFree, PeerSelected
<1>1. CASE Apart
  <2>1. UNCHANGED <<fsm, stage, frame, proc, inq, outq, pst, pReq, closing>>
    BY <1>1 DEF Apart, recvSame, procSame, peerSame
  <2>2. Live /\ proc # "report" /\ (Now => Now') BY <2>1 DEF Live, Now
  <2>. QED BY <1>s, <1>p, <2>1, <2>2
<1>2. CASE Turns
  <2>1. /\ UNCHANGED <<fsm, frame, proc, inq, outq, pst, pReq, closing>>
        /\ frame.type \in {"none", "Separate.req"}
    BY <1>2 DEF Turns, procSame, peerSame
  <2>2. Live /\ proc # "report" BY <2>1 DEF Live
  <2>3. Now => Now' BY <2>1 DEF Now, StageInv
  <2>. QED BY <1>s, <1>p, <2>1, <2>2, <2>3
<1>3. CASE Reads
  <2>1. /\ stage = "read" /\ stage' = "read" /\ frame = NoFrame /\ frame' = inq[1]
        /\ UNCHANGED <<fsm, proc, outq, pst, pReq, closing>>
    BY <1>3 DEF Reads, procSame, peerSame
  <2>2. Leaves(inq, inq') /\ 1 \in 1 .. Len(inq) BY <1>3, LeavesCases DEF Reads
  <2>3. Live /\ proc # "report" BY <2>1 DEF Live
  <2>4. Now <=> fsm = "Selected" BY <1>n, <2>1 DEF Now
  <2>5. /\ Now /\ inq[1].type # "Deselect.req" => Now'
        /\ Commits(inq[1]) => Now'
    BY <2>1, <2>4 DEF Now, Commits
  <2>6. ASSUME NEW k \in Nat, k >= 1, k <= Len(inq), SelectedAt(k + 1) PROVE SelectedAt(k)'
    BY <2>2, <2>5, <2>6, SelectedReads
  <2>7. \A k \in 1 .. Len(inq') : inq'[k].type = "Data" => SelectedAt(k)'
    <3> SUFFICES ASSUME NEW k \in 1 .. Len(inq'), inq'[k].type = "Data" PROVE SelectedAt(k)'
      OBVIOUS
    <3>1. k + 1 \in 1 .. Len(inq) /\ inq'[k] = inq[k + 1] BY <2>2, LeavesCases
    <3>2. SelectedAt(k + 1) BY <2>3, <3>1 DEF DataInv
    <3>3. k \in Nat /\ k >= 1 /\ k <= Len(inq) BY <2>2, <3>1 DEF Leaves
    <3>. QED BY <2>6, <3>2, <3>3
  <2>8. frame'.type = "Data" => fsm' = "Selected"
    <3> SUFFICES ASSUME inq[1].type = "Data" PROVE fsm = "Selected" BY <2>1
    <3>1. SelectedAt(1) BY <2>2, <2>3 DEF DataInv
    <3>2. ~(\E j \in 1 .. Len(inq) : j < 1) BY <2>2
    <3>3. Now BY <3>1, <3>2 DEF SelectedAt
    <3>. QED BY <2>4, <3>3
  <2>9. GateFree' /\ PeerSelected' => SelectedAt(Len(inq) + 1)'
    <3> SUFFICES ASSUME GateFree', PeerSelected' PROVE SelectedAt(Len(inq) + 1)' OBVIOUS
    <3>1. SelectedAt(Len(inq) + 1) BY <1>p, <2>1, <2>3 DEF DataInv
    <3>2. Len(inq) \in Nat /\ Len(inq) >= 1 /\ Len(inq') + 1 = Len(inq) BY <2>2 DEF Leaves
    <3>3. \A k \in Nat : k = Len(inq) => SelectedAt(k)' BY <2>6, <3>1, <3>2
    <3>4. \A k \in Nat : k = Len(inq') + 1 => SelectedAt(k)' BY <3>2, <3>3
    <3>5. Len(inq') + 1 \in Nat BY <3>2
    <3>. QED BY <3>4, <3>5 DEF SelectedAt, Kept
  <2>. QED BY <2>7, <2>8, <2>9 DEF DataInv
<1>4. CASE Drops
  <2>1. /\ stage = "read" /\ stage' = "read" /\ frame' = NoFrame
        /\ UNCHANGED <<fsm, proc, inq, pst, pReq, closing>>
        /\ frame.type \in {"junk", "Data", "Linktest.req"} \cup Response
        /\ frame.type \in Response /\ Live => frame.id \notin open
    BY <1>4 DEF Drops, procSame, peerSame
  <2>2. Live /\ proc # "report" BY <2>1 DEF Live
  <2>3. frame.type # "Select.rsp"
    BY <2>1, <2>2 DEF WireTypes, AnswerInv, Awaited, Waiting, Response
  <2>4. Now => Now' BY <1>n, <2>1, <2>3 DEF Now, Response
  <2>5. PeerSelected' => PeerSelected
    <3>1. CASE UNCHANGED outq BY <2>1, <3>1 DEF PeerSelected
    <3>2. ASSUME NEW m \in Frame, Joins(outq, outq', m), m.type # "Select.rsp"
          PROVE  PeerSelected' => PeerSelected
      BY <2>1, <3>2, JoinsCases DEF PeerSelected
    <3>. QED BY <1>4, <3>1, <3>2 DEF Drops
  <2>6. GateFree' => GateFree BY <2>1 DEF GateFree
  <2>. QED BY <1>n, <1>s, <2>1, <2>2, <2>4, <2>5, <2>6
<1>5. CASE Routes
  <2>1. /\ stage = "read" /\ Live /\ frame.type \in Response
        /\ UNCHANGED <<fsm, inq, outq, pst, pReq, closing>>
    BY <1>5 DEF Routes, peerSame
  <2>2. proc # "report"
    <3>1. CASE frame.id = SelectId
      BY <1>5, <3>1 DEF Routes, SelectInv
    <3>2. CASE frame.id # SelectId BY <1>5, <3>2 DEF Routes
    <3>. QED BY <3>1, <3>2
  <2>3. CASE CommitsHere(frame)
    <3>1. stage' = "commit" /\ UNCHANGED frame BY <1>5, <2>3 DEF Routes
    <3>2. Now' BY <3>1 DEF Now
    <3>. QED BY <1>s, <1>p, <2>1, <2>2, <3>1, <3>2
  <2>4. CASE ~CommitsHere(frame)
    <3>1. stage' = "read" /\ frame' = NoFrame BY <1>5, <2>4 DEF Routes
    <3>2. Now => Now' BY <1>n, <2>1, <2>4, <3>1 DEF Now, CommitsHere, Response
    <3>. QED BY <1>n, <1>s, <1>p, <2>1, <2>2, <3>1, <3>2
  <2>. QED BY <2>3, <2>4
<1>6. CASE Selects
  <2>1. /\ stage = "commit" \/ frame.type = "Select.req"
        /\ fsm' = IF fsm = "NotSelected" THEN "Selected" ELSE fsm
        /\ UNCHANGED <<frame, proc, inq, outq, pst, pReq, closing>>
    BY <1>6 DEF Selects, procSame, peerSame
  <2>2. Live /\ proc # "report" BY <2>1 DEF Live
  <2>3. fsm' = "Selected" /\ frame.type # "Deselect.req" /\ frame.type # "Data"
    BY <2>1, <2>2 DEF StageInv, Live
  <2>4. Now' BY <2>1, <2>3 DEF Now
  <2>. QED BY <1>s, <1>p, <2>1, <2>2, <2>3, <2>4
<1>7. CASE Finishes
  <2>1. /\ stage \in {"selected", "unchanged"} /\ stage' = "read" /\ frame' = NoFrame
        /\ UNCHANGED <<fsm, proc, inq, reqs, pst, pReq, closing>>
    BY <1>7 DEF Finishes, peerSame
  <2>2. Live /\ proc # "report" BY <2>1 DEF Live
  <2>3. fsm = "Selected" /\ Now' BY <1>n, <2>1, <2>2 DEF StageInv, Live, Now
  <2>4. CASE UNCHANGED outq
    BY <1>n, <1>s, <1>p, <2>1, <2>2, <2>3, <2>4
  <2>5. CASE outq' # outq
    <3>1. frame.type = "Select.req" BY <1>7, <2>5 DEF Finishes
    <3>2. GateFree' => GateFree /\ PeerUp BY <2>1, <2>2 DEF GateFree, PeerUp
    <3>3. Asked BY <2>1, <3>1 DEF Asked, Asks
    <3>4. GateFree' => \A i \in 1 .. Len(inq) : inq[i].type # "Deselect.req"
      BY <3>2, <3>3 DEF RequestInv, Asks
    <3>5. \A k : SelectedAt(k) => SelectedAt(k)' BY <2>1, <2>3, SelectedSame
    <3>6. \A k \in 1 .. Len(inq) : inq[k].type = "Data" => SelectedAt(k)'
      BY <2>2, <3>5 DEF DataInv
    <3>7. GateFree' => SelectedAt(Len(inq) + 1)' BY <2>1, <2>3, <3>4 DEF SelectedAt, Kept
    <3>. QED BY <1>n, <2>1, <3>6, <3>7 DEF DataInv
  <2>. QED BY <2>4, <2>5
<1>8. CASE Deselects
  <2>1. /\ stage = "read" /\ frame.type = "Deselect.req"
        /\ (frame' = frame \/ frame' = NoFrame)
        /\ UNCHANGED <<fsm, proc, inq, pst, pReq, closing>>
    BY <1>8 DEF Deselects, procSame, peerSame
  <2>2. Live /\ proc # "report" BY <2>1 DEF Live
  <2>3. PICK m \in Frame : Joins(outq, outq', m) /\ m.type = "Deselect.rsp"
    BY <1>8, <2>2 DEF Deselects
  <2>4. PeerSelected' => PeerSelected BY <2>1, <2>3, JoinsCases DEF PeerSelected
  <2>5. ~Now BY <2>1 DEF Now
  <2>6. GateFree' => GateFree BY <2>1 DEF GateFree
  <2>. QED BY <1>n, <1>s, <2>1, <2>2, <2>4, <2>5, <2>6
<1>9. CASE Loses
  <2>1. /\ stage = "lost" /\ frame' = NoFrame
        /\ UNCHANGED <<proc, inq, outq, pst, pReq, closing>>
    BY <1>9 DEF Loses, procSame, peerSame
  <2>2. Live /\ proc # "report" BY <1>9, <2>1 DEF Loses, Live
  <2>3. ~Now BY <2>1 DEF StageInv, Now
  <2>. QED BY <1>n, <1>s, <1>p, <2>1, <2>2, <2>3
<1>10. CASE Requests \/ Judges \/ Probes \/ GivesUp
  <2>1. /\ UNCHANGED <<fsm, stage, frame, inq, outq, pst, pReq, closing>>
        /\ proc \in {"send", "already"} \/ proc' = proc
    BY <1>10 DEF Requests, Judges, Probes, GivesUp, recvSame, procSame, peerSame
  <2>2. Live /\ proc # "report" /\ (Now => Now') BY <2>1 DEF Live, Now
  <2>. QED BY <1>s, <1>p, <2>1, <2>2
<1>11. CASE Ends BY <1>11 DEF Ends, Live
<1>12. CASE Shuts
  <2>1. UNCHANGED <<fsm, stage, frame, proc, inq>> /\ ~GateFree'
    BY <1>12 DEF Shuts, recvSame, procSame, GateFree
  <2>2. Live /\ proc # "report" /\ (Now => Now') BY <2>1 DEF Live, Now
  <2>. QED BY <1>s, <2>1, <2>2
<1>13. CASE PeerHears
  <2>1. /\ UNCHANGED <<fsm, stage, frame, proc, inq, closing>> /\ PeerUp
        /\ Leaves(outq, outq')
    BY Zenon, <1>13 DEF PeerHears, recvSame, procSame
  <2>2. Live /\ proc # "report" /\ (Now => Now') BY <2>1 DEF Live, Now
  <2>3. 1 \in 1 .. Len(outq) /\ (Answers(outq[1]) => pReq = Of(outq[1]))
    BY <2>1, LeavesCases DEF RequestInv
  <2>4. /\ pst' = CASE outq[1].type = "Select.rsp" /\ outq[1].status = Success -> "Selected"
                    [] outq[1].type = "Deselect.rsp" -> "NotSelected"
                    [] OTHER -> pst
        /\ pReq' = IF Answers(outq[1]) THEN "none" ELSE pReq
    BY <1>13 DEF PeerHears, PeerTakes, Answers
  <2>5. pst' = "Selected" /\ pReq' # "Deselect" => PeerSelected
    <3>1. CASE outq[1].type = "Select.rsp" /\ outq[1].status = Success
      BY <2>3, <3>1 DEF PeerSelected
    <3>2. CASE outq[1].type = "Deselect.rsp" BY <2>4, <3>2
    <3>3. CASE /\ ~(outq[1].type = "Select.rsp" /\ outq[1].status = Success)
               /\ outq[1].type # "Deselect.rsp"
      <4>1. pst' = pst BY <2>4, <3>3
      <4>2. Answers(outq[1]) => pReq = "Select" BY <2>3, <3>3 DEF Answers, Of
      <4>3. pReq' # "Deselect" => pReq # "Deselect" BY <2>4, <4>2
      <4>. QED BY <4>1, <4>3 DEF PeerSelected
    <3>. QED BY <3>1, <3>2, <3>3
  <2>6. PeerSelected' => PeerSelected BY <2>1, <2>5, LeavesCases DEF PeerSelected
  <2>7. GateFree' => GateFree BY <2>1 DEF GateFree
  <2>. QED BY <1>s, <2>1, <2>2, <2>6, <2>7
<1>14. ASSUME UNCHANGED <<fsm, stage, frame, proc, outq>>, GateFree,
              NEW m, Joins(inq, inq', m),
              m.type = "Data" => PeerSelected,
              PeerSelected' => Commits(m) \/ (PeerSelected /\ m.type # "Deselect.req")
       PROVE  DataInv'
  <2>1. Live /\ proc # "report" /\ (Now => Now') BY <1>14 DEF Live, Now
  <2>2. /\ \A k \in 1 .. Len(inq) + 1 : SelectedAt(k) => SelectedAt(k)'
        /\ SelectedAt(Len(inq) + 1) /\ m.type # "Deselect.req" => SelectedAt(Len(inq) + 1)'
        /\ Commits(m) => SelectedAt(Len(inq) + 1)'
    BY <1>14, <2>1, SelectedJoins
  <2>3. /\ Len(inq) \in Nat /\ Len(inq) + 1 \in 1 .. Len(inq) + 1
        /\ \A k \in 1 .. Len(inq) : k \in 1 .. Len(inq) + 1
    BY <1>14 DEF Joins
  <2>4. \A k \in 1 .. Len(inq') : inq'[k].type = "Data" => SelectedAt(k)'
    <3> SUFFICES ASSUME NEW k \in 1 .. Len(inq'), inq'[k].type = "Data" PROVE SelectedAt(k)'
      OBVIOUS
    <3>1. CASE k \in 1 .. Len(inq) /\ inq'[k] = inq[k]
      BY <2>1, <2>2, <2>3, <3>1 DEF DataInv
    <3>2. CASE k = Len(inq) + 1 /\ inq'[k] = m
      <4>1. SelectedAt(k) BY <1>14, <2>1, <3>2 DEF DataInv
      <4>. QED BY <2>2, <2>3, <3>2, <4>1
    <3>. QED BY <1>14, <3>1, <3>2, JoinsCases
  <2>5. frame.type = "Data" => fsm = "Selected" BY <2>1 DEF DataInv
  <2>6. PeerSelected' => SelectedAt(Len(inq) + 1)' BY <1>14, <2>1, <2>2 DEF DataInv
  <2>. QED BY <1>14, <2>4, <2>5, <2>6 DEF DataInv
<1>15. CASE PeerSpeaks
  <2>1. UNCHANGED <<fsm, stage, frame, proc, outq, pst>> /\ PeerUp
    BY <1>15 DEF PeerSpeaks, recvSame, procSame
  <2>2. PICK m \in Frame :
          /\ Joins(inq, inq', m)
          /\ \/ pReq = "none" /\ pReq' = "Select" /\ m.type = "Select.req"
             \/ pReq = "none" /\ pReq' = "Deselect" /\ m.type = "Deselect.req"
             \/ /\ pst = "Selected" /\ pReq # "Deselect" /\ m.type = "Data"
                /\ UNCHANGED pReq
             \/ m.type \in {"Linktest.req", "junk", "Separate.req"} /\ UNCHANGED pReq
    BY <1>15 DEF PeerSpeaks
  <2>3. m.type = "Data" => PeerSelected BY <2>2 DEF PeerSelected
  <2>4. m.type = "Deselect.req" => ~PeerSelected'
    <3> SUFFICES ASSUME m.type = "Deselect.req" PROVE ~PeerSelected' OBVIOUS
    <3>1. pReq = "none" /\ pReq' = "Deselect" BY <2>2
    <3>2. \A i \in 1 .. Len(outq) : outq[i].type # "Select.rsp"
      BY <2>1, <3>1 DEF RequestInv, Answers, Of
    <3>. QED BY <2>1, <3>1, <3>2 DEF PeerSelected
  <2>5. PeerSelected' => Commits(m) \/ PeerSelected
    BY <2>1, <2>2 DEF PeerSelected, Commits
  <2>. QED BY <1>14, <2>1, <2>2, <2>3, <2>4, <2>5 DEF PeerUp
<1>16. CASE PeerReplies
  <2>1. UNCHANGED <<fsm, stage, frame, proc, outq, pReq>> /\ PeerUp
    BY <1>16 DEF PeerReplies, recvSame, procSame
  <2>2. PICK m \in Frame :
          /\ Joins(inq, inq', m) /\ m.type # "Deselect.req" /\ m.type # "Data"
          /\ pst' = pst \/ pst = "Selected" \/ (m.type = "Select.rsp" /\ m.status = Success)
    BY Zenon, <1>16 DEF PeerReplies
  <2>3. PeerSelected' => Commits(m) \/ PeerSelected BY <2>1, <2>2 DEF PeerSelected, Commits
  <2>. QED BY <1>14, <2>1, <2>2, <2>3 DEF PeerUp
<1>. QED
  BY <1>1, <1>2, <1>3, <1>4, <1>5, <1>6, <1>7, <1>8, <1>9, <1>10, <1>11, <1>12, <1>13,
     <1>15, <1>16, ExchangeSteps, Zenon

-----------------------------------------------------------------------------
(* The theorem. *)

DataExchangeInv == WireInv /\ AnswerInv /\ RequestInv /\ DataInv

\* A socket that was just opened satisfies the invariant.
LEMMA DataInit == ASSUME Init PROVE DataExchangeInv
<1>1. WireInv BY WireInit
<1>2. /\ inq = <<>> /\ outq = <<>> /\ reqs = <<>> /\ frame = NoFrame /\ stage = "enter"
      /\ open = {} /\ proc \in {"send", "done"} /\ pst = "NotSelected" /\ fsm = "NotSelected"
  BY DEF Init
<1>3. Len(<<>>) = 0 /\ <<>> \in Seq(Frame) OBVIOUS
<1>4. NoFrame \in Frame /\ NoFrame.type = "none"
  BY Ids DEF NoFrame, Msg, Frame, FrameType, Success
<1>5. AnswerInv BY <1>2, <1>3 DEF AnswerInv, Awaited
<1>6. RequestInv BY <1>2, <1>3, <1>4 DEF RequestInv, Asked, Asks
<1>7. ~PeerSelected BY <1>2, <1>3 DEF PeerSelected
<1>8. DataInv BY <1>2, <1>3, <1>4, <1>7 DEF DataInv
<1>. QED BY <1>1, <1>5, <1>6, <1>8 DEF DataExchangeInv

\* Every step of the transport, the core and the peer keeps the invariant.
LEMMA DataInvStep == ASSUME DataExchangeInv, [Next]_vars PROVE DataExchangeInv'
<1>0. WireTypes /\ StageInv /\ LinktestInv /\ SelectInv
  BY DEF DataExchangeInv, WireInv, SessionInv
<1>1. WireInv' BY WireInvStep DEF DataExchangeInv
<1>2. AnswerInv' BY <1>0, AnswerStep DEF DataExchangeInv
<1>3. RequestInv' BY <1>0, RequestStep DEF DataExchangeInv
<1>4. DataInv' BY <1>0, DataStep DEF DataExchangeInv
<1>. QED BY <1>1, <1>2, <1>3, <1>4 DEF DataExchangeInv

\* The inductive invariant holds throughout the life of a socket.
THEOREM DataInvariance == Spec => []DataExchangeInv
<1>1. Init => DataExchangeInv BY DataInit
<1>2. DataExchangeInv /\ [Next]_vars => DataExchangeInv' BY DataInvStep
<1>. QED BY <1>1, <1>2, PTL DEF Spec

\* handleSelectReq, dispatchFrame: data that a peer sends once it is selected finds
\* this side Selected, whichever side asked, for any number of Selects and Deselects
\* and any number of frames on the wire.
THEOREM DataNotRejected == Spec => []SelectedBeforeData
<1>1. DataExchangeInv => SelectedBeforeData
  BY DEF DataExchangeInv, DataInv, SelectedBeforeData, Handles, Live
<1>. QED BY <1>1, DataInvariance, PTL
=============================================================================
