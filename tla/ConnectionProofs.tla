-------------------------- MODULE ConnectionProofs --------------------------
(*****************************************************************************)
(* Theorems about Connection, for every value of its constants: what a       *)
(* transport or a loop reports preserves IInv, IInv is inductive, and the    *)
(* properties follow from it.                                                *)
(*****************************************************************************)
EXTENDS ConnectionStepProofs

\* A report parked with a generation it may name keeps the type of the parked reports.
LEMMA ParkTypes ==
  ASSUME NEW g \in Gen, NEW r \in Reporter, NEW ev \in FsmEvent \ {"evClose"},
         NEW n \in Gen, TransportTypes, Park(g, r, ev, n)
  PROVE  pend' \subseteq [by : Gen \X Reporter, ev : FsmEvent \ {"evClose"}, gen : Gen]
<1>1. [by |-> <<g, r>>, ev |-> ev, gen |-> n]
        \in [by : Gen \X Reporter, ev : FsmEvent \ {"evClose"}, gen : Gen]
  OBVIOUS
<1>2. pend' \subseteq pend \cup {[by |-> <<g, r>>, ev |-> ev, gen |-> n]}
  BY DEF Park
<1>. QED BY <1>1, <1>2 DEF TransportTypes

USE GenFacts DEF IInv, TypeOK, NoGen, Published, LoopOver, Starting, Retrying,
                 Closing, Opening

\* A parked report is queued.
LEMMA InjectInv == ASSUME NEW p \in pend, IInv, Inject(p) PROVE IInv'
<1>u. UNCHANGED <<state, lastReacted, sup, runDone, connVars, epochVars, loop, appVars,
                  start>>
  BY Zenon DEF Inject
<1>q. /\ events' = Append(events, [ev |-> p.ev, gen |-> p.gen])
      /\ [ev |-> p.ev, gen |-> p.gen] \in FsmCommand /\ p.ev # "evClose"
  <2>1. p.ev \in FsmEvent \ {"evClose"} /\ p.gen \in Gen BY DEF TransportTypes
  <2>. QED BY <2>1 DEF Inject, FsmCommand
<1>1. ConnTypes' /\ EpochTypes' /\ LoopTypes' /\ AppTypes' /\ AppInv' /\ GenOrder'
      /\ EpochInv' /\ StarterInv' /\ BarrierInv' /\ RetryInv' /\ StartInv' /\ OneDriver'
      /\ StateInv' /\ OneLiveGeneration'
  BY <1>u, KeepConnTypes, KeepEpochTypes, KeepLoopTypes, KeepAppTypes, KeepAppInv,
      KeepGenOrder, KeepEpochInv, KeepStarterInv, KeepBarrierInv, KeepRetryInv,
      KeepStartInv, KeepOneDriver, KeepStateInv, KeepOneLiveGeneration, Zenon DEF
      connVars, epochVars, appVars
<1>2. SupTypes'
  <2>1. events' \in Seq(FsmCommand) BY <1>q, QueueFacts, SMT DEF SupTypes
  <2>. QED BY <2>1, Zenon DEF SupTypes, Inject
<1>3. TransportTypes' BY Zenon DEF TransportTypes, Inject
<1>4. SupInv'
  <2>1. \A i \in 1 .. Len(events') :
        events'[i].ev = "evClose" => i \in 1 .. Len(events) /\ events[i].ev = "evClose"
    BY <1>q, QueueFacts, SMT DEF SupTypes
  <2>. QED BY <2>1, SMT DEF SupInv, Inject, connVars, epochVars, appVars
<1>. QED BY <1>1, <1>2, <1>3, <1>4

\* ConnectLoopStartFailure reports the drop.
LEMMA LoopInjectInv == ASSUME NEW p \in Gen, IInv, LoopInject(p) PROVE IInv'
<1>u. /\ loop[p].pc = "inject"
      /\ UNCHANGED <<state, lastReacted, closed, sup, runDone, connVars, epochVars,
                     appVars, trVars>>
  BY Zenon DEF LoopInject
<1>q. /\ \/ events' = Append(events, [ev |-> "evDisconnect", gen |-> loop[p].e])
         \/ events' = events
      /\ [ev |-> "evDisconnect", gen |-> loop[p].e] \in FsmCommand
  <2>1. loop[p].e \in Gen BY <1>u, SMT DEF StartInv
  <2>. QED BY <2>1 DEF LoopInject, FsmCommand, FsmEvent
<1>l. LoopTypes' /\ (loop'[p].pc = "ended") /\ loop'[p].e = loop[p].e
      /\ \A q \in Gen : q # p => loop'[q] = loop[q]
  BY LoopGotoFacts, Zenon DEF LoopInject, connVars, epochVars, appVars, trVars,
      LoopPC
<1>1. ConnTypes' /\ EpochTypes' /\ AppTypes' /\ TransportTypes' /\ GenOrder'
      /\ EpochInv' /\ OneLiveGeneration'
  BY <1>u, KeepConnTypes, KeepEpochTypes, KeepAppTypes, KeepTransportTypes,
      KeepGenOrder, KeepEpochInv, KeepOneLiveGeneration, Zenon DEF connVars,
      epochVars, appVars, trVars
<1>2. SupTypes'
  <2>1. events' \in Seq(FsmCommand) BY <1>q, QueueFacts, SMT DEF SupTypes
  <2>. QED BY <1>u, <2>1, Zenon DEF SupTypes
<1>3. LoopTypes' BY <1>l
<1>4. SupInv'
  <2>1. \A i \in 1 .. Len(events') :
        events'[i].ev = "evClose" => i \in 1 .. Len(events) /\ events[i].ev = "evClose"
    BY <1>q, QueueFacts, SMT DEF SupTypes
  <2>. QED BY <1>u, <2>1, SMT DEF SupInv, connVars, epochVars, appVars
<1>5. AppInv' BY <1>u, Zenon DEF AppInv, connVars, epochVars, appVars
<1>6. StarterInv' BY <1>u, <1>l, SMTT(30) DEF StarterInv, epochVars, appVars, trVars
<1>7. BarrierInv' BY <1>u, <1>l, Zenon DEF BarrierInv, connVars, epochVars, trVars
<1>8. RetryInv' BY <1>u, <1>l, Zenon DEF RetryInv, connVars, epochVars, trVars
<1>9. StartInv' BY <1>u, <1>l, Zenon DEF StartInv, connVars, epochVars, trVars
<1>10. OneDriver' BY <1>u, <1>l, Zenon DEF OneDriver
<1>11. StateInv' BY <1>u, <1>l, Zenon DEF StateInv, EpochTypes, connVars, epochVars
<1>. QED BY <1>1, <1>2, <1>3, <1>4, <1>5, <1>6, <1>7, <1>8, <1>9, <1>10, <1>11

\* CommitSelected swaps NotSelected to Selected.
LEMMA CommitSelectedInv == ASSUME NEW g \in Gen, IInv, CommitSelected(g) PROVE IInv'
<1>u. UNCHANGED <<events, sup, runDone, connVars, epochVars, loop, appVars, start>>
  BY Zenon DEF CommitSelected, Commit
<1>1. ConnTypes' /\ EpochTypes' /\ LoopTypes' /\ AppTypes' /\ SupInv' /\ AppInv'
      /\ GenOrder' /\ EpochInv' /\ StarterInv' /\ RetryInv' /\ StartInv' /\ OneDriver'
      /\ OneLiveGeneration'
  BY <1>u, KeepConnTypes, KeepEpochTypes, KeepLoopTypes, KeepAppTypes, KeepSupInv,
      KeepAppInv, KeepGenOrder, KeepEpochInv, KeepStarterInv, KeepRetryInv,
      KeepStartInv, KeepOneDriver, KeepOneLiveGeneration, Zenon DEF connVars,
      epochVars, appVars
<1>2. SupTypes' BY Zenon DEF SupTypes, CommitSelected, Commit, ConnState
<1>3. TransportTypes'
  <2>1. cur \in Gen /\ "recv" \in Reporter /\ "evSelectAccepted" \in FsmEvent \ {"evClose"}
    BY SMT DEF ConnTypes, CommitSelected, Commit, LiveFor, FsmEvent, Reporter
  <2>2. Park(g, "recv", "evSelectAccepted", cur) /\ UNCHANGED <<start, up, t7>>
    BY Zenon DEF CommitSelected, Commit
  <2>. QED BY <2>1, <2>2, ParkTypes DEF TransportTypes
<1>4. BarrierInv' BY Zenon DEF BarrierInv, CommitSelected, Commit, epochVars
<1>5. StateInv' BY Zenon DEF StateInv, CommitSelected, Commit, connVars, epochVars
<1>. QED BY <1>1, <1>2, <1>3, <1>4, <1>5

\* CommitSelectLost swaps Selected to NotSelected.
LEMMA CommitSelectLostInv == ASSUME NEW g \in Gen, IInv, CommitSelectLost(g) PROVE IInv'
<1>u. UNCHANGED <<events, sup, runDone, connVars, epochVars, loop, appVars, start>>
  BY Zenon DEF CommitSelectLost, Commit
<1>1. ConnTypes' /\ EpochTypes' /\ LoopTypes' /\ AppTypes' /\ SupInv' /\ AppInv'
      /\ GenOrder' /\ EpochInv' /\ StarterInv' /\ RetryInv' /\ StartInv' /\ OneDriver'
      /\ OneLiveGeneration'
  BY <1>u, KeepConnTypes, KeepEpochTypes, KeepLoopTypes, KeepAppTypes, KeepSupInv,
      KeepAppInv, KeepGenOrder, KeepEpochInv, KeepStarterInv, KeepRetryInv,
      KeepStartInv, KeepOneDriver, KeepOneLiveGeneration, Zenon DEF connVars,
      epochVars, appVars
<1>2. SupTypes' BY Zenon DEF SupTypes, CommitSelectLost, Commit, ConnState
<1>3. TransportTypes'
  <2>1. cur \in Gen /\ "recv" \in Reporter /\ "evSelectLost" \in FsmEvent \ {"evClose"}
    BY SMT DEF ConnTypes, CommitSelectLost, Commit, LiveFor, FsmEvent, Reporter
  <2>2. Park(g, "recv", "evSelectLost", cur) /\ UNCHANGED <<start, up, t7>>
    BY Zenon DEF CommitSelectLost, Commit
  <2>. QED BY <2>1, <2>2, ParkTypes DEF TransportTypes
<1>4. BarrierInv' BY Zenon DEF BarrierInv, CommitSelectLost, Commit, epochVars
<1>5. StateInv'
  BY Zenon DEF StateInv, CommitSelectLost, Commit, connVars, epochVars
<1>. QED BY <1>1, <1>2, <1>3, <1>4, <1>5

\* A dead link is reported.
LEMMA TCPDownInv == ASSUME NEW g \in Gen, IInv, TCPDown(g) PROVE IInv'
<1>u. UNCHANGED <<supVars, connVars, epochVars, loop, appVars, start>>
  BY Zenon DEF TCPDown
<1>1. SupTypes' /\ ConnTypes' /\ EpochTypes' /\ LoopTypes' /\ AppTypes' /\ SupInv'
      /\ AppInv' /\ GenOrder' /\ EpochInv' /\ StarterInv' /\ BarrierInv' /\ RetryInv'
      /\ StartInv' /\ OneDriver' /\ StateInv' /\ OneLiveGeneration'
  BY <1>u, KeepSupTypes, KeepConnTypes, KeepEpochTypes, KeepLoopTypes, KeepAppTypes,
      KeepSupInv, KeepAppInv, KeepGenOrder, KeepEpochInv, KeepStarterInv,
      KeepBarrierInv, KeepRetryInv, KeepStartInv, KeepOneDriver, KeepStateInv,
      KeepOneLiveGeneration, Zenon DEF supVars, connVars, epochVars, appVars
<1>2. TransportTypes'
  <2>1. cur \in Gen /\ "down" \in Reporter /\ "evDisconnect" \in FsmEvent \ {"evClose"}
    BY DEF ConnTypes, TCPDown, FsmEvent, Reporter
  <2>2. Park(g, "down", "evDisconnect", cur) /\ UNCHANGED <<start, up, t7>>
    BY Zenon DEF TCPDown
  <2>. QED BY <2>1, <2>2, ParkTypes DEF TransportTypes
<1>. QED BY <1>1, <1>2

\* The T7 dwell ran out.
LEMMA T7ExpiredInv == ASSUME NEW g \in Gen, IInv, T7Expired(g) PROVE IInv'
<1>u. UNCHANGED <<supVars, connVars, epochVars, loop, appVars, start>>
  BY Zenon DEF T7Expired
<1>1. SupTypes' /\ ConnTypes' /\ EpochTypes' /\ LoopTypes' /\ AppTypes' /\ SupInv'
      /\ AppInv' /\ GenOrder' /\ EpochInv' /\ StarterInv' /\ BarrierInv' /\ RetryInv'
      /\ StartInv' /\ OneDriver' /\ StateInv' /\ OneLiveGeneration'
  BY <1>u, KeepSupTypes, KeepConnTypes, KeepEpochTypes, KeepLoopTypes, KeepAppTypes,
      KeepSupInv, KeepAppInv, KeepGenOrder, KeepEpochInv, KeepStarterInv,
      KeepBarrierInv, KeepRetryInv, KeepStartInv, KeepOneDriver, KeepStateInv,
      KeepOneLiveGeneration, Zenon DEF supVars, connVars, epochVars, appVars
<1>2. TransportTypes'
  <2>1. cur \in Gen /\ "t7" \in Reporter /\ "evT7Timeout" \in FsmEvent \ {"evClose"}
    BY DEF ConnTypes, T7Expired, FsmEvent, Reporter
  <2>2. /\ Park(g, "t7", "evT7Timeout", IF Named THEN g ELSE cur)
        /\ UNCHANGED <<start, up>> /\ t7' = t7 \ {g}
    BY Zenon DEF T7Expired
  <2>3. (IF Named THEN g ELSE cur) \in Gen BY <2>1, Zenon
  <2>. QED BY <2>1, <2>2, <2>3, ParkTypes DEF TransportTypes
<1>. QED BY <1>1, <1>2

-----------------------------------------------------------------------------
(* The theorems. *)

\* A stuttering step keeps the invariant.
LEMMA StutterInv == IInv /\ UNCHANGED vars => IInv'
<1> SUFFICES ASSUME IInv, UNCHANGED vars PROVE IInv' OBVIOUS
<1>1. TypeOK'
  BY Zenon, KeepSupTypes, KeepConnTypes, KeepEpochTypes, KeepLoopTypes, KeepAppTypes,
     KeepTransportTypes
     DEF IInv, TypeOK, vars, supVars, connVars, epochVars, appVars, trVars
<1>2. SupInv' /\ AppInv' /\ GenOrder' /\ EpochInv' /\ StarterInv' /\ BarrierInv'
  BY Zenon, KeepSupInv, KeepAppInv, KeepGenOrder, KeepEpochInv, KeepStarterInv,
     KeepBarrierInv
     DEF IInv, vars, supVars, connVars, epochVars, appVars, trVars
<1>3. RetryInv' /\ StartInv' /\ OneDriver' /\ StateInv' /\ OneLiveGeneration'
  BY Zenon DEF IInv, RetryInv, StartInv, OneDriver, StateInv, OneLiveGeneration, vars,
      supVars, connVars, epochVars, appVars, trVars, NoGen, Published, LoopOver, Starting,
      Retrying, Closing, Opening
<1>. QED BY <1>1, <1>2, <1>3 DEF IInv

\* The connection as newConnection leaves it satisfies the invariant.
LEMMA InitInv == Init => IInv
<1> SUFFICES ASSUME Init PROVE IInv OBVIOUS
<1>1. SupTypes
  <2>1. sup \in [pc : SupPC, ev : FsmEvent, gen : Gen \cup {NoGen}, seen : ConnState,
                e : Gen \cup {NoGen}]
    BY SMT DEF Init, IdleSup, SupPC, ConnState, FsmEvent
  <2>2. events \in Seq(FsmCommand) BY SMT DEF Init
  <2>. QED BY <2>1, <2>2, Zenon DEF Init, SupTypes, ConnState
<1>2. ConnTypes
  <2>1. genSeq \in 0 .. MaxGen /\ reconnectGen \in Nat BY BoundsAssumption, SMT DEF Init
  <2>. QED BY <2>1, Zenon DEF Init, ConnTypes
<1>3. EpochTypes BY SMT DEF Init, EpochTypes
<1>4. LoopTypes BY SMT DEF Init, LoopTypes, NoLoop, LoopPC
<1>5. AppTypes BY BoundsAssumption, SMT DEF Init, AppTypes, IdleApp, AppPC
<1>6. TransportTypes BY SMT DEF Init, TransportTypes
<1>7. SupInv /\ AppInv BY SMT DEF Init, SupInv, AppInv, IdleSup, IdleApp, NoLoop
<1>8. GenOrder /\ EpochInv /\ StarterInv BY SMT DEF Init, GenOrder, EpochInv, StarterInv
<1>9. BarrierInv /\ RetryInv /\ StartInv /\ OneDriver
  BY SMT DEF Init, BarrierInv, RetryInv, StartInv, OneDriver, NoLoop
<1>10. StateInv /\ OneLiveGeneration
  BY SMT DEF Init, StateInv, OneLiveGeneration, IdleSup
<1>. QED BY <1>1, <1>2, <1>3, <1>4, <1>5, <1>6, <1>7, <1>8, <1>9, <1>10

HIDE DEF IInv, TypeOK

\* Every step of every goroutine preserves the invariant.
LEMMA NextInv == IInv /\ [Next]_vars => IInv'
<1> SUFFICES ASSUME IInv, [Next]_vars PROVE IInv' OBVIOUS
<1>1. CASE Supervisor
  BY <1>1, SupTakeInv, SupMatchInv, SupApplyInv, SupReactInv, SupReactSpawnInv,
     SupReactTeardownInv, SupCloseInv, SupStopInv DEF Supervisor
<1>2. ASSUME NEW g \in Gen, Join(g) \/ Loop(g) PROVE IInv'
  BY <1>2, JoinInv, LoopBarrierInv, LoopSleepInv, LoopFenceInv, LoopPublishInv,
     LoopStartOkInv, LoopSignalInv, LoopStartErrInv, LoopFailedInv, LoopReleaseInv,
     LoopHandoffInv, LoopInjectInv DEF Loop
<1>3. CASE Application
  BY <1>3, OpenBeginInv, OpenPublishInv, OpenStartedInv, OpenWaitedInv, OpenExpiredInv,
     OpenStartFailedInv, OpenColdInv, RollbackInv, CloseRegisterInv, CloseEnterInv,
     CloseInjectInv, CloseWaitInv, CloseReturnInv DEF Application
<1>4. CASE Transport
  BY <1>4, StartReturnsInv, PublishSocketInv, CommitConnectedInv, TCPUpAgainInv,
     CommitSelectedInv, CommitSelectLostInv, TCPDownInv, T7ExpiredInv, InjectInv
     DEF Transport
<1>5. CASE UNCHANGED vars BY <1>5, StutterInv
<1>. QED BY <1>1, <1>2, <1>3, <1>4, <1>5 DEF Next

\* The inductive invariant holds in every reachable state of the connection.
THEOREM Invariance == Spec => []IInv
BY InitInv, NextInv, PTL DEF Spec

\* Every variable keeps its type: no counter, set or program point of the
\* supervisor, the epochs, the loops or the calls leaves its range.
THEOREM TypeCorrect == Spec => []TypeOK
<1>1. IInv => TypeOK BY DEF IInv
<1>. QED BY <1>1, Invariance, PTL

\* A generation is published only when every earlier one has been joined.
THEOREM OneLive == Spec => []OneLiveGeneration
<1>1. IInv => OneLiveGeneration BY DEF IInv
<1>. QED BY <1>1, Invariance, PTL

\* The FSM leaves NotConnected only for the current generation.
THEOREM StateIsCurrent == Spec => []StateBelongsToCurrent
<1>1. IInv => StateBelongsToCurrent
  BY SMT DEF IInv, StateInv, StateBelongsToCurrent
<1>. QED BY <1>1, Invariance, PTL

\* The startReturned barrier: no two calls of the transport's Start overlap.
THEOREM OneStart == Spec => []OneStartInFlight
<1>1. IInv => OneStartInFlight
  <2> SUFFICES ASSUME IInv, NEW g \in Gen, StartRunning(g) PROVE g = cur
    BY DEF OneStartInFlight
  <2>1. g \notin startReturned BY SMT DEF IInv, EpochInv, StartRunning
  <2>2. CASE app.pc \in Opening /\ app.e = g BY <2>2, SMT DEF IInv, AppInv
  <2>3. ASSUME NEW p \in Gen, Starting(p), loop[p].e = g PROVE g = cur
    BY <2>3, SMT DEF IInv, StartInv
  <2>. QED BY <2>1, <2>2, <2>3, SMT DEF IInv, StarterInv, StartRunning
<1>. QED BY <1>1, Invariance, PTL

\* At most one reconnect loop owns the retry gauge.
THEOREM OneOwner == Spec => []OneGaugeOwner
<1>1. IInv => OneGaugeOwner BY Zenon DEF IInv, OneDriver, OneGaugeOwner, OwnsGauge
<1>. QED BY <1>1, Invariance, PTL

\* react and Open start at most one reconnect loop for a generation.
THEOREM SpawnedOnce == Spec => []LoopSpawnedOnce
<1>1. IInv => LoopSpawnedOnce
  BY SMT DEF IInv, SupInv, StateInv, AppInv, LoopSpawnedOnce
<1>. QED BY <1>1, Invariance, PTL

\* Close and a failed Open return with every generation joined and no loop left.
THEOREM NothingLeft == Spec => []CloseLeavesNothing
<1>1. IInv => CloseLeavesNothing
  <2> SUFFICES ASSUME IInv, app.pc = "idle", runDone
               PROVE /\ \A g \in Gen : Published(g) => g \in done
                     /\ \A p \in Gen : LoopOver(p)
    BY DEF CloseLeavesNothing
  <2>1. \A p \in Gen : LoopOver(p) BY SMT DEF IInv, AppInv
  <2>2. \A g \in Gen : Published(g) => g \in done
    BY SMT DEF IInv, AppInv, OneLiveGeneration
  <2>. QED BY <2>1, <2>2
<1>. QED BY <1>1, Invariance, PTL

\* The generation a failed Open closes is the one it opened.
THEOREM RollbackPinned == Spec => []RollbackPinsOwnGeneration
<1>1. IInv => RollbackPinsOwnGeneration
  BY SMT DEF IInv, AppInv, RollbackPinsOwnGeneration
<1>. QED BY <1>1, Invariance, PTL

\* With a transport that names its generations, a joined one holds no socket.
THEOREM NoSocketKept == ASSUME Named PROVE Spec => []SocketsReleased
<1>1. IInv => SocketsReleased BY SMT DEF IInv, EpochInv, SocketsReleased
<1>. QED BY <1>1, Invariance, PTL

\* A step that leaves the FSM in NotConnected found it there, is the store of a
\* supervisor step, or the start of an open cycle.
LEMMA DropSteps ==
  ASSUME [Next]_vars, state # "NotConnected", state' = "NotConnected"
  PROVE  SupApply \/ OpenPublish
<1>0. state' # state OBVIOUS
<1>1. CASE Supervisor
  BY <1>0, <1>1, Zenon DEF Supervisor, SupTake, SupMatch, SupReact, SupReactSpawn,
     SupReactTeardown, SupClose, SupStop, supVars
<1>2. ASSUME NEW g \in Gen, Join(g) \/ Loop(g) PROVE FALSE
  <2>1. UNCHANGED supVars \/ UNCHANGED state
    BY <1>2, Zenon DEF Loop, Join, LoopBarrier, LoopSleep, LoopFence, LoopPublish, LoopStartOk,
       LoopSignal, LoopStartErr, LoopFailed, LoopRelease, LoopHandoff, LoopInject
  <2>. QED BY <1>0, <2>1, Zenon DEF supVars
<1>3. CASE Application
  <2>1. UNCHANGED supVars \/ UNCHANGED state \/ OpenPublish
    BY <1>3, Zenon DEF Application, OpenBegin, OpenStarted, OpenWaited, OpenExpired,
       OpenStartFailed, OpenCold, Rollback, CloseRegister, CloseEnter, CloseInject,
       CloseWait, CloseReturn
  <2>. QED BY <1>0, <2>1, Zenon DEF supVars
<1>4. CASE Transport
  <2>1. ASSUME NEW g \in Gen, CommitConnected(g) \/ TCPUpAgain(g) PROVE FALSE
    BY <1>0, <2>1 DEF CommitConnected, TCPUpAgain, UpGate
  <2>2. ASSUME NEW g \in Gen, CommitSelected(g) \/ CommitSelectLost(g) PROVE FALSE
    BY <2>2 DEF CommitSelected, CommitSelectLost, Commit
  <2>3. ASSUME NEW g \in Gen,
               \/ \E ok \in BOOLEAN : StartReturns(g, ok)
               \/ PublishSocket(g) \/ TCPDown(g) \/ T7Expired(g)
        PROVE  UNCHANGED supVars
    BY <2>3, Zenon DEF StartReturns, PublishSocket, TCPDown, T7Expired
  <2>4. ASSUME NEW p \in pend, Inject(p) PROVE UNCHANGED state BY <2>4, Zenon DEF Inject
  <2>. QED BY <1>0, <1>4, <2>1, <2>2, <2>3, <2>4, Zenon DEF Transport, supVars
<1>5. CASE UNCHANGED vars BY <1>0, <1>5, Zenon DEF vars, supVars
<1>. QED BY <1>1, <1>2, <1>3, <1>4, <1>5, Zenon DEF Next

\* supervisor.step: the link that an event drops is of the event's own generation,
\* though the step matched it in an earlier section; and a T7 expiry that raced a
\* select never drops the session.
THEOREM DropDue == Spec => DropIsDue
<1> DEFINE Due == /\ state # "NotConnected" /\ state' = "NotConnected" /\ sup.gen # NoGen
                     /\ app' = app => sup.gen = cur
                  /\ state = "Selected" /\ sup.pc = "apply" /\ sup.ev = "evT7Timeout"
                       => state' # "NotConnected"
<1>1. ASSUME IInv, [Next]_vars, state # "NotConnected", state' = "NotConnected" PROVE Due
  <2>1. CASE SupApply
    <3>1. /\ sup.pc = "apply" /\ ~T7Lost
          /\ Target(sup.seen, sup.ev) # sup.seen
          /\ Target(sup.seen, sup.ev) = "NotConnected"
      BY <1>1, <2>1 DEF SupApply
    <3>2. sup.seen # "NotConnected" BY <3>1
    <3>3. /\ Legal(sup.seen, sup.ev) /\ sup.gen \in {NoGen, cur}
      BY <1>1, <3>1, <3>2, Zenon DEF IInv, StateInv
    <3>4. sup.ev = "evT7Timeout" => sup.seen = "NotSelected" /\ state = sup.seen
      BY <3>1, <3>3 DEF Legal, T7Lost
    <3>. QED BY <3>3, <3>4
  <2>2. CASE OpenPublish
    <3>1. app.pc = "open_join" /\ app' = [app EXCEPT !.pc = "open_start", !.e = genSeq + 1]
      BY <2>2, Zenon DEF OpenPublish
    <3>2. runDone /\ sup.pc # "apply" BY <1>1, <3>1, Zenon DEF IInv, AppInv, SupInv
    <3>3. app'.pc = "open_start" BY <1>1, <3>1 DEF IInv, TypeOK, AppTypes
    <3>. QED BY <3>1, <3>2, <3>3, Zenon
  <2>. QED BY <1>1, <2>1, <2>2, DropSteps
<1>2. IInv /\ [Next]_vars => [Due]_vars
  <2> SUFFICES ASSUME IInv, [Next]_vars PROVE Due OBVIOUS
  <2>1. CASE state # "NotConnected" /\ state' = "NotConnected" BY <1>1, <2>1
  <2>. QED BY <2>1
<1>. QED BY <1>2, Invariance, PTL DEF Spec, DropIsDue
=============================================================================
