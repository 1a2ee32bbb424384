------------------------ MODULE ConnectionStepProofs ------------------------
(*****************************************************************************)
(* The inductive invariant of Connection: facts about generations and        *)
(* reconnect loops that the proofs share, and the steps of the supervisor,   *)
(* of a join's end, of Open and Close, of a Start and of the socket it       *)
(* brings up, and of a reconnect loop, which preserve IInv. One lemma for    *)
(* each action, with one step for what the action leaves alone and one for   *)
(* each part it can disturb.                                                 *)
(*****************************************************************************)
EXTENDS ConnectionInv, TLAPS

\* Generations are positive numbers, so that NoGen is none of them.
LEMMA GenFacts == NoGen \notin Gen /\ \A g \in Gen : g \in Nat
BY BoundsAssumption DEF Gen, NoGen

\* A step of the loop of p moves its program point and epoch, and no other loop.
LEMMA LoopToFacts ==
  ASSUME LoopTypes, NEW p \in Gen, NEW pc \in LoopPC, NEW e \in Gen \cup {NoGen},
         LoopTo(p, pc, e)
  PROVE /\ LoopTypes' /\ loop'[p].pc = pc /\ loop'[p].e = e
        /\ loop'[p].fence = loop[p].fence
        /\ \A q \in Gen : q # p => loop'[q] = loop[q]
BY DEF LoopTypes, LoopTo

\* The same for a step that keeps the loop's epoch.
LEMMA LoopGotoFacts ==
  ASSUME LoopTypes, NEW p \in Gen, NEW pc \in LoopPC, LoopGoto(p, pc)
  PROVE /\ LoopTypes' /\ loop'[p].pc = pc /\ loop'[p].e = loop[p].e
        /\ \A q \in Gen : q # p => loop'[q] = loop[q]
<1>1. loop[p].e \in Gen \cup {NoGen} BY DEF LoopTypes
<1>. QED BY <1>1, LoopToFacts DEF LoopGoto

\* A new loop stands at its barrier.
LEMMA LoopSpawnFacts ==
  ASSUME LoopTypes, ConnTypes, NEW p \in Gen, LoopSpawn(p)
  PROVE /\ LoopTypes' /\ loop'[p].pc = "barrier" /\ loop'[p].e = NoGen
        /\ \A q \in Gen : q # p => loop'[q] = loop[q]
BY DEF LoopTypes, ConnTypes, LoopPC, LoopSpawn

\* Queueing a command that is no evClose adds none to the queue.
LEMMA QueueFacts ==
  ASSUME NEW q \in Seq(FsmCommand), NEW c \in FsmCommand
  PROVE /\ Append(q, c) \in Seq(FsmCommand)
        /\ c.ev # "evClose" =>
             \A i \in 1 .. Len(Append(q, c)) :
              Append(q, c)[i].ev = "evClose" => i \in 1 .. Len(q) /\ q[i].ev = "evClose"
BY DEF FsmCommand

\* Each part of the invariant holds as long as the variables it reads keep their value.
LEMMA KeepSupTypes ==
  SupTypes /\ UNCHANGED <<state, lastReacted, closed, events, sup, runDone>> =>
      SupTypes'
BY DEF SupTypes

LEMMA KeepConnTypes ==
  ConnTypes /\ UNCHANGED <<cur, genSeq, shutdown, reconnectGen, cancelled,
      closeEpoch>> => ConnTypes'
BY DEF ConnTypes

LEMMA KeepEpochTypes ==
  EpochTypes /\ UNCHANGED <<ended, torn, done, conn, startReturned, upAdmitted,
      upCommitted>> => EpochTypes'
BY DEF EpochTypes

LEMMA KeepLoopTypes == LoopTypes /\ UNCHANGED <<loop>> => LoopTypes'
BY DEF LoopTypes

LEMMA KeepAppTypes ==
  AppTypes /\ UNCHANGED <<app, abort, pendingCloses, opens, closes>> => AppTypes'
BY DEF AppTypes

LEMMA KeepTransportTypes ==
  TransportTypes /\ UNCHANGED <<start, up, t7, pend>> => TransportTypes'
BY DEF TransportTypes

LEMMA KeepSupInv ==
  SupInv /\ UNCHANGED <<events, sup, runDone, cur, torn, upCommitted, app>> =>
      SupInv'
BY DEF SupInv, NoGen

LEMMA KeepAppInv ==
  AppInv /\ UNCHANGED <<runDone, cur, genSeq, shutdown, closeEpoch, ended, torn,
      done, startReturned, upCommitted, loop, app, start>> => AppInv'
BY DEF AppInv, LoopOver, Published, Closing, Opening, NoGen

LEMMA KeepGenOrder == GenOrder /\ UNCHANGED <<cur, genSeq, start>> => GenOrder'
BY DEF GenOrder, Published, NoGen

LEMMA KeepEpochInv ==
  EpochInv /\ UNCHANGED <<ended, torn, done, conn, startReturned, upAdmitted,
      upCommitted, start>> => EpochInv'
BY DEF EpochInv, Published

LEMMA KeepStarterInv ==
  StarterInv /\ UNCHANGED <<startReturned, loop, app, start>> => StarterInv'
BY DEF StarterInv, Published, Starting, Opening

LEMMA KeepBarrierInv ==
  BarrierInv /\ UNCHANGED <<state, cur, ended, upCommitted, loop, start>> =>
      BarrierInv'
BY DEF BarrierInv, Published, Retrying, Starting

LEMMA KeepRetryInv ==
  RetryInv /\ UNCHANGED <<cur, genSeq, done, startReturned, loop, start>> =>
      RetryInv'
BY DEF RetryInv, Published, Retrying

LEMMA KeepStartInv ==
  StartInv /\ UNCHANGED <<cur, torn, startReturned, upCommitted, loop, start>> =>
      StartInv'
BY DEF StartInv, Starting, NoGen

LEMMA KeepOneDriver == OneDriver /\ UNCHANGED <<loop>> => OneDriver'
BY DEF OneDriver, Starting, Retrying

LEMMA KeepStateInv ==
  StateInv /\ UNCHANGED <<state, lastReacted, sup, cur, upCommitted, loop>> =>
      StateInv'
BY DEF StateInv, Retrying, NoGen

LEMMA KeepOneLiveGeneration ==
  OneLiveGeneration /\ UNCHANGED <<cur, done, start>> => OneLiveGeneration'
BY DEF OneLiveGeneration, Published

-----------------------------------------------------------------------------
(* The supervisor, and the end of a join. *)

USE GenFacts DEF IInv, TypeOK, NoGen, Published, LoopOver, Starting, Retrying,
                 Closing, Opening

\* Supervisor.run takes the next event.
LEMMA SupTakeInv == ASSUME IInv, SupTake PROVE IInv'
<1>u. UNCHANGED <<state, runDone, connVars, epochVars, loop, appVars, trVars>>
  BY Zenon DEF SupTake
<1>1. ConnTypes' /\ EpochTypes' /\ LoopTypes' /\ AppTypes' /\ TransportTypes' /\ AppInv'
      /\ GenOrder' /\ EpochInv' /\ StarterInv' /\ BarrierInv' /\ RetryInv' /\ StartInv'
      /\ OneDriver' /\ OneLiveGeneration'
  BY <1>u, KeepConnTypes, KeepEpochTypes, KeepLoopTypes, KeepAppTypes,
      KeepTransportTypes, KeepAppInv, KeepGenOrder, KeepEpochInv, KeepStarterInv,
      KeepBarrierInv, KeepRetryInv, KeepStartInv, KeepOneDriver, KeepOneLiveGeneration,
      Zenon DEF connVars, epochVars, appVars, trVars
<1>2. SupTypes'
  <2>1. Head(events) \in FsmCommand /\ Tail(events) \in Seq(FsmCommand)
    BY DEF SupTypes, SupTake
  <2>2. Head(events).ev \in FsmEvent /\ Head(events).gen \in Gen \cup {NoGen}
    BY <2>1 DEF FsmCommand
  <2>. QED BY <2>1, <2>2 DEF SupTypes, SupTake, SupPC
<1>3. SupInv' BY SMTT(30) DEF SupInv, SupTake, connVars, appVars
<1>4. StateInv' BY Zenon DEF StateInv, SupTake, connVars, epochVars
<1>. QED BY <1>1, <1>2, <1>3, <1>4

\* Step judges the event by the state it loaded and by its generation.
LEMMA SupMatchInv == ASSUME IInv, SupMatch PROVE IInv'
<1>u. UNCHANGED <<state, runDone, connVars, epochVars, loop, appVars, trVars>>
  BY Zenon DEF SupMatch
<1>1. ConnTypes' /\ EpochTypes' /\ LoopTypes' /\ AppTypes' /\ TransportTypes' /\ AppInv'
      /\ GenOrder' /\ EpochInv' /\ StarterInv' /\ BarrierInv' /\ RetryInv' /\ StartInv'
      /\ OneDriver' /\ OneLiveGeneration'
  BY <1>u, KeepConnTypes, KeepEpochTypes, KeepLoopTypes, KeepAppTypes,
      KeepTransportTypes, KeepAppInv, KeepGenOrder, KeepEpochInv, KeepStarterInv,
      KeepBarrierInv, KeepRetryInv, KeepStartInv, KeepOneDriver, KeepOneLiveGeneration,
      Zenon DEF connVars, epochVars, appVars, trVars
<1>2. SupTypes'
  BY Zenon DEF SupTypes, SupMatch, IdleSup, ConnState, FsmEvent, SupPC
<1>3. SupInv' BY SMTT(30) DEF SupInv, SupMatch, IdleSup, connVars, appVars
<1>4. StateInv'
  BY SMTT(30) DEF StateInv, SupMatch, StaleEvent, IdleSup, connVars, epochVars
<1>. QED BY <1>1, <1>2, <1>3, <1>4

\* Step stores the new state, which only NotConnected needs a reaction to.
LEMMA SupApplyInv == ASSUME IInv, SupApply PROVE IInv'
<1>u. UNCHANGED <<runDone, connVars, epochVars, loop, appVars, trVars>>
  BY Zenon DEF SupApply
<1>1. ConnTypes' /\ EpochTypes' /\ LoopTypes' /\ AppTypes' /\ TransportTypes' /\ AppInv'
      /\ GenOrder' /\ EpochInv' /\ StarterInv' /\ RetryInv' /\ StartInv' /\ OneDriver'
      /\ OneLiveGeneration'
  BY <1>u, KeepConnTypes, KeepEpochTypes, KeepLoopTypes, KeepAppTypes,
      KeepTransportTypes, KeepAppInv, KeepGenOrder, KeepEpochInv, KeepStarterInv,
      KeepRetryInv, KeepStartInv, KeepOneDriver, KeepOneLiveGeneration, Zenon DEF
      connVars, epochVars, appVars, trVars
<1>2. SupTypes'
  BY SMTT(30) DEF SupTypes, SupApply, Target, IdleSup, ConnState, FsmEvent, SupPC
<1>3. SupInv' BY SMTT(30) DEF SupInv, SupTypes, SupApply, IdleSup, connVars, appVars
<1>4. BarrierInv'
  BY Zenon DEF BarrierInv, StateInv, SupApply, Target, Legal, connVars, epochVars,
      trVars
<1>5. StateInv'
  BY SMTT(30) DEF StateInv, SupTypes, SupApply, Fires, Target, Legal, IdleSup, connVars,
      epochVars
<1>. QED BY <1>1, <1>2, <1>3, <1>4, <1>5

\* React to the drop: the fence decides whether a loop is wanted.
LEMMA SupReactInv == ASSUME IInv, SupReact PROVE IInv'
<1>u. UNCHANGED <<state, runDone, connVars, epochVars, loop, appVars, trVars>>
  BY Zenon DEF SupReact
<1>1. ConnTypes' /\ EpochTypes' /\ LoopTypes' /\ AppTypes' /\ TransportTypes' /\ AppInv'
      /\ GenOrder' /\ EpochInv' /\ StarterInv' /\ BarrierInv' /\ RetryInv' /\ StartInv'
      /\ OneDriver' /\ OneLiveGeneration'
  BY <1>u, KeepConnTypes, KeepEpochTypes, KeepLoopTypes, KeepAppTypes,
      KeepTransportTypes, KeepAppInv, KeepGenOrder, KeepEpochInv, KeepStarterInv,
      KeepBarrierInv, KeepRetryInv, KeepStartInv, KeepOneDriver, KeepOneLiveGeneration,
      Zenon DEF connVars, epochVars, appVars, trVars
<1>2. SupTypes'
  BY Zenon DEF SupTypes, ConnTypes, SupPC, SupReact, connVars, epochVars, appVars, trVars
<1>3. SupInv'
  BY SMTT(30) DEF EpochTypes, SupInv, StateInv, SupReact, connVars, epochVars, appVars
<1>4. StateInv' BY SMTT(30) DEF StateInv, SupReact, connVars, epochVars
<1>. QED BY <1>1, <1>2, <1>3, <1>4

\* React starts the reconnect loop of the dropped generation.
LEMMA SupReactSpawnInv == ASSUME IInv, SupReactSpawn PROVE IInv'
<1>u. UNCHANGED <<connVars, epochVars, appVars, trVars>> BY Zenon DEF SupReactSpawn
<1>l. LoopTypes' /\ sup.e \in Gen /\ loop'[sup.e].pc = "barrier"
      /\ loop'[sup.e].e = NoGen /\ \A q \in Gen : q # sup.e => loop'[q] = loop[q]
  BY LoopSpawnFacts, Zenon DEF SupReactSpawn, SupInv
<1>1. ConnTypes' /\ EpochTypes' /\ AppTypes' /\ TransportTypes' /\ GenOrder'
      /\ EpochInv' /\ OneLiveGeneration'
  BY <1>u, KeepConnTypes, KeepEpochTypes, KeepAppTypes, KeepTransportTypes,
      KeepGenOrder, KeepEpochInv, KeepOneLiveGeneration, Zenon DEF connVars,
      epochVars, appVars, trVars
<1>2. SupTypes' BY Zenon DEF SupTypes, SupReactSpawn, SupPC
<1>3. LoopTypes' BY <1>l
<1>4. SupInv'
  BY SMTT(30) DEF SupInv, StateInv, SupReactSpawn, connVars, epochVars, appVars
<1>5. AppInv'
  BY <1>l, Zenon DEF SupInv, AppInv, StateInv, SupReactSpawn, connVars, epochVars,
      appVars, trVars
<1>6. StarterInv'
  BY <1>l, SMTT(30) DEF StarterInv, SupInv, StateInv, SupReactSpawn, epochVars, appVars,
      trVars
<1>7. BarrierInv'
  BY <1>l, Zenon DEF BarrierInv, SupInv, StateInv, GenOrder, SupReactSpawn, connVars,
      epochVars, trVars
<1>8. RetryInv'
  BY <1>l, Zenon DEF RetryInv, SupReactSpawn, connVars, epochVars, trVars
<1>9. StartInv'
  BY <1>l, Zenon DEF StartInv, SupReactSpawn, connVars, epochVars, trVars
<1>10. OneDriver' BY <1>l, Zenon DEF OneDriver
<1>11. StateInv' BY SMTT(30) DEF StateInv, SupReactSpawn
<1>. QED BY <1>1, <1>2, <1>3, <1>4, <1>5, <1>6, <1>7, <1>8, <1>9, <1>10, <1>11

\* React, or evClose, tears the epoch down.
LEMMA SupReactTeardownInv == ASSUME IInv, SupReactTeardown PROVE IInv'
<1>u. UNCHANGED <<connVars, done, startReturned, loop, appVars, trVars>>
  BY Zenon DEF SupReactTeardown
<1>1. ConnTypes' /\ LoopTypes' /\ AppTypes' /\ TransportTypes' /\ GenOrder'
      /\ StarterInv' /\ RetryInv' /\ OneDriver' /\ OneLiveGeneration'
  BY <1>u, KeepConnTypes, KeepLoopTypes, KeepAppTypes, KeepTransportTypes, KeepGenOrder,
      KeepStarterInv, KeepRetryInv, KeepOneDriver, KeepOneLiveGeneration, Zenon DEF
      connVars, appVars, trVars
<1>2. SupTypes'
  BY Zenon DEF SupTypes, SupReactTeardown, IdleSup, ConnState, FsmEvent, SupPC
<1>3. EpochTypes' BY Zenon DEF EpochTypes, SupInv, SupReactTeardown, Teardown
<1>4. SupInv' BY SMTT(30) DEF SupInv, SupReactTeardown, IdleSup, connVars, appVars
<1>5. AppInv'
  BY Zenon DEF SupInv, AppInv, SupReactTeardown, Teardown, connVars, appVars, trVars
<1>6. EpochInv'
  BY Zenon DEF SupInv, GenOrder, EpochInv, SupReactTeardown, Teardown, trVars
<1>7. BarrierInv'
  BY Zenon DEF BarrierInv, SupReactTeardown, Teardown, connVars, trVars
<1>8. StartInv' BY Zenon DEF StartInv, SupReactTeardown, Teardown, connVars, trVars
<1>9. StateInv' BY SMTT(30) DEF StateInv, SupReactTeardown, IdleSup, connVars
<1>. QED BY <1>1, <1>2, <1>3, <1>4, <1>5, <1>6, <1>7, <1>8, <1>9

\* The evClose step latches.
LEMMA SupCloseInv == ASSUME IInv, SupClose PROVE IInv'
<1>u. UNCHANGED <<connVars, done, startReturned, loop, appVars, trVars>>
  BY Zenon DEF SupClose
<1>v. UNCHANGED <<state, lastReacted, events, runDone, upAdmitted, upCommitted>>
  BY Zenon DEF SupClose
<1>w. UNCHANGED <<cur, genSeq, shutdown, closeEpoch, app, start>>
  BY <1>u DEF connVars, appVars, trVars
<1>p. /\ sup.pc = "close" /\ closed' = TRUE /\ sup' = IdleSup
      /\ ended' = ended \cup {closeEpoch}
      /\ torn' = torn \cup {closeEpoch}
      /\ conn' = conn \ {closeEpoch}
  BY Zenon DEF SupClose, Teardown
<1>1. ConnTypes' /\ LoopTypes' /\ AppTypes' /\ TransportTypes' /\ GenOrder'
      /\ StarterInv' /\ RetryInv' /\ OneDriver' /\ OneLiveGeneration'
  BY <1>u, KeepConnTypes, KeepLoopTypes, KeepAppTypes, KeepTransportTypes, KeepGenOrder,
      KeepStarterInv, KeepRetryInv, KeepOneDriver, KeepOneLiveGeneration, Zenon DEF
      connVars, appVars, trVars
<1>2. SupTypes'
  BY <1>v, <1>p, Zenon DEF SupTypes, IdleSup, ConnState, FsmEvent, SupPC
<1>3. EpochTypes'
  BY <1>u, <1>v, <1>p, Zenon DEF EpochTypes, AppTypes, SupInv, AppInv
<1>4. SupInv' BY <1>v, <1>w, <1>p, Zenon DEF SupInv, IdleSup
<1>5. AppInv' BY <1>u, <1>v, <1>w, <1>p, Zenon DEF SupInv, AppInv
<1>6. EpochInv' BY <1>u, <1>v, <1>w, <1>p, Zenon DEF SupInv, AppInv, GenOrder, EpochInv
<1>7. BarrierInv' BY <1>u, <1>v, <1>w, <1>p, Zenon DEF BarrierInv
<1>8. StartInv' BY <1>u, <1>v, <1>w, <1>p, Zenon DEF StartInv
<1>9. StateInv' BY <1>u, <1>v, <1>w, <1>p, Zenon DEF StateInv, IdleSup
<1>. QED BY <1>1, <1>2, <1>3, <1>4, <1>5, <1>6, <1>7, <1>8, <1>9

\* Stop ends the supervisor.
LEMMA SupStopInv == ASSUME IInv, SupStop PROVE IInv'
<1>u. UNCHANGED <<state, lastReacted, sup, connVars, epochVars, loop, start>>
  BY Zenon DEF SupStop
<1>1. ConnTypes' /\ EpochTypes' /\ LoopTypes' /\ GenOrder' /\ EpochInv' /\ BarrierInv'
      /\ RetryInv' /\ StartInv' /\ OneDriver' /\ StateInv' /\ OneLiveGeneration'
  BY <1>u, KeepConnTypes, KeepEpochTypes, KeepLoopTypes, KeepGenOrder, KeepEpochInv,
      KeepBarrierInv, KeepRetryInv, KeepStartInv, KeepOneDriver, KeepStateInv,
      KeepOneLiveGeneration, Zenon DEF connVars, epochVars
<1>2. SupTypes' BY SMTT(30) DEF SupTypes, SupStop
<1>3. AppTypes' BY Zenon DEF AppTypes, SupStop, AppPC
<1>4. TransportTypes' BY Zenon DEF TransportTypes, SupStop
<1>5. SupInv' BY SMTT(30) DEF SupInv, SupStop
<1>6. AppInv' BY SMTT(30) DEF AppInv, SupStop, connVars, epochVars
<1>7. StarterInv' BY Zenon DEF StarterInv, SupStop, epochVars
<1>. QED BY <1>1, <1>2, <1>3, <1>4, <1>5, <1>6, <1>7

\* Epoch.join ends.
LEMMA JoinInv == ASSUME NEW g \in Gen, IInv, Join(g) PROVE IInv'
<1>u. UNCHANGED <<supVars, connVars, ended, torn, startReturned, upCommitted, loop,
                  appVars, trVars>>
  BY Zenon DEF Join
<1>1. SupTypes' /\ ConnTypes' /\ LoopTypes' /\ AppTypes' /\ TransportTypes' /\ SupInv'
      /\ GenOrder' /\ StarterInv' /\ BarrierInv' /\ StartInv' /\ OneDriver' /\ StateInv'
  BY <1>u, KeepSupTypes, KeepConnTypes, KeepLoopTypes, KeepAppTypes, KeepTransportTypes,
      KeepSupInv, KeepGenOrder, KeepStarterInv, KeepBarrierInv, KeepStartInv,
      KeepOneDriver, KeepStateInv, Zenon DEF supVars, connVars, appVars, trVars
<1>2. EpochTypes' BY Zenon DEF EpochTypes, Join
<1>3. AppInv' BY Zenon DEF AppInv, Join, supVars, connVars, appVars, trVars
<1>4. EpochInv' BY Zenon DEF EpochInv, Join, trVars
<1>5. RetryInv' BY Zenon DEF RetryInv, Join, connVars, trVars
<1>6. OneLiveGeneration' BY Zenon DEF OneLiveGeneration, Join, connVars, trVars
<1>. QED BY <1>1, <1>2, <1>3, <1>4, <1>5, <1>6

-----------------------------------------------------------------------------
(* A reconnect loop, up to the return of Start. *)

\* The caller of a Start stays with it until the start barrier is open.
LEMMA StarterKept ==
  ASSUME StarterInv, UNCHANGED <<app, start>>, startReturned \subseteq startReturned',
         \A q \in Gen : Starting(q) =>
           loop[q].e \in startReturned' \/ (Starting(q)' /\ loop'[q].e = loop[q].e)
  PROVE  StarterInv'
BY ZenonT(30) DEF StarterInv

\* ConnectLoop passes its barrier, the join and the start barrier, or is fenced.
LEMMA LoopBarrierInv == ASSUME NEW p \in Gen, IInv, LoopBarrier(p) PROVE IInv'
<1>u. UNCHANGED <<supVars, connVars, epochVars, appVars, trVars>>
  BY Zenon DEF LoopBarrier
<1>v. UNCHANGED <<ended, torn, done, startReturned, conn, upAdmitted, upCommitted>>
  BY <1>u, Zenon DEF epochVars
<1>w. UNCHANGED <<state, lastReacted, sup, runDone, cur, genSeq, shutdown, closeEpoch, app,
                  start>>
  BY <1>u, Zenon DEF supVars, connVars, appVars, trVars
<1>p. loop[p].pc = "barrier" /\ p \in done BY Zenon DEF LoopBarrier, Joined
<1>l. /\ LoopTypes'
      /\ (p \in startReturned /\ loop'[p].pc = "sleep") \/ loop'[p].pc = "ended"
      /\ loop'[p].e = loop[p].e /\ \A q \in Gen : q # p => loop'[q] = loop[q]
  <2>1. (p \in startReturned /\ LoopGoto(p, "sleep")) \/ LoopGoto(p, "ended")
    BY Zenon DEF LoopBarrier, BarrierOpen
  <2>2. "sleep" \in LoopPC /\ "ended" \in LoopPC BY DEF LoopPC
  <2>. QED BY <2>1, <2>2, LoopGotoFacts, Zenon
<1>1. SupTypes' /\ ConnTypes' /\ EpochTypes' /\ AppTypes' /\ TransportTypes' /\ SupInv'
      /\ GenOrder' /\ EpochInv' /\ OneLiveGeneration'
  BY <1>u, KeepSupTypes, KeepConnTypes, KeepEpochTypes, KeepAppTypes,
      KeepTransportTypes, KeepSupInv, KeepGenOrder, KeepEpochInv, KeepOneLiveGeneration,
      Zenon DEF supVars, connVars, epochVars, appVars, trVars
<1>3. AppInv' BY <1>v, <1>w, <1>p, <1>l, ZenonT(30) DEF AppInv
<1>4. StarterInv' BY <1>v, <1>w, <1>p, <1>l, StarterKept, ZenonT(30)
<1>5. BarrierInv' BY <1>v, <1>w, <1>p, <1>l, ZenonT(30) DEF BarrierInv
<1>6. RetryInv' BY <1>v, <1>w, <1>p, <1>l, ZenonT(30) DEF RetryInv, BarrierInv
<1>7. StartInv' BY <1>v, <1>w, <1>p, <1>l, ZenonT(30) DEF StartInv
<1>8. OneDriver' BY <1>p, <1>l, ZenonT(30) DEF OneDriver, BarrierInv, StartInv
<1>9. StateInv' BY <1>v, <1>w, <1>p, <1>l, ZenonT(30) DEF StateInv, BarrierInv
<1>. QED BY <1>1, <1>l, <1>3, <1>4, <1>5, <1>6, <1>7, <1>8, <1>9, Zenon

\* ConnectLoop has slept its backoff.
LEMMA LoopSleepInv == ASSUME NEW p \in Gen, IInv, LoopSleep(p) PROVE IInv'
<1>u. UNCHANGED <<supVars, connVars, epochVars, appVars, trVars>>
  BY Zenon DEF LoopSleep
<1>v. UNCHANGED <<ended, torn, done, startReturned, conn, upAdmitted, upCommitted>>
  BY <1>u, Zenon DEF epochVars
<1>w. UNCHANGED <<state, lastReacted, sup, runDone, cur, genSeq, shutdown, closeEpoch, app,
                  start>>
  BY <1>u, Zenon DEF supVars, connVars, appVars, trVars
<1>p. loop[p].pc = "sleep" BY Zenon DEF LoopSleep
<1>l. /\ LoopTypes' /\ (loop'[p].pc = "fence" \/ loop'[p].pc = "ended")
      /\ loop'[p].e = loop[p].e /\ \A q \in Gen : q # p => loop'[q] = loop[q]
  <2>1. LoopGoto(p, "fence") \/ LoopGoto(p, "ended") BY Zenon DEF LoopSleep
  <2>2. "fence" \in LoopPC /\ "ended" \in LoopPC BY DEF LoopPC
  <2>. QED BY <2>1, <2>2, LoopGotoFacts, Zenon
<1>1. SupTypes' /\ ConnTypes' /\ EpochTypes' /\ AppTypes' /\ TransportTypes' /\ SupInv'
      /\ GenOrder' /\ EpochInv' /\ OneLiveGeneration'
  BY <1>u, KeepSupTypes, KeepConnTypes, KeepEpochTypes, KeepAppTypes,
      KeepTransportTypes, KeepSupInv, KeepGenOrder, KeepEpochInv, KeepOneLiveGeneration,
      Zenon DEF supVars, connVars, epochVars, appVars, trVars
<1>3. AppInv' BY <1>v, <1>w, <1>p, <1>l, ZenonT(30) DEF AppInv
<1>4. StarterInv' BY <1>v, <1>w, <1>p, <1>l, StarterKept, ZenonT(30)
<1>5. BarrierInv' BY <1>v, <1>w, <1>p, <1>l, ZenonT(30) DEF BarrierInv
<1>6. RetryInv' BY <1>v, <1>w, <1>p, <1>l, ZenonT(30) DEF RetryInv
<1>7. StartInv' BY <1>v, <1>w, <1>p, <1>l, ZenonT(30) DEF StartInv
<1>8. OneDriver' BY <1>p, <1>l, ZenonT(30) DEF OneDriver
<1>9. StateInv' BY <1>v, <1>w, <1>p, <1>l, ZenonT(30) DEF StateInv
<1>. QED BY <1>1, <1>l, <1>3, <1>4, <1>5, <1>6, <1>7, <1>8, <1>9, Zenon

\* ConnectLoop checks the fence and mints the next generation.
LEMMA LoopFenceInv == ASSUME NEW p \in Gen, IInv, LoopFence(p) PROVE IInv'
<1>u. UNCHANGED <<supVars, cur, epochVars, appVars, trVars>> BY Zenon DEF LoopFence
<1>l. LoopTypes' /\ ((loop'[p].pc = "publish" /\ loop'[p].e = genSeq + 1 /\ genSeq <
     MaxGen /\ genSeq' = genSeq + 1) \/ (loop'[p].pc = "ended" /\ loop'[p].e = loop[p].e
     /\ genSeq' = genSeq)) /\ \A q \in Gen : q # p => loop'[q] = loop[q]
  <2>1. genSeq < MaxGen => genSeq + 1 \in Gen BY BoundsAssumption DEF Gen, ConnTypes
  <2>2. CASE Fenced(p) /\ LoopGoto(p, "ended") /\ UNCHANGED genSeq
    BY <2>2, LoopGotoFacts DEF LoopPC
  <2>3. CASE genSeq < MaxGen /\ genSeq' = genSeq + 1 /\ LoopTo(p, "publish", genSeq + 1)
    <3>1. genSeq' \in Gen /\ LoopTo(p, "publish", genSeq') BY <2>1, <2>3
    <3>2. "publish" \in LoopPC BY DEF LoopPC
    <3>3. LoopTypes' /\ loop'[p].pc = "publish" /\ loop'[p].e = genSeq'
          /\ \A q \in Gen : q # p => loop'[q] = loop[q]
      BY <3>1, <3>2, LoopToFacts
    <3>. QED BY <2>3, <3>3
  <2>. QED BY <2>2, <2>3 DEF LoopFence
<1>1. SupTypes' /\ EpochTypes' /\ AppTypes' /\ TransportTypes' /\ SupInv' /\ EpochInv'
      /\ OneLiveGeneration'
  BY <1>u, KeepSupTypes, KeepEpochTypes, KeepAppTypes, KeepTransportTypes, KeepSupInv,
      KeepEpochInv, KeepOneLiveGeneration, Zenon DEF supVars, epochVars, appVars,
      trVars
<1>2. ConnTypes' BY BoundsAssumption, SMTT(30) DEF ConnTypes, LoopFence
<1>3. LoopTypes' BY <1>l
<1>4. AppInv' BY SMTT(30) DEF AppInv, LoopFence, supVars, epochVars, appVars
<1>5. GenOrder' BY SMTT(30) DEF GenOrder, ConnTypes, LoopFence, trVars
<1>6. StarterInv'
  BY <1>l, SMTT(30) DEF StarterInv, LoopFence, epochVars, appVars, trVars
<1>7. BarrierInv' BY <1>l, SMTT(30) DEF BarrierInv, LoopFence, epochVars, trVars
<1>8. RetryInv'
  BY <1>l, BoundsAssumption, SMTT(30) DEF RetryInv, GenOrder, ConnTypes, Gen, LoopFence,
      epochVars, trVars
<1>9. StartInv' BY <1>l, SMTT(30) DEF StartInv, LoopFence, epochVars, trVars
<1>10. OneDriver' BY <1>l, SMTT(30) DEF OneDriver, LoopFence
<1>11. StateInv' BY SMTT(30) DEF StateInv, LoopFence, supVars
<1>. QED BY <1>1, <1>2, <1>3, <1>4, <1>5, <1>6, <1>7, <1>8, <1>9, <1>10, <1>11, Zenon

\* ConnectLoop publishes it under publishMu, unless a Close came first.
LEMMA LoopPublishInv == ASSUME NEW p \in Gen, IInv, LoopPublish(p) PROVE IInv'
<1>u. UNCHANGED <<supVars, epochVars, appVars>> BY Zenon DEF LoopPublish
<1>l. LoopTypes' /\ ((loop'[p].pc = "start" /\ cur' = loop[p].e /\ start' = [start
     EXCEPT ![loop[p].e] = "running"]) \/ (loop'[p].pc = "ended" /\ cur' = cur /\ start'
     = start)) /\ loop'[p].e = loop[p].e /\ \A q \in Gen : q # p => loop'[q] = loop[q]
  <2>1. CASE PublishFenced(p) BY <2>1, LoopGotoFacts DEF LoopPublish, LoopPC
  <2>2. CASE ~PublishFenced(p)
    <3>1. LoopGoto(p, "start") /\ cur' = loop[p].e
          /\ start' = [start EXCEPT ![loop[p].e] = "running"]
      BY <2>2 DEF LoopPublish
    <3>2. "start" \in LoopPC BY DEF LoopPC
    <3>3. LoopTypes' /\ loop'[p].pc = "start" /\ loop'[p].e = loop[p].e
          /\ \A q \in Gen : q # p => loop'[q] = loop[q]
      BY <3>1, <3>2, LoopGotoFacts
    <3>. QED BY <3>1, <3>3
  <2>. QED BY <2>1, <2>2
<1>1. SupTypes' /\ EpochTypes' /\ AppTypes'
  BY <1>u, KeepSupTypes, KeepEpochTypes, KeepAppTypes, ZenonT(30) DEF supVars, epochVars,
      appVars
<1>v. UNCHANGED <<genSeq, shutdown, reconnectGen, cancelled, closeEpoch, up, t7, pend>>
  BY Zenon DEF LoopPublish
<1>w. UNCHANGED <<state, lastReacted, events, sup, runDone, ended, torn, done, conn,
                  startReturned, upAdmitted, upCommitted, app>>
  BY <1>u, Zenon DEF supVars, epochVars, appVars
<1>p. loop[p].pc = "publish" /\ (cur' = cur \/ ~shutdown)
  BY Zenon DEF LoopPublish, PublishFenced, Fenced
<1>2. ConnTypes' BY <1>v, <1>l, Zenon DEF ConnTypes, LoopTypes
<1>4. TransportTypes' BY <1>v, <1>l, ZenonT(30) DEF TransportTypes
<1>5. SupInv' BY <1>w, <1>p, <1>l, ZenonT(30) DEF SupInv, EpochInv, RetryInv, StateInv
<1>6. AppInv' BY <1>v, <1>w, <1>p, <1>l, ZenonT(30) DEF AppInv
<1>7. GenOrder' BY <1>v, <1>p, <1>l, ZenonT(30) DEF TransportTypes, GenOrder, RetryInv
<1>8. EpochInv' BY <1>w, <1>p, <1>l, SMTT(30) DEF TransportTypes, EpochInv, RetryInv
<1>9. StarterInv' BY <1>w, <1>p, <1>l, SMTT(30) DEF TransportTypes, AppInv, StarterInv
<1>10. BarrierInv' BY <1>w, <1>p, <1>l, ZenonT(30) DEF BarrierInv, TransportTypes
<1>11. RetryInv' BY <1>v, <1>w, <1>p, <1>l, ZenonT(30) DEF RetryInv, OneDriver
<1>12. StartInv' BY <1>w, <1>p, <1>l, SMTT(30) DEF StartInv, RetryInv, EpochInv
<1>13. OneDriver' BY <1>p, <1>l, ZenonT(30) DEF OneDriver
<1>14. StateInv' BY <1>w, <1>p, <1>l, ZenonT(30) DEF StateInv
<1>15. OneLiveGeneration'
  BY <1>w, <1>p, <1>l, SMTT(30) DEF TransportTypes, RetryInv, OneLiveGeneration
<1>. QED BY <1>1, <1>2, <1>l, <1>4, <1>5, <1>6, <1>7, <1>8, <1>9, <1>10, <1>11, <1>12,
      <1>13, <1>14, <1>15, Zenon

\* Start returned nil.
LEMMA LoopStartOkInv == ASSUME NEW p \in Gen, IInv, LoopStartOk(p) PROVE IInv'
<1>u. UNCHANGED <<supVars, connVars, epochVars, appVars, trVars>>
  BY Zenon DEF LoopStartOk
<1>v. UNCHANGED <<ended, torn, done, startReturned, conn, upAdmitted, upCommitted>>
  BY <1>u, Zenon DEF epochVars
<1>w. UNCHANGED <<state, lastReacted, sup, runDone, cur, genSeq, shutdown, closeEpoch, app,
                  start>>
  BY <1>u, Zenon DEF supVars, connVars, appVars, trVars
<1>p. loop[p].pc = "start" /\ start[loop[p].e] = "ok" BY Zenon DEF LoopStartOk
<1>l. /\ LoopTypes' /\ loop'[p].pc = "signal" /\ loop'[p].e = loop[p].e
      /\ \A q \in Gen : q # p => loop'[q] = loop[q]
  <2>1. LoopGoto(p, "signal") BY Zenon DEF LoopStartOk
  <2>2. "signal" \in LoopPC BY DEF LoopPC
  <2>. QED BY <2>1, <2>2, LoopGotoFacts, Zenon
<1>1. SupTypes' /\ ConnTypes' /\ EpochTypes' /\ AppTypes' /\ TransportTypes' /\ SupInv'
      /\ GenOrder' /\ EpochInv' /\ OneLiveGeneration'
  BY <1>u, KeepSupTypes, KeepConnTypes, KeepEpochTypes, KeepAppTypes,
      KeepTransportTypes, KeepSupInv, KeepGenOrder, KeepEpochInv, KeepOneLiveGeneration,
      Zenon DEF supVars, connVars, epochVars, appVars, trVars
<1>3. AppInv' BY <1>v, <1>w, <1>p, <1>l, ZenonT(30) DEF AppInv
<1>4. StarterInv' BY <1>v, <1>w, <1>p, <1>l, StarterKept, ZenonT(30)
<1>5. BarrierInv' BY <1>v, <1>w, <1>p, <1>l, ZenonT(30) DEF BarrierInv
<1>6. RetryInv' BY <1>v, <1>w, <1>p, <1>l, ZenonT(30) DEF RetryInv
<1>7. StartInv' BY <1>v, <1>w, <1>p, <1>l, ZenonT(30) DEF StartInv
<1>8. OneDriver' BY <1>p, <1>l, ZenonT(30) DEF OneDriver
<1>9. StateInv' BY <1>v, <1>w, <1>p, <1>l, ZenonT(30) DEF StateInv, EpochTypes
<1>. QED BY <1>1, <1>l, <1>3, <1>4, <1>5, <1>6, <1>7, <1>8, <1>9, Zenon

-----------------------------------------------------------------------------
(* Once Start has returned. *)

\* ConnectLoop opens the start barrier and ends.
LEMMA LoopSignalInv == ASSUME NEW p \in Gen, IInv, LoopSignal(p) PROVE IInv'
<1>u. UNCHANGED <<supVars, connVars, torn, done, upCommitted, appVars, trVars>>
  BY Zenon DEF LoopSignal, ReleaseBarrier
<1>t. UNCHANGED <<torn, done, upCommitted>> BY <1>u, Zenon
<1>v. UNCHANGED <<ended, conn, upAdmitted>> BY Zenon DEF LoopSignal, ReleaseBarrier
<1>w. UNCHANGED <<state, lastReacted, sup, runDone, cur, genSeq, shutdown, closeEpoch, app,
                  start>>
  BY <1>u, Zenon DEF supVars, connVars, appVars, trVars
<1>p. loop[p].pc = "signal" /\ startReturned' = startReturned \cup {loop[p].e}
  BY Zenon DEF LoopSignal, ReleaseBarrier
<1>l. /\ LoopTypes' /\ loop'[p].pc = "ended" /\ loop'[p].e = loop[p].e
      /\ \A q \in Gen : q # p => loop'[q] = loop[q]
  <2>1. LoopGoto(p, "ended") BY Zenon DEF LoopSignal
  <2>2. "ended" \in LoopPC BY DEF LoopPC
  <2>. QED BY <2>1, <2>2, LoopGotoFacts, Zenon
<1>1. SupTypes' /\ ConnTypes' /\ AppTypes' /\ TransportTypes' /\ SupInv' /\ GenOrder'
      /\ OneLiveGeneration'
  BY <1>u, KeepSupTypes, KeepConnTypes, KeepAppTypes, KeepTransportTypes, KeepSupInv,
      KeepGenOrder, KeepOneLiveGeneration, Zenon DEF supVars, connVars, appVars,
      trVars
<1>2. EpochTypes' BY <1>t, <1>v, <1>p, SMTT(30) DEF EpochTypes, LoopTypes, StartInv
<1>4. AppInv' BY <1>t, <1>v, <1>w, <1>p, <1>l, ZenonT(30) DEF AppInv, StartInv, LoopTypes
<1>5. EpochInv' BY <1>t, <1>v, <1>w, <1>p, ZenonT(30) DEF EpochInv, StartInv
<1>6. StarterInv' BY <1>w, <1>p, <1>l, StarterKept, ZenonT(30)
<1>7. BarrierInv' BY <1>t, <1>v, <1>w, <1>p, <1>l, ZenonT(30) DEF BarrierInv
<1>8. RetryInv' BY <1>t, <1>w, <1>p, <1>l, ZenonT(30) DEF RetryInv
<1>9. StartInv' BY <1>t, <1>w, <1>p, <1>l, ZenonT(30) DEF StartInv, OneDriver, LoopTypes
<1>10. OneDriver' BY <1>p, <1>l, ZenonT(30) DEF OneDriver
<1>11. StateInv' BY <1>t, <1>w, <1>p, <1>l, ZenonT(30) DEF StateInv, EpochTypes
<1>. QED BY <1>1, <1>2, <1>l, <1>4, <1>5, <1>6, <1>7, <1>8, <1>9, <1>10, <1>11, Zenon

\* Start returned an error: connectLoopStartFailure tears down.
LEMMA LoopStartErrInv == ASSUME NEW p \in Gen, IInv, LoopStartErr(p) PROVE IInv'
<1>u. UNCHANGED <<supVars, connVars, done, appVars, trVars>> BY Zenon DEF LoopStartErr
<1>t. UNCHANGED <<done, startReturned, upAdmitted, upCommitted>> BY Zenon DEF LoopStartErr
<1>w. UNCHANGED <<state, lastReacted, sup, runDone, cur, genSeq, shutdown, closeEpoch, app,
                  start>>
  BY <1>u, Zenon DEF supVars, connVars, appVars, trVars
<1>d. /\ ended' = ended \cup {loop[p].e} /\ torn' = torn \cup {loop[p].e}
      /\ conn' = conn \ {loop[p].e}
  BY Zenon DEF LoopStartErr, Teardown
<1>p. loop[p].pc = "start" /\ start[loop[p].e] = "err" BY Zenon DEF LoopStartErr
<1>e. loop[p].e = cur /\ cur \in Gen BY <1>p DEF StartInv, ConnTypes
<1>l. LoopTypes' /\ loop'[p].pc = "failwait" /\ loop'[p].e = loop[p].e
      /\ \A q \in Gen : q # p => loop'[q] = loop[q]
  <2>1. LoopGoto(p, "failwait") BY Zenon DEF LoopStartErr
  <2>2. "failwait" \in LoopPC BY DEF LoopPC
  <2>. QED BY <2>1, <2>2, LoopGotoFacts, Zenon
<1>1. SupTypes' /\ ConnTypes' /\ AppTypes' /\ TransportTypes' /\ GenOrder'
      /\ OneLiveGeneration'
  BY <1>u, KeepSupTypes, KeepConnTypes, KeepAppTypes, KeepTransportTypes, KeepGenOrder,
      KeepOneLiveGeneration, Zenon DEF supVars, connVars, appVars, trVars
<1>2. EpochTypes' BY <1>t, <1>d, <1>e, ZenonT(30) DEF EpochTypes
<1>4. SupInv'
  BY SMTT(30) DEF SupInv, LoopStartErr, Teardown, supVars, connVars, appVars
<1>5. AppInv' BY <1>t, <1>w, <1>d, <1>p, <1>e, ZenonT(30) DEF AppInv
<1>6. EpochInv' BY <1>t, <1>w, <1>d, <1>e, ZenonT(30) DEF EpochInv, GenOrder
<1>7. StarterInv' BY <1>t, <1>w, <1>p, <1>l, StarterKept, ZenonT(30)
<1>8. BarrierInv' BY <1>t, <1>w, <1>d, <1>p, <1>l, ZenonT(30) DEF BarrierInv
<1>9. RetryInv' BY <1>t, <1>w, <1>p, <1>l, ZenonT(30) DEF RetryInv
<1>10. StartInv' BY <1>t, <1>w, <1>d, <1>p, <1>l, ZenonT(30) DEF StartInv
<1>11. OneDriver' BY <1>p, <1>l, ZenonT(30) DEF OneDriver
<1>12. StateInv' BY <1>t, <1>w, <1>d, <1>p, <1>e, <1>l, ZenonT(30) DEF StateInv, EpochTypes
<1>. QED BY <1>1, <1>2, <1>l, <1>4, <1>5, <1>6, <1>7, <1>8, <1>9, <1>10, <1>11, <1>12, Zenon

\* ConnectLoopStartFailure has joined: retry, or hand a link that was up to react.
LEMMA LoopFailedInv == ASSUME NEW p \in Gen, IInv, LoopFailed(p) PROVE IInv'
<1>u. UNCHANGED <<supVars, connVars, torn, done, upCommitted, appVars, trVars>>
  BY Zenon DEF LoopFailed
<1>t. UNCHANGED <<torn, done, upCommitted>> BY <1>u, Zenon
<1>v. UNCHANGED <<ended, conn, upAdmitted>> BY Zenon DEF LoopFailed
<1>w. UNCHANGED <<state, lastReacted, sup, runDone, cur, genSeq, shutdown, closeEpoch, app,
                  start>>
  BY <1>u, Zenon DEF supVars, connVars, appVars, trVars
<1>p. loop[p].pc = "failwait" /\ loop[p].e \in done BY Zenon DEF LoopFailed, Joined
<1>l. /\ LoopTypes'
      /\ \/ /\ loop[p].e \in upCommitted /\ loop'[p].pc = "release"
            /\ startReturned' = startReturned
         \/ /\ loop[p].e \notin upCommitted /\ loop'[p].pc = "sleep"
            /\ startReturned' = startReturned \cup {loop[p].e}
      /\ loop'[p].e = loop[p].e
      /\ \A q \in Gen : q # p => loop'[q] = loop[q]
  BY LoopGotoFacts, SMTT(30) DEF LoopFailed, CameUp, ReleaseBarrier, LoopPC
<1>1. SupTypes' /\ ConnTypes' /\ AppTypes' /\ TransportTypes' /\ SupInv' /\ GenOrder'
      /\ OneLiveGeneration'
  BY <1>u, KeepSupTypes, KeepConnTypes, KeepAppTypes, KeepTransportTypes, KeepSupInv,
      KeepGenOrder, KeepOneLiveGeneration, Zenon DEF supVars, connVars, appVars,
      trVars
<1>2. EpochTypes' BY <1>t, <1>v, <1>p, <1>l, ZenonT(30) DEF EpochTypes
<1>4. AppInv' BY <1>t, <1>v, <1>w, <1>p, <1>l, ZenonT(30) DEF AppInv
<1>5. EpochInv' BY <1>t, <1>v, <1>w, <1>p, <1>l, ZenonT(30) DEF EpochInv, StartInv
<1>6. StarterInv' BY <1>w, <1>p, <1>l, StarterKept, ZenonT(30)
<1>7. BarrierInv' BY <1>t, <1>v, <1>w, <1>p, <1>l, ZenonT(30) DEF BarrierInv, StartInv
<1>8. RetryInv' BY <1>t, <1>w, <1>p, <1>l, ZenonT(30) DEF RetryInv, StartInv
<1>9. StartInv' BY <1>t, <1>w, <1>p, <1>l, ZenonT(30) DEF StartInv, OneDriver
<1>10. OneDriver' BY <1>p, <1>l, ZenonT(30) DEF OneDriver
<1>11. StateInv' BY <1>t, <1>w, <1>p, <1>l, ZenonT(30) DEF StateInv, StartInv, EpochTypes
<1>. QED BY <1>1, <1>2, <1>l, <1>4, <1>5, <1>6, <1>7, <1>8, <1>9, <1>10, <1>11, Zenon

\* ConnectLoopStartFailure opens the start barrier.
LEMMA LoopReleaseInv == ASSUME NEW p \in Gen, IInv, LoopRelease(p) PROVE IInv'
<1>u. UNCHANGED <<supVars, connVars, torn, done, upCommitted, appVars, trVars>>
  BY Zenon DEF LoopRelease, ReleaseBarrier
<1>t. UNCHANGED <<torn, done, upCommitted>> BY <1>u, Zenon
<1>v. UNCHANGED <<ended, conn, upAdmitted>> BY Zenon DEF LoopRelease, ReleaseBarrier
<1>w. UNCHANGED <<state, lastReacted, sup, runDone, cur, genSeq, shutdown, closeEpoch, app,
                  start>>
  BY <1>u, Zenon DEF supVars, connVars, appVars, trVars
<1>p. loop[p].pc = "release" /\ startReturned' = startReturned \cup {loop[p].e}
  BY Zenon DEF LoopRelease, ReleaseBarrier
<1>l. /\ LoopTypes' /\ loop'[p].pc = "handoff" /\ loop'[p].e = loop[p].e
      /\ \A q \in Gen : q # p => loop'[q] = loop[q]
  <2>1. LoopGoto(p, "handoff") BY Zenon DEF LoopRelease
  <2>2. "handoff" \in LoopPC BY DEF LoopPC
  <2>. QED BY <2>1, <2>2, LoopGotoFacts, Zenon
<1>1. SupTypes' /\ ConnTypes' /\ AppTypes' /\ TransportTypes' /\ SupInv' /\ GenOrder'
      /\ OneLiveGeneration'
  BY <1>u, KeepSupTypes, KeepConnTypes, KeepAppTypes, KeepTransportTypes, KeepSupInv,
      KeepGenOrder, KeepOneLiveGeneration, Zenon DEF supVars, connVars, appVars,
      trVars
<1>2. EpochTypes' BY <1>t, <1>v, <1>p, SMTT(30) DEF EpochTypes, LoopTypes, StartInv
<1>4. AppInv' BY <1>t, <1>v, <1>w, <1>p, <1>l, ZenonT(30) DEF AppInv, StartInv, LoopTypes
<1>5. EpochInv' BY <1>t, <1>v, <1>w, <1>p, ZenonT(30) DEF EpochInv, StartInv
<1>6. StarterInv' BY <1>w, <1>p, <1>l, StarterKept, ZenonT(30)
<1>7. BarrierInv' BY <1>t, <1>v, <1>w, <1>p, <1>l, ZenonT(30) DEF BarrierInv
<1>8. RetryInv' BY <1>t, <1>w, <1>p, <1>l, ZenonT(30) DEF RetryInv
<1>9. StartInv' BY <1>t, <1>w, <1>p, <1>l, SMTT(30) DEF StartInv, OneDriver, LoopTypes
<1>10. OneDriver' BY <1>p, <1>l, ZenonT(30) DEF OneDriver
<1>11. StateInv' BY <1>t, <1>w, <1>p, <1>l, ZenonT(30) DEF StateInv, EpochTypes
<1>. QED BY <1>1, <1>2, <1>l, <1>4, <1>5, <1>6, <1>7, <1>8, <1>9, <1>10, <1>11, Zenon

\* ConnectLoopStartFailure decides whether the drop is still to be reported.
LEMMA LoopHandoffInv == ASSUME NEW p \in Gen, IInv, LoopHandoff(p) PROVE IInv'
<1>u. UNCHANGED <<supVars, connVars, epochVars, appVars, trVars>>
  BY Zenon DEF LoopHandoff
<1>v. UNCHANGED <<ended, torn, done, startReturned, conn, upAdmitted, upCommitted>>
  BY <1>u, Zenon DEF epochVars
<1>w. UNCHANGED <<state, lastReacted, sup, runDone, cur, genSeq, shutdown, closeEpoch, app,
                  start>>
  BY <1>u, Zenon DEF supVars, connVars, appVars, trVars
<1>p. loop[p].pc = "handoff" BY Zenon DEF LoopHandoff
<1>l. /\ LoopTypes' /\ (loop'[p].pc = "inject" \/ loop'[p].pc = "ended")
      /\ loop'[p].e = loop[p].e /\ \A q \in Gen : q # p => loop'[q] = loop[q]
  <2>1. LoopGoto(p, "inject") \/ LoopGoto(p, "ended") BY Zenon DEF LoopHandoff
  <2>2. "inject" \in LoopPC /\ "ended" \in LoopPC BY DEF LoopPC
  <2>. QED BY <2>1, <2>2, LoopGotoFacts, Zenon
<1>1. SupTypes' /\ ConnTypes' /\ EpochTypes' /\ AppTypes' /\ TransportTypes' /\ SupInv'
      /\ GenOrder' /\ EpochInv' /\ OneLiveGeneration'
  BY <1>u, KeepSupTypes, KeepConnTypes, KeepEpochTypes, KeepAppTypes,
      KeepTransportTypes, KeepSupInv, KeepGenOrder, KeepEpochInv, KeepOneLiveGeneration,
      Zenon DEF supVars, connVars, epochVars, appVars, trVars
<1>3. AppInv' BY <1>v, <1>w, <1>p, <1>l, ZenonT(30) DEF AppInv
<1>4. StarterInv' BY <1>v, <1>w, <1>p, <1>l, StarterKept, ZenonT(30)
<1>5. BarrierInv' BY <1>v, <1>w, <1>p, <1>l, ZenonT(30) DEF BarrierInv
<1>6. RetryInv' BY <1>v, <1>w, <1>p, <1>l, ZenonT(30) DEF RetryInv
<1>7. StartInv' BY <1>v, <1>w, <1>p, <1>l, ZenonT(30) DEF StartInv
<1>8. OneDriver' BY <1>p, <1>l, ZenonT(30) DEF OneDriver
<1>9. StateInv' BY <1>v, <1>w, <1>p, <1>l, ZenonT(30) DEF StateInv, EpochTypes
<1>. QED BY <1>1, <1>l, <1>3, <1>4, <1>5, <1>6, <1>7, <1>8, <1>9, Zenon

-----------------------------------------------------------------------------
(* Open and its rollback. *)

\* Open takes lifeMu, bumps the fence and clears shutdown.
LEMMA OpenBeginInv == ASSUME IInv, OpenBegin PROVE IInv'
<1>u. UNCHANGED <<supVars, cur, genSeq, epochVars, loop, trVars>>
  BY Zenon DEF OpenBegin
<1>1. SupTypes' /\ EpochTypes' /\ LoopTypes' /\ TransportTypes' /\ GenOrder'
      /\ EpochInv' /\ BarrierInv' /\ RetryInv' /\ StartInv' /\ OneDriver' /\ StateInv'
      /\ OneLiveGeneration'
  BY <1>u, KeepSupTypes, KeepEpochTypes, KeepLoopTypes, KeepTransportTypes,
      KeepGenOrder, KeepEpochInv, KeepBarrierInv, KeepRetryInv, KeepStartInv,
      KeepOneDriver, KeepStateInv, KeepOneLiveGeneration, Zenon DEF supVars,
      epochVars, trVars
<1>2. ConnTypes'
  <2>1. reconnectGen' \in Nat BY DEF ConnTypes, OpenBegin
  <2>. QED BY <2>1, Zenon DEF ConnTypes, OpenBegin
<1>3. AppTypes'
  <2>1. opens' \in 0 .. MaxOpens BY BoundsAssumption, SMT DEF AppTypes, OpenBegin
  <2>2. app' \in [pc : AppPC, e : Gen \cup {NoGen}, pin : Gen \cup {NoGen}]
    BY SMT DEF AppTypes, AppPC, OpenBegin
  <2>3. abort' \in {"none", "armed", "fired"} BY Zenon DEF OpenBegin
  <2>. QED BY <2>1, <2>2, <2>3, Zenon DEF AppTypes, OpenBegin
<1>4. SupInv' BY Zenon DEF SupInv, OpenBegin, supVars, epochVars
<1>5. AppInv' BY SMTT(30) DEF SupInv, AppInv, OpenBegin, supVars, epochVars
<1>6. StarterInv' BY Zenon DEF StarterInv, OpenBegin, epochVars, trVars
<1>. QED BY <1>1, <1>2, <1>3, <1>4, <1>5, <1>6

\* Open publishes its first generation.
LEMMA OpenPublishInv == ASSUME IInv, OpenPublish PROVE IInv'
<1>u. UNCHANGED <<epochVars, loop>> BY Zenon DEF OpenPublish
<1>g. cur' \in Gen /\ cur' = genSeq' /\ genSeq' \in 0 .. MaxGen /\ start[cur'] = "no" /\
     start' = [start EXCEPT ![cur'] = "running"] /\ app' = [app EXCEPT !.pc =
     "open_start", !.e = cur']
  <2>1. genSeq + 1 \in Gen BY BoundsAssumption DEF AppInv, ConnTypes, OpenPublish, Gen
  <2>2. start[genSeq + 1] = "no"
    BY <2>1, BoundsAssumption DEF GenOrder, ConnTypes, Gen
  <2>. QED BY <2>1, <2>2, BoundsAssumption DEF OpenPublish, ConnTypes, Gen
<1>1. EpochTypes' /\ LoopTypes' /\ OneDriver'
  BY <1>u, KeepEpochTypes, KeepLoopTypes, KeepOneDriver, Zenon DEF epochVars
<1>2. SupTypes'
  <2>1. <<>> \in Seq(FsmCommand) OBVIOUS
  <2>. QED BY Zenon, <2>1 DEF SupTypes, OpenPublish, IdleSup, SupPC, ConnState, FsmEvent
<1>3. ConnTypes'
  <2>. QED BY Zenon, <1>g DEF ConnTypes, OpenPublish
<1>4. AppTypes'
  BY Zenon, <1>g DEF AppTypes, AppPC, OpenPublish, LoopsJoined, IdleSup, epochVars
<1>5. TransportTypes' BY <1>g, Zenon DEF TransportTypes, OpenPublish
<1>6. SupInv' BY <1>g, SMTT(30) DEF SupInv, OpenPublish, IdleSup
<1>7. AppInv'
  <2>1. app'.pc = "open_start" /\ app'.e = cur' BY <1>g DEF AppTypes
  <2>2. cur' \notin ended /\ cur' \notin startReturned BY <1>g DEF EpochInv
  <2>. QED BY <1>g, <2>1, <2>2 DEF AppInv, OpenPublish, LoopsJoined, epochVars
<1>8. GenOrder' BY <1>g, SMTT(30) DEF GenOrder, TransportTypes, ConnTypes, OpenPublish
<1>9. EpochInv' BY <1>g, SMTT(30) DEF EpochInv, OpenPublish, epochVars
<1>10. StarterInv' BY SMTT(30) DEF StarterInv, OpenPublish, epochVars
<1>11. BarrierInv' BY SMTT(30) DEF BarrierInv, OpenPublish, LoopsJoined, epochVars
<1>12. RetryInv' BY Zenon DEF RetryInv, OpenPublish, LoopsJoined
<1>13. StartInv' BY Zenon DEF StartInv, OpenPublish, LoopsJoined
<1>14. StateInv' BY Zenon DEF StateInv, OpenPublish, IdleSup
<1>15. OneLiveGeneration'
  BY SMTT(30) DEF AppInv, OneLiveGeneration, OpenPublish, epochVars
<1>. QED BY <1>1, <1>2, <1>3, <1>4, <1>5, <1>6, <1>7, <1>8, <1>9, <1>10, <1>11, <1>12,
      <1>13, <1>14, <1>15

\* Open's Start returned nil.
LEMMA OpenStartedInv == ASSUME IInv, OpenStarted PROVE IInv'
<1>u. UNCHANGED <<supVars, connVars, ended, done, upCommitted, loop, trVars>>
  BY Zenon DEF OpenStarted
<1>1. SupTypes' /\ ConnTypes' /\ LoopTypes' /\ TransportTypes' /\ GenOrder'
      /\ BarrierInv' /\ OneDriver' /\ StateInv' /\ OneLiveGeneration'
  BY <1>u, KeepSupTypes, KeepConnTypes, KeepLoopTypes, KeepTransportTypes, KeepGenOrder,
      KeepBarrierInv, KeepOneDriver, KeepStateInv, KeepOneLiveGeneration, Zenon DEF
      supVars, connVars, trVars
<1>2. EpochTypes'
  BY Zenon DEF ConnTypes, EpochTypes, AppInv, OpenStarted, ReleaseBarrier
<1>3. AppTypes' BY SMTT(30) DEF AppTypes, OpenStarted, OpenReturn, IdleApp, AppPC
<1>4. SupInv' BY Zenon DEF SupInv, OpenStarted, supVars, connVars
<1>5. AppInv'
  BY SMTT(30) DEF AppInv, AppTypes, OpenStarted, OpenReturn, IdleApp, supVars, connVars
<1>6. EpochInv' BY Zenon DEF EpochInv, OpenStarted, ReleaseBarrier, trVars
<1>7. StarterInv' BY Zenon DEF StarterInv, OpenStarted, ReleaseBarrier, trVars
<1>8. RetryInv'
  BY Zenon DEF RetryInv, OpenStarted, ReleaseBarrier, connVars, trVars
<1>9. StartInv' BY Zenon DEF StartInv, AppInv, OpenStarted
<1>. QED BY <1>1, <1>2, <1>3, <1>4, <1>5, <1>6, <1>7, <1>8, <1>9

\* Open's wait for a selection ended.
LEMMA OpenWaitedInv == ASSUME IInv, OpenWaited PROVE IInv'
<1>u. UNCHANGED <<supVars, connVars, epochVars, loop, trVars>> BY Zenon DEF OpenWaited
<1>1. SupTypes' /\ ConnTypes' /\ EpochTypes' /\ LoopTypes' /\ TransportTypes'
      /\ GenOrder' /\ EpochInv' /\ BarrierInv' /\ RetryInv' /\ StartInv' /\ OneDriver'
      /\ StateInv' /\ OneLiveGeneration'
  BY <1>u, KeepSupTypes, KeepConnTypes, KeepEpochTypes, KeepLoopTypes,
      KeepTransportTypes, KeepGenOrder, KeepEpochInv, KeepBarrierInv, KeepRetryInv,
      KeepStartInv, KeepOneDriver, KeepStateInv, KeepOneLiveGeneration, Zenon DEF
      supVars, connVars, epochVars, trVars
<1>2. AppTypes' BY Zenon DEF AppTypes, OpenWaited, OpenReturn, IdleApp, AppPC
<1>3. SupInv' BY Zenon DEF SupInv, OpenWaited, supVars, connVars, epochVars
<1>4. AppInv'
  BY Zenon DEF AppInv, OpenWaited, OpenReturn, IdleApp, supVars, connVars
<1>5. StarterInv' BY Zenon DEF StarterInv, OpenWaited, epochVars, trVars
<1>. QED BY <1>1, <1>2, <1>3, <1>4, <1>5

\* Open's wait was given up.
LEMMA OpenExpiredInv == ASSUME IInv, OpenExpired PROVE IInv'
<1>u. UNCHANGED <<supVars, connVars, epochVars, loop, trVars>>
  BY Zenon DEF OpenExpired
<1>1. SupTypes' /\ ConnTypes' /\ EpochTypes' /\ LoopTypes' /\ TransportTypes'
      /\ GenOrder' /\ EpochInv' /\ BarrierInv' /\ RetryInv' /\ StartInv' /\ OneDriver'
      /\ StateInv' /\ OneLiveGeneration'
  BY <1>u, KeepSupTypes, KeepConnTypes, KeepEpochTypes, KeepLoopTypes,
      KeepTransportTypes, KeepGenOrder, KeepEpochInv, KeepBarrierInv, KeepRetryInv,
      KeepStartInv, KeepOneDriver, KeepStateInv, KeepOneLiveGeneration, Zenon DEF
      supVars, connVars, epochVars, trVars
<1>2. AppTypes' BY Zenon DEF AppTypes, OpenExpired, OpenReturn, IdleApp, AppPC
<1>3. SupInv' BY Zenon DEF SupInv, OpenExpired, supVars, connVars, epochVars
<1>4. AppInv'
  BY Zenon DEF AppInv, OpenExpired, OpenReturn, IdleApp, supVars, connVars
<1>5. StarterInv' BY Zenon DEF StarterInv, OpenExpired, epochVars, trVars
<1>. QED BY <1>1, <1>2, <1>3, <1>4, <1>5

\* Open's Start returned an error.
LEMMA OpenStartFailedInv ==
  ASSUME NEW ctxErr \in BOOLEAN, IInv, OpenStartFailed(ctxErr) PROVE IInv'
<1>u. UNCHANGED <<supVars, connVars, done, startReturned, upCommitted, loop, trVars>>
  BY Zenon DEF OpenStartFailed
<1>1. SupTypes' /\ ConnTypes' /\ LoopTypes' /\ TransportTypes' /\ GenOrder' /\ RetryInv'
      /\ OneDriver' /\ StateInv' /\ OneLiveGeneration'
  BY <1>u, KeepSupTypes, KeepConnTypes, KeepLoopTypes, KeepTransportTypes, KeepGenOrder,
      KeepRetryInv, KeepOneDriver, KeepStateInv, KeepOneLiveGeneration, Zenon DEF
      supVars, connVars, trVars
<1>2. EpochTypes'
  BY Zenon DEF ConnTypes, EpochTypes, AppInv, OpenStartFailed, Teardown
<1>3. AppTypes' BY Zenon DEF AppTypes, OpenStartFailed, AppPC
<1>4. SupInv' BY Zenon DEF SupInv, OpenStartFailed, Teardown, supVars, connVars
<1>5. AppInv'
  BY Zenon DEF AppInv, AppTypes, BarrierInv, OpenStartFailed, ColdRetry, CameUp,
      Teardown, supVars, connVars, trVars
<1>6. EpochInv' BY Zenon DEF EpochInv, OpenStartFailed, Teardown, trVars
<1>7. StarterInv' BY ZenonT(30) DEF StarterInv, AppTypes, OpenStartFailed, trVars
<1>8. BarrierInv'
  BY Zenon DEF BarrierInv, OpenStartFailed, Teardown, supVars, connVars, trVars
<1>9. StartInv' BY Zenon DEF StartInv, OpenStartFailed, Teardown, connVars, trVars
<1>. QED BY <1>1, <1>2, <1>3, <1>4, <1>5, <1>6, <1>7, <1>8, <1>9

\* A background Open starts a loop for the generation that failed cold.
LEMMA OpenColdInv == ASSUME IInv, OpenCold PROVE IInv'
<1>u. UNCHANGED <<supVars, connVars, done, trVars>> BY Zenon DEF OpenCold
<1>l. LoopTypes' /\ app.e \in Gen /\ loop'[app.e].pc = "barrier"
      /\ loop'[app.e].e = NoGen /\ \A q \in Gen : q # app.e => loop'[q] = loop[q]
  BY LoopSpawnFacts, Zenon DEF OpenCold, AppInv, ConnTypes
<1>1. SupTypes' /\ ConnTypes' /\ TransportTypes' /\ GenOrder' /\ OneLiveGeneration'
  BY <1>u, KeepSupTypes, KeepConnTypes, KeepTransportTypes, KeepGenOrder,
      KeepOneLiveGeneration, Zenon DEF supVars, connVars, trVars
<1>2. EpochTypes' BY <1>l, Zenon DEF EpochTypes, OpenCold, ReleaseBarrier
<1>3. LoopTypes' BY <1>l
<1>4. AppTypes' BY Zenon DEF AppTypes, OpenCold, OpenReturn, IdleApp, AppPC
<1>5. SupInv' BY Zenon DEF SupInv, OpenCold, supVars, connVars
<1>6. AppInv' BY Zenon DEF AppInv, OpenCold, OpenReturn, IdleApp, supVars, connVars
<1>7. EpochInv' BY Zenon DEF AppInv, EpochInv, OpenCold, ReleaseBarrier, trVars
<1>8. StarterInv' BY Zenon DEF AppInv, StarterInv, OpenCold, ReleaseBarrier, trVars
<1>9. BarrierInv'
  BY <1>l, ZenonT(30) DEF BarrierInv, AppInv, StateInv, OpenCold, supVars, connVars,
      trVars
<1>10. RetryInv'
  BY <1>l, Zenon DEF RetryInv, OpenCold, ReleaseBarrier, connVars, trVars
<1>11. StartInv' BY <1>l, Zenon DEF StartInv, AppInv, OpenCold
<1>12. OneDriver' BY <1>l, Zenon DEF OneDriver
<1>13. StateInv' BY Zenon DEF AppInv, StateInv, OpenCold, supVars
<1>. QED BY <1>1, <1>2, <1>3, <1>4, <1>5, <1>6, <1>7, <1>8, <1>9, <1>10, <1>11, <1>12,
      <1>13

\* RollbackFailedOpen fences and pins the epoch to close.
LEMMA RollbackInv == ASSUME IInv, Rollback PROVE IInv'
<1>u. UNCHANGED <<supVars, cur, genSeq, ended, done, upCommitted, loop, trVars>>
  BY Zenon DEF Rollback
<1>1. SupTypes' /\ LoopTypes' /\ TransportTypes' /\ GenOrder' /\ BarrierInv'
      /\ OneDriver' /\ StateInv' /\ OneLiveGeneration'
  BY <1>u, KeepSupTypes, KeepLoopTypes, KeepTransportTypes, KeepGenOrder,
      KeepBarrierInv, KeepOneDriver, KeepStateInv, KeepOneLiveGeneration, Zenon DEF
      supVars, trVars
<1>2. ConnTypes'
  <2>1. reconnectGen' \in Nat BY DEF ConnTypes, Rollback, FenceAndPin
  <2>. QED BY <2>1, Zenon DEF ConnTypes, Rollback, FenceAndPin
<1>3. EpochTypes' BY Zenon DEF EpochTypes, AppInv, Rollback, ReleaseBarrier
<1>4. AppTypes'
  BY Zenon DEF AppTypes, ConnTypes, AppPC, Rollback, FenceAndPin, ReleaseBarrier, supVars,
      trVars
<1>5. SupInv' BY Zenon DEF SupInv, Rollback, supVars
<1>6. AppInv' BY SMTT(30) DEF AppInv, Rollback, FenceAndPin, supVars
<1>7. EpochInv' BY Zenon DEF AppInv, EpochInv, Rollback, ReleaseBarrier, trVars
<1>8. StarterInv' BY Zenon DEF StarterInv, Rollback, ReleaseBarrier, trVars
<1>9. RetryInv' BY Zenon DEF RetryInv, Rollback, ReleaseBarrier, trVars
<1>10. StartInv' BY Zenon DEF StartInv, AppInv, Rollback
<1>. QED BY <1>1, <1>2, <1>3, <1>4, <1>5, <1>6, <1>7, <1>8, <1>9, <1>10

-----------------------------------------------------------------------------
(* A Start, the socket it brings up, and Close. *)

\* The transport's Start returns.
LEMMA StartReturnsInv ==
  ASSUME NEW g \in Gen, NEW ok \in BOOLEAN, IInv, StartReturns(g, ok) PROVE IInv'
<1>u. UNCHANGED <<supVars, connVars, epochVars, loop, appVars>>
  BY Zenon DEF StartReturns
<1>1. SupTypes' /\ ConnTypes' /\ EpochTypes' /\ LoopTypes' /\ AppTypes' /\ SupInv'
      /\ OneDriver' /\ StateInv'
  BY <1>u, KeepSupTypes, KeepConnTypes, KeepEpochTypes, KeepLoopTypes, KeepAppTypes,
      KeepSupInv, KeepOneDriver, KeepStateInv, Zenon DEF supVars, connVars,
      epochVars, appVars
<1>2. TransportTypes' BY Zenon DEF TransportTypes, StartReturns
<1>3. AppInv'
  BY SMTT(30) DEF AppInv, StartReturns, StartRunning, supVars, connVars, epochVars,
      appVars
<1>4. GenOrder' BY SMTT(30) DEF GenOrder, StartReturns, StartRunning, connVars
<1>5. EpochInv' BY SMTT(30) DEF EpochInv, StartReturns, epochVars
<1>6. StarterInv'
  BY SMTT(30) DEF StarterInv, StartReturns, StartRunning, epochVars, appVars
<1>7. BarrierInv'
  BY SMTT(30) DEF BarrierInv, StartReturns, supVars, connVars, epochVars
<1>8. RetryInv'
  BY SMTT(30) DEF RetryInv, StartReturns, StartRunning, connVars, epochVars
<1>9. StartInv'
  BY SMTT(30) DEF StartInv, StartReturns, StartRunning, connVars, epochVars
<1>10. OneLiveGeneration'
  BY SMTT(30) DEF OneLiveGeneration, StartReturns, StartRunning, connVars, epochVars
<1>. QED BY <1>1, <1>2, <1>3, <1>4, <1>5, <1>6, <1>7, <1>8, <1>9, <1>10

\* TCPUp adopts the socket into the live epoch.
LEMMA PublishSocketInv == ASSUME NEW g \in Gen, IInv, PublishSocket(g) PROVE IInv'
<1>u. UNCHANGED <<supVars, connVars, ended, torn, done, startReturned, upCommitted,
                  loop, appVars, start>>
  BY Zenon DEF PublishSocket
<1>1. SupTypes' /\ ConnTypes' /\ LoopTypes' /\ AppTypes' /\ SupInv' /\ AppInv'
      /\ GenOrder' /\ StarterInv' /\ BarrierInv' /\ RetryInv' /\ StartInv' /\ OneDriver'
      /\ StateInv' /\ OneLiveGeneration'
  BY <1>u, KeepSupTypes, KeepConnTypes, KeepLoopTypes, KeepAppTypes, KeepSupInv,
      KeepAppInv, KeepGenOrder, KeepStarterInv, KeepBarrierInv, KeepRetryInv,
      KeepStartInv, KeepOneDriver, KeepStateInv, KeepOneLiveGeneration, Zenon DEF
      supVars, connVars, appVars
<1>2. EpochTypes'
  BY Zenon DEF EpochTypes, ConnTypes, PublishSocket, SocketAccepted, LiveFor
<1>3. TransportTypes' BY Zenon DEF TransportTypes, PublishSocket
<1>4. EpochInv' BY Zenon DEF EpochInv, PublishSocket, SocketAccepted, LiveFor
<1>. QED BY <1>1, <1>2, <1>3, <1>4

\* TCPUp commits NotSelected.
LEMMA CommitConnectedInv == ASSUME NEW g \in Gen, IInv, CommitConnected(g) PROVE IInv'
<1>u. UNCHANGED <<connVars, done, startReturned, loop, appVars, start>>
  BY Zenon DEF CommitConnected
<1>1. ConnTypes' /\ LoopTypes' /\ AppTypes' /\ GenOrder' /\ StarterInv' /\ RetryInv'
      /\ OneDriver' /\ OneLiveGeneration'
  BY <1>u, KeepConnTypes, KeepLoopTypes, KeepAppTypes, KeepGenOrder, KeepStarterInv,
      KeepRetryInv, KeepOneDriver, KeepOneLiveGeneration, Zenon DEF connVars, appVars
<1>2. SupTypes' BY Zenon DEF SupTypes, CommitConnected, UpGate, ConnState
<1>3. EpochTypes'
  BY Zenon DEF EpochTypes, ConnTypes, CommitConnected, UpGate, UpAdmissible, LiveFor
<1>4. TransportTypes'
  BY SMTT(30) DEF TransportTypes, ConnTypes, CommitConnected, UpGate, UpAdmissible,
      LiveFor, Park, FsmEvent, Reporter
<1>5. SupInv' BY Zenon DEF SupInv, CommitConnected, UpGate, connVars, appVars
<1>6. AppInv'
  BY Zenon DEF AppInv, CommitConnected, UpGate, UpAdmissible, LiveFor, connVars,
      appVars
<1>7. EpochInv' BY Zenon DEF GenOrder, EpochInv, CommitConnected, UpGate
<1>8. BarrierInv'
  BY Zenon DEF EpochInv, BarrierInv, CommitConnected, UpGate, UpAdmissible, LiveFor,
      connVars
<1>9. StartInv' BY Zenon DEF StartInv, CommitConnected, UpGate, connVars
<1>10. StateInv'
  BY Zenon DEF ConnTypes, EpochInv, BarrierInv, RetryInv, StateInv, CommitConnected,
      UpGate, UpAdmissible, LiveFor, connVars
<1>. QED BY <1>1, <1>2, <1>3, <1>4, <1>5, <1>6, <1>7, <1>8, <1>9, <1>10

\* A second TCPUp of a generation is refused or merged.
LEMMA TCPUpAgainInv == ASSUME NEW g \in Gen, IInv, TCPUpAgain(g) PROVE IInv'
<1>u. UNCHANGED <<connVars, done, startReturned, loop, appVars, start>>
  BY Zenon DEF TCPUpAgain
<1>1. ConnTypes' /\ LoopTypes' /\ AppTypes' /\ GenOrder' /\ StarterInv' /\ RetryInv'
      /\ OneDriver' /\ OneLiveGeneration'
  BY <1>u, KeepConnTypes, KeepLoopTypes, KeepAppTypes, KeepGenOrder, KeepStarterInv,
      KeepRetryInv, KeepOneDriver, KeepOneLiveGeneration, Zenon DEF connVars, appVars
<1>2. SupTypes' BY Zenon DEF SupTypes, TCPUpAgain, UpGate, ConnState
<1>3. EpochTypes'
  BY Zenon DEF EpochTypes, ConnTypes, TCPUpAgain, UpGate, UpAdmissible, LiveFor,
      SocketAccepted
<1>4. TransportTypes'
  BY SMTT(30) DEF TransportTypes, ConnTypes, TCPUpAgain, UpGate, UpAdmissible, LiveFor,
      Park, FsmEvent, Reporter
<1>5. SupInv' BY Zenon DEF SupInv, TCPUpAgain, UpGate, connVars, appVars
<1>6. AppInv'
  BY Zenon DEF AppInv, TCPUpAgain, UpGate, UpAdmissible, LiveFor, connVars, appVars
<1>7. EpochInv'
  <2>1. /\ upCommitted' \subseteq upAdmitted' /\ upAdmitted' \subseteq upAdmitted \cup {cur}
        /\ UpAdmissible(g) \/ upAdmitted' = upAdmitted
    BY SMT DEF EpochInv, TCPUpAgain, UpGate
  <2>2. UNCHANGED <<cur, ended, torn, done, startReturned, start>>
    BY Zenon DEF TCPUpAgain, connVars
  <2>3. UpAdmissible(g) => Published(cur) BY SMT DEF UpAdmissible, LiveFor, GenOrder
  <2>4. Named => conn' \cap torn = {}
    <3>1. Named /\ SocketAccepted(g) => g = cur /\ cur \notin torn
      BY SMT DEF SocketAccepted, LiveFor, EpochInv
    <3>. QED BY <3>1, SMT DEF EpochInv, TCPUpAgain
  <2>. QED BY <2>1, <2>2, <2>3, <2>4, SMT DEF EpochInv
<1>8. BarrierInv'
  BY Zenon DEF EpochInv, BarrierInv, TCPUpAgain, UpGate, UpAdmissible, LiveFor,
      connVars
<1>9. StartInv' BY Zenon DEF StartInv, TCPUpAgain, UpGate, connVars
<1>10. StateInv'
  BY Zenon DEF ConnTypes, EpochInv, BarrierInv, RetryInv, StateInv, TCPUpAgain,
      UpGate, UpAdmissible, LiveFor, connVars
<1>. QED BY <1>1, <1>2, <1>3, <1>4, <1>5, <1>6, <1>7, <1>8, <1>9, <1>10

\* Close registers and fires the abort token.
LEMMA CloseRegisterInv == ASSUME IInv, CloseRegister PROVE IInv'
<1>u. UNCHANGED <<supVars, connVars, epochVars, loop, app, trVars>>
  BY Zenon DEF CloseRegister
<1>1. SupTypes' /\ ConnTypes' /\ EpochTypes' /\ LoopTypes' /\ TransportTypes' /\ SupInv'
      /\ AppInv' /\ GenOrder' /\ EpochInv' /\ StarterInv' /\ BarrierInv' /\ RetryInv'
      /\ StartInv' /\ OneDriver' /\ StateInv' /\ OneLiveGeneration'
  BY <1>u, KeepSupTypes, KeepConnTypes, KeepEpochTypes, KeepLoopTypes,
      KeepTransportTypes, KeepSupInv, KeepAppInv, KeepGenOrder, KeepEpochInv,
      KeepStarterInv, KeepBarrierInv, KeepRetryInv, KeepStartInv, KeepOneDriver,
      KeepStateInv, KeepOneLiveGeneration, Zenon DEF supVars, connVars, epochVars,
      trVars
<1>2. AppTypes' BY BoundsAssumption, SMTT(30) DEF AppTypes, CloseRegister
<1>. QED BY <1>1, <1>2

\* Close holds lifeMu, fences and pins the epoch.
LEMMA CloseEnterInv == ASSUME IInv, CloseEnter PROVE IInv'
<1>u. UNCHANGED <<supVars, cur, genSeq, epochVars, loop, trVars>>
  BY Zenon DEF CloseEnter
<1>1. SupTypes' /\ EpochTypes' /\ LoopTypes' /\ TransportTypes' /\ GenOrder'
      /\ EpochInv' /\ BarrierInv' /\ RetryInv' /\ StartInv' /\ OneDriver' /\ StateInv'
      /\ OneLiveGeneration'
  BY <1>u, KeepSupTypes, KeepEpochTypes, KeepLoopTypes, KeepTransportTypes,
      KeepGenOrder, KeepEpochInv, KeepBarrierInv, KeepRetryInv, KeepStartInv,
      KeepOneDriver, KeepStateInv, KeepOneLiveGeneration, Zenon DEF supVars,
      epochVars, trVars
<1>2. ConnTypes'
  <2>1. reconnectGen' \in Nat BY DEF ConnTypes, CloseEnter, FenceAndPin
  <2>. QED BY <2>1, Zenon DEF ConnTypes, CloseEnter, FenceAndPin
<1>3. AppTypes' BY SMTT(30) DEF AppTypes, ConnTypes, CloseEnter, CloseWaiting, AppPC
<1>4. SupInv' BY Zenon DEF SupInv, CloseEnter, supVars, epochVars
<1>5. AppInv'
  <2>1. AppInv OBVIOUS
  <2>. HIDE DEF IInv, TypeOK
  <2>. QED BY <2>1, SMTT(30) DEF AppInv, CloseEnter, FenceAndPin, supVars, epochVars
<1>6. StarterInv' BY Zenon DEF StarterInv, CloseEnter, epochVars, trVars
<1>. QED BY <1>1, <1>2, <1>3, <1>4, <1>5, <1>6

\* Close queues evClose.
LEMMA CloseInjectInv == ASSUME IInv, CloseInject PROVE IInv'
<1>u. UNCHANGED <<state, lastReacted, sup, connVars, epochVars, loop, trVars>>
  BY Zenon DEF CloseInject
<1>1. ConnTypes' /\ EpochTypes' /\ LoopTypes' /\ TransportTypes' /\ GenOrder'
      /\ EpochInv' /\ BarrierInv' /\ RetryInv' /\ StartInv' /\ OneDriver' /\ StateInv'
      /\ OneLiveGeneration'
  BY <1>u, KeepConnTypes, KeepEpochTypes, KeepLoopTypes, KeepTransportTypes,
      KeepGenOrder, KeepEpochInv, KeepBarrierInv, KeepRetryInv, KeepStartInv,
      KeepOneDriver, KeepStateInv, KeepOneLiveGeneration, Zenon DEF connVars,
      epochVars, trVars
<1>2. SupTypes'
  <2>2. [ev |-> "evClose", gen |-> NoGen] \in FsmCommand BY DEF FsmCommand, FsmEvent
  <2>3. events' \in Seq(FsmCommand) BY <2>2 DEF SupTypes, CloseInject
  <2>. QED BY <2>3 DEF SupTypes, CloseInject
<1>3. AppTypes' BY Zenon DEF AppTypes, AppPC, CloseInject
<1>4. SupInv' BY SMTT(30) DEF SupInv, CloseInject, connVars, epochVars
<1>5. AppInv' BY SMTT(30) DEF AppInv, CloseInject, connVars
<1>6. StarterInv' BY Zenon DEF StarterInv, CloseInject, epochVars, trVars
<1>. QED BY <1>1, <1>2, <1>3, <1>4, <1>5, <1>6

\* Close waits for the epoch's join.
LEMMA CloseWaitInv == ASSUME IInv, CloseWait PROVE IInv'
<1>u. UNCHANGED <<supVars, connVars, epochVars, loop, trVars>> BY Zenon DEF CloseWait
<1>1. SupTypes' /\ ConnTypes' /\ EpochTypes' /\ LoopTypes' /\ TransportTypes'
      /\ GenOrder' /\ EpochInv' /\ BarrierInv' /\ RetryInv' /\ StartInv' /\ OneDriver'
      /\ StateInv' /\ OneLiveGeneration'
  BY <1>u, KeepSupTypes, KeepConnTypes, KeepEpochTypes, KeepLoopTypes,
      KeepTransportTypes, KeepGenOrder, KeepEpochInv, KeepBarrierInv, KeepRetryInv,
      KeepStartInv, KeepOneDriver, KeepStateInv, KeepOneLiveGeneration, Zenon DEF
      supVars, connVars, epochVars, trVars
<1>2. AppTypes' BY Zenon DEF AppTypes, CloseWait, AppPC
<1>3. SupInv' BY SMTT(30) DEF SupInv, CloseWait, supVars, connVars, epochVars
<1>4. AppInv' BY SMTT(30) DEF AppInv, CloseWait, Joined, supVars, connVars, epochVars
<1>5. StarterInv' BY Zenon DEF StarterInv, CloseWait, epochVars, trVars
<1>. QED BY <1>1, <1>2, <1>3, <1>4, <1>5

\* JoinSupervisor and the join of the loops end.
LEMMA CloseReturnInv == ASSUME IInv, CloseReturn PROVE IInv'
<1>u. UNCHANGED <<supVars, connVars, epochVars, loop, trVars>>
  BY Zenon DEF CloseReturn
<1>1. SupTypes' /\ ConnTypes' /\ EpochTypes' /\ LoopTypes' /\ TransportTypes'
      /\ GenOrder' /\ EpochInv' /\ BarrierInv' /\ RetryInv' /\ StartInv' /\ OneDriver'
      /\ StateInv' /\ OneLiveGeneration'
  BY <1>u, KeepSupTypes, KeepConnTypes, KeepEpochTypes, KeepLoopTypes,
      KeepTransportTypes, KeepGenOrder, KeepEpochInv, KeepBarrierInv, KeepRetryInv,
      KeepStartInv, KeepOneDriver, KeepStateInv, KeepOneLiveGeneration, Zenon DEF
      supVars, connVars, epochVars, trVars
<1>2. AppTypes' BY Zenon DEF AppTypes, CloseReturn, OpenReturn, IdleApp, AppPC
<1>3. SupInv' BY Zenon DEF SupInv, CloseReturn, supVars, connVars, epochVars
<1>4. AppInv'
  BY Zenon DEF AppInv, CloseReturn, LoopsJoined, OpenReturn, IdleApp, supVars,
      connVars, epochVars
<1>5. StarterInv' BY Zenon DEF StarterInv, CloseReturn, epochVars, trVars
<1>. QED BY <1>1, <1>2, <1>3, <1>4, <1>5
=============================================================================
