------------------------------ MODULE Connection ------------------------------
(***************************************************************************)
(* The lifecycle engine of package hsms: the E37 supervisor, the           *)
(* generations (epochs) it serves, the reconnect loops and Open / Close.   *)
(*                                                                         *)
(* Threads that interleave here:                                           *)
(*   - the one application call that holds lifeMu (Open or Close), `app`;  *)
(*   - Close calls that have registered and wait for lifeMu;               *)
(*   - the supervisor goroutine, `sup`: one event is several steps;        *)
(*   - the reconnect loop started for generation p, `loop[p]`;             *)
(*   - the teardown join of each generation;                               *)
(*   - the transport's goroutines of each generation (external), which may *)
(*     outlive it: they report TCP-up, select, select-lost, T7 expiry and  *)
(*     TCP-down, and may be parked between a commit and its enqueue.       *)
(***************************************************************************)
EXTENDS Naturals, Sequences, FiniteSets

CONSTANTS
  MaxGen,      \* bound: generations minted by genSeq
  MaxOpens,    \* bound: Open calls that get past the double-open guard
  MaxCloses,   \* bound: Close calls
  QueueCap,    \* capacity of supervisor.events
  MaxParked,   \* bound: transport goroutines parked before their enqueue
  Active,      \* the transport dials inside Start (else Start only listens)
  Named,       \* the transport's reports carry their generation's id
  OpenModes    \* the OpenMode values Open is called with

ASSUME BoundsAssumption ==
  /\ MaxGen \in Nat \ {0}
  /\ MaxOpens \in Nat \ {0}
  /\ MaxCloses \in Nat
  /\ QueueCap \in Nat \ {0}
  /\ MaxParked \in Nat \ {0}

ASSUME ModeAssumption ==
  /\ Active \in BOOLEAN
  /\ Named \in BOOLEAN
  /\ OpenModes \subseteq {"OpenBackground", "OpenWaitSelected"}

Gen == 1 .. MaxGen
NoGen == 0

ConnState == {"NotConnected", "NotSelected", "Selected"}

FsmEvent == {"evTCPUp", "evSelectAccepted", "evSelectLost", "evDisconnect",
             "evT7Timeout", "evClose"}

FsmCommand == [ev : FsmEvent, gen : Gen \cup {NoGen}]

\* The transport goroutines of one generation that report to the core.
Reporter == {"start", "recv", "down", "t7"}

VARIABLES
  state, lastReacted, closed, events, sup, runDone,             \* supervisor
  cur, genSeq, shutdown, reconnectGen, cancelled, closeEpoch,   \* connection
  ended, torn, done, conn, startReturned,                       \* epochs
  upAdmitted, upCommitted,
  loop,                                                         \* reconnect loops
  app, abort, pendingCloses, opens, closes,                     \* Open and Close
  start, up, t7, pend                                \* transport

supVars == <<state, lastReacted, closed, events, sup, runDone>>
connVars == <<cur, genSeq, shutdown, reconnectGen, cancelled, closeEpoch>>
epochVars == <<ended, torn, done, conn, startReturned, upAdmitted, upCommitted>>
appVars == <<app, abort, pendingCloses, opens, closes>>
trVars == <<start, up, t7, pend>>
vars == <<supVars, connVars, epochVars, loop, appVars, trVars>>

-----------------------------------------------------------------------------
(* The pure state table. *)

\* Faulty variant: a select is legal in any state.
LegalSelect(s, ev) ==
  \/ ev \in {"evClose", "evSelectAccepted"}
  \/ ev = "evT7Timeout" /\ s = "NotSelected"
  \/ ev \in {"evTCPUp", "evSelectLost", "evDisconnect"} /\ s # "NotConnected"
Legal(s, ev) ==
  \/ ev = "evClose"
  \/ ev = "evT7Timeout" /\ s = "NotSelected"
  \/ /\ ev \in {"evTCPUp", "evSelectAccepted", "evSelectLost", "evDisconnect"}
     /\ s # "NotConnected"

Target(s, ev) ==
  IF ev = "evTCPUp" THEN s
  ELSE IF ev = "evSelectAccepted" THEN "Selected"
  ELSE IF ev = "evSelectLost" THEN "NotSelected"
  ELSE "NotConnected"

-----------------------------------------------------------------------------
(* Types and the initial state: a connection that was never opened. *)

NoLoop == [pc |-> "none", fence |-> 0, e |-> NoGen]
IdleSup == [pc |-> "idle", ev |-> "evClose", gen |-> NoGen,
            seen |-> "NotConnected", e |-> NoGen]
IdleApp == [pc |-> "idle", e |-> NoGen, pin |-> NoGen]

Init ==
  /\ state = "NotConnected" /\ lastReacted = "NotConnected"
  /\ closed = FALSE /\ events = <<>> /\ sup = IdleSup /\ runDone = TRUE
  /\ cur = NoGen /\ genSeq = 0 /\ shutdown = FALSE /\ reconnectGen = 0
  /\ cancelled = FALSE /\ closeEpoch = NoGen
  /\ ended = {} /\ torn = {} /\ done = {} /\ conn = {} /\ startReturned = {}
  /\ upAdmitted = {} /\ upCommitted = {}
  /\ loop = [p \in Gen |-> NoLoop]
  /\ app = IdleApp /\ abort = "none" /\ pendingCloses = 0
  /\ opens = 0 /\ closes = 0
  /\ start = [g \in Gen |-> "no"] /\ up = [g \in Gen |-> "no"]
  /\ t7 = {} /\ pend = {}

LoopPC == {"none", "barrier", "sleep", "fence", "publish", "start", "signal",
           "failwait", "release", "handoff", "inject", "ended"}
SupPC == {"idle", "loaded", "apply", "react", "spawn", "teardown", "close"}
AppPC == {"idle", "open_join", "open_start", "open_wait", "open_cold",
          "rollback", "inject", "wait", "stop", "join"}

SupTypes ==
  /\ state \in ConnState /\ lastReacted \in ConnState /\ closed \in BOOLEAN
  /\ events \in Seq(FsmCommand) /\ runDone \in BOOLEAN
  /\ sup \in [pc : SupPC, ev : FsmEvent, gen : Gen \cup {NoGen},
              seen : ConnState, e : Gen \cup {NoGen}]
ConnTypes ==
  /\ cur \in Gen \cup {NoGen} /\ genSeq \in 0 .. MaxGen
  /\ shutdown \in BOOLEAN /\ reconnectGen \in Nat /\ cancelled \in BOOLEAN
  /\ closeEpoch \in Gen \cup {NoGen}
EpochTypes ==
  /\ ended \subseteq Gen /\ torn \subseteq Gen /\ done \subseteq Gen
  /\ conn \subseteq Gen /\ startReturned \subseteq Gen
  /\ upAdmitted \subseteq Gen /\ upCommitted \subseteq Gen
LoopTypes == loop \in [Gen -> [pc : LoopPC, fence : Nat, e : Gen \cup {NoGen}]]
AppTypes ==
  /\ app \in [pc : AppPC, e : Gen \cup {NoGen}, pin : Gen \cup {NoGen}]
  /\ abort \in {"none", "armed", "fired"}
  /\ pendingCloses \in Nat
  /\ opens \in 0 .. MaxOpens /\ closes \in 0 .. MaxCloses
TransportTypes ==
  /\ start \in [Gen -> {"no", "running", "ok", "err"}]
  /\ up \in [Gen -> {"no", "published", "refused", "yes", "over"}]
  /\ t7 \subseteq Gen
  /\ pend \subseteq [by : Gen \X Reporter, ev : FsmEvent \ {"evClose"}, gen : Gen]

\* Every variable has its type.
TypeOK == SupTypes /\ ConnTypes /\ EpochTypes /\ LoopTypes /\ AppTypes /\ TransportTypes

-----------------------------------------------------------------------------
(* Helpers shared by the actions. *)

\* The generation gate: the generation a commit naming n resolves to is live.
LiveFor(n) == /\ cur # NoGen
              /\ cur \notin ended
              /\ n \in {NoGen, cur}

\* What a report of g's goroutines puts in its generation field.
NameOf(g) == IF Named THEN g ELSE NoGen

Busy(g, r) == \E p \in pend : p.by = <<g, r>>

\* epoch.teardown: latch the end, close the socket, start the join (once).
Teardown(e) == /\ ended' = ended \cup {e}
               /\ torn' = torn \cup {e}
               /\ conn' = conn \ {e}

\* startConnectLoop: the fence base is reconnectGen at the moment of the spawn.
LoopSpawn(p) ==
  loop' = [loop EXCEPT ![p] = [pc |-> "barrier", fence |-> reconnectGen, e |-> NoGen]]

\* <-e.done and <-e.startReturned.
\* Faulty variants: the teardown, or the Start, is not awaited.
JoinedAtOnce(e) == TRUE
Joined(e) == e \in done
BarrierAlwaysOpen(e) == TRUE
BarrierOpen(e) == e \in startReturned

\* close(e.startReturned).
ReleaseBarrier(e) == startReturned' = startReturned \cup {e}

LoopOver(p) == loop[p].pc \in {"none", "ended"}
\* Faulty variant: connectLoopWg is not awaited.
LoopsJoinedAtOnce == TRUE
LoopsJoined == \A p \in Gen : LoopOver(p)

-----------------------------------------------------------------------------
(* supervisor.run / step: take an event and load the state, match its         *)
(* generation, store the transition, react, and (evClose) latch and tear down.*)

\* The state is loaded before the generation is matched; a latched supervisor
\* discards the event.
SupTake ==
  /\ sup.pc = "idle" /\ ~runDone /\ events # <<>>
  /\ events' = Tail(events)
  /\ sup' = IF closed THEN sup
            ELSE [pc |-> "loaded", ev |-> Head(events).ev,
                  gen |-> Head(events).gen, seen |-> state, e |-> NoGen]
  /\ UNCHANGED <<state, lastReacted, closed, runDone, connVars, epochVars, loop,
                 appVars, trVars>>

\* Faulty variant: the generation of an event is not matched.
StaleEventNever == FALSE
StaleEvent == sup.gen # NoGen /\ sup.gen # cur
SupersededSelectLost == sup.ev = "evSelectLost" /\ sup.seen = "Selected"

SupMatch ==
  /\ sup.pc = "loaded"
  /\ sup' = IF StaleEvent \/ SupersededSelectLost \/ ~Legal(sup.seen, sup.ev)
            THEN IdleSup ELSE [sup EXCEPT !.pc = "apply"]
  /\ UNCHANGED <<state, lastReacted, closed, events, runDone, connVars, epochVars,
                 loop, appVars, trVars>>

\* evT7Timeout stores by CAS from the state loaded and gives up when it moved.
T7Lost == sup.ev = "evT7Timeout" /\ state # sup.seen

\* A real drop always fires; anything else is deduplicated on lastReacted.
\* Faulty variant: only the loss of a selected session is reacted to.
FiresSession(next, dropped) ==
  next # lastReacted /\ (next = "NotConnected" => lastReacted = "Selected")
Fires(next, dropped) == next # lastReacted \/ dropped

SupApply ==
  LET next == Target(sup.seen, sup.ev)
      left == IF next = sup.seen THEN sup.seen ELSE state
      dropped == next = "NotConnected" /\ left # "NotConnected"
      fire == Fires(next, dropped)
      rest == IF sup.ev = "evClose" THEN [sup EXCEPT !.pc = "close"] ELSE IdleSup
  IN /\ sup.pc = "apply"
     /\ IF T7Lost
        THEN sup' = IdleSup /\ UNCHANGED <<state, lastReacted>>
        ELSE /\ state' = IF next = sup.seen THEN state ELSE next
             /\ lastReacted' = IF fire THEN next ELSE lastReacted
             /\ sup' = IF fire /\ next = "NotConnected"
                       THEN [sup EXCEPT !.pc = "react"]
                       ELSE rest
     /\ UNCHANGED <<closed, events, runDone, connVars, epochVars, loop, appVars, trVars>>

\* react, into NotConnected: pin cur, then start a reconnect loop unless the
\* connection is shutting down, then tear the pinned epoch down. (The farewell
\* Separate written first to a healthy selected link changes nothing here.)
SupReact ==
  /\ sup.pc = "react"
  /\ sup' = [sup EXCEPT !.pc = IF shutdown THEN "teardown" ELSE "spawn", !.e = cur]
  /\ UNCHANGED <<state, lastReacted, closed, events, runDone, connVars, epochVars,
                 loop, appVars, trVars>>

SupReactSpawn ==
  /\ sup.pc = "spawn"
  /\ LoopSpawn(sup.e)
  /\ sup' = [sup EXCEPT !.pc = "teardown"]
  /\ UNCHANGED <<state, lastReacted, closed, events, runDone, connVars, epochVars,
                 appVars, trVars>>

SupReactTeardown ==
  /\ sup.pc = "teardown"
  /\ Teardown(sup.e)
  /\ sup' = IF sup.ev = "evClose" THEN [sup EXCEPT !.pc = "close"] ELSE IdleSup
  /\ UNCHANGED <<state, lastReacted, closed, events, runDone, connVars, done,
                 startReturned, upAdmitted, upCommitted,
                 loop, appVars, trVars>>

\* The tail of an evClose step: latch, then tear down the pinned epoch.
SupClose ==
  /\ sup.pc = "close"
  /\ closed' = TRUE
  /\ Teardown(closeEpoch)
  /\ sup' = IdleSup
  /\ UNCHANGED <<state, lastReacted, events, runDone, connVars, done, startReturned,
                 upAdmitted, upCommitted, loop, appVars, trVars>>

\* stop() was called: run returns, and every parked injection is released.
SupStop ==
  /\ app.pc = "stop" /\ sup.pc = "idle"
  /\ runDone' = TRUE
  /\ events' = <<>>
  /\ pend' = {}
  /\ app' = [app EXCEPT !.pc = "join"]
  /\ UNCHANGED <<state, lastReacted, closed, sup, connVars, epochVars, loop, abort,
                 pendingCloses, opens, closes, start, up, t7>>

Supervisor == \/ SupTake \/ SupMatch \/ SupApply \/ SupReact \/ SupReactSpawn
              \/ SupReactTeardown \/ SupClose \/ SupStop

-----------------------------------------------------------------------------
(* epoch.join: the bounded join ends, with or without abandoned goroutines.  *)

Join(g) ==
  /\ g \in torn \ done
  /\ done' = done \cup {g}
  /\ UNCHANGED <<supVars, connVars, ended, torn, conn, startReturned, upAdmitted,
                 upCommitted, loop, appVars, trVars>>

-----------------------------------------------------------------------------
(* connectLoop, the reconnect loop spawned for the dropped generation p.     *)

LoopTo(p, pc, e) == loop' = [loop EXCEPT ![p] = [pc |-> pc, fence |-> loop[p].fence, e |-> e]]
LoopGoto(p, pc) == LoopTo(p, pc, loop[p].e)

\* Past the barrier the loop owns the retry gauge until "signal" or "release".
LoopBarrier(p) ==
  /\ loop[p].pc = "barrier" /\ Joined(p)
  /\ \/ BarrierOpen(p) /\ LoopGoto(p, "sleep")
     \/ cancelled /\ LoopGoto(p, "ended")
  /\ UNCHANGED <<supVars, connVars, epochVars, appVars, trVars>>

LoopSleep(p) ==
  /\ loop[p].pc = "sleep"
  /\ \/ LoopGoto(p, "fence")
     \/ cancelled /\ LoopGoto(p, "ended")
  /\ UNCHANGED <<supVars, connVars, epochVars, appVars, trVars>>

Fenced(p) == shutdown \/ reconnectGen # loop[p].fence

LoopFence(p) ==
  /\ loop[p].pc = "fence"
  /\ \/ Fenced(p) /\ LoopGoto(p, "ended") /\ UNCHANGED genSeq
     \/ /\ ~Fenced(p) /\ genSeq < MaxGen
        /\ genSeq' = genSeq + 1
        /\ LoopTo(p, "publish", genSeq + 1)
  /\ UNCHANGED <<supVars, cur, shutdown, reconnectGen, cancelled, closeEpoch,
                 epochVars, appVars, trVars>>

\* Under publishMu: re-check the fence, arm the transport, publish; then Start.
\* Faulty variant: the fence is not checked again.
PublishFencedNever(p) == FALSE
PublishFenced(p) == Fenced(p)

LoopPublish(p) ==
  /\ loop[p].pc = "publish"
  /\ IF PublishFenced(p)
     THEN LoopGoto(p, "ended") /\ UNCHANGED <<cur, start>>
     ELSE /\ LoopGoto(p, "start")
          /\ cur' = loop[p].e
          /\ start' = [start EXCEPT ![loop[p].e] = "running"]
  /\ UNCHANGED <<supVars, genSeq, shutdown, reconnectGen, cancelled, closeEpoch,
                 epochVars, appVars, up, t7, pend>>

LoopStartOk(p) ==
  /\ loop[p].pc = "start" /\ start[loop[p].e] = "ok"
  /\ LoopGoto(p, "signal")
  /\ UNCHANGED <<supVars, connVars, epochVars, appVars, trVars>>

LoopSignal(p) ==
  /\ loop[p].pc = "signal"
  /\ ReleaseBarrier(loop[p].e)
  /\ LoopGoto(p, "ended")
  /\ UNCHANGED <<supVars, connVars, ended, torn, done, conn, upAdmitted, upCommitted,
                 appVars, trVars>>

\* connectLoopStartFailure: tear the generation down and join it first.
LoopStartErr(p) ==
  /\ loop[p].pc = "start" /\ start[loop[p].e] = "err"
  /\ Teardown(loop[p].e)
  /\ LoopGoto(p, "failwait")
  /\ UNCHANGED <<supVars, connVars, done, startReturned, upAdmitted, upCommitted,
                 appVars, trVars>>

\* A plain dial failure is retried by this loop; a link that came up and then
\* failed is handed to the loop of its own drop reaction, gauge first.
CameUp(e) == e \in upCommitted

LoopFailed(p) ==
  /\ loop[p].pc = "failwait" /\ Joined(loop[p].e)
  /\ IF CameUp(loop[p].e)
     THEN LoopGoto(p, "release") /\ UNCHANGED startReturned
     ELSE LoopGoto(p, "sleep") /\ ReleaseBarrier(loop[p].e)
  /\ UNCHANGED <<supVars, connVars, ended, torn, done, conn, upAdmitted, upCommitted,
                 appVars, trVars>>

LoopRelease(p) ==
  /\ loop[p].pc = "release"
  /\ ReleaseBarrier(loop[p].e)
  /\ LoopGoto(p, "handoff")
  /\ UNCHANGED <<supVars, connVars, ended, torn, done, conn, upAdmitted, upCommitted,
                 appVars, trVars>>

\* injectDisconnect(e.id): dropped when a successor is current.
LoopHandoff(p) ==
  /\ loop[p].pc = "handoff"
  /\ LoopGoto(p, IF cur # loop[p].e THEN "ended" ELSE "inject")
  /\ UNCHANGED <<supVars, connVars, epochVars, appVars, trVars>>

LoopInject(p) ==
  /\ loop[p].pc = "inject"
  /\ \/ /\ ~runDone /\ Len(events) < QueueCap
        /\ events' = Append(events, [ev |-> "evDisconnect", gen |-> loop[p].e])
     \/ runDone /\ UNCHANGED events
  /\ LoopGoto(p, "ended")
  /\ UNCHANGED <<state, lastReacted, closed, sup, runDone, connVars, epochVars,
                 appVars, trVars>>

Loop(p) == \/ LoopBarrier(p) \/ LoopSleep(p) \/ LoopFence(p) \/ LoopPublish(p)
           \/ LoopStartOk(p) \/ LoopSignal(p) \/ LoopStartErr(p) \/ LoopFailed(p)
           \/ LoopRelease(p) \/ LoopHandoff(p) \/ LoopInject(p)

-----------------------------------------------------------------------------
(* Open, with the failed-Open rollback, and Close; lifeMu is app.pc # "idle". *)

CloseWaiting == pendingCloses > 0

\* Past the double-open guard: publish the abort token (pre-fired when a Close
\* already waits), bump the fence, clear shutdown.
OpenBegin ==
  /\ app.pc = "idle" /\ opens < MaxOpens /\ genSeq < MaxGen
  /\ cur = NoGen \/ shutdown
  /\ abort' = IF CloseWaiting THEN "fired" ELSE "armed"
  /\ reconnectGen' = reconnectGen + 1
  /\ shutdown' = FALSE
  /\ opens' = opens + 1
  /\ app' = [app EXCEPT !.pc = "open_join"]
  /\ UNCHANGED <<supVars, cur, genSeq, cancelled, closeEpoch, epochVars, loop,
                 pendingCloses, closes, trVars>>

\* connectLoopWg.Wait, then a fresh cancel channel, epoch and supervisor; Start.
OpenPublish ==
  /\ app.pc = "open_join" /\ LoopsJoined
  /\ cancelled' = FALSE
  /\ genSeq' = genSeq + 1
  /\ cur' = genSeq + 1
  /\ state' = "NotConnected" /\ lastReacted' = "NotConnected" /\ closed' = FALSE
  /\ events' = <<>> /\ sup' = IdleSup /\ runDone' = FALSE
  /\ start' = [start EXCEPT ![genSeq + 1] = "running"]
  /\ app' = [app EXCEPT !.pc = "open_start", !.e = genSeq + 1]
  /\ UNCHANGED <<shutdown, reconnectGen, closeEpoch, epochVars, loop, abort,
                 pendingCloses, opens, closes, up, t7, pend>>

OpenReturn == app' = IdleApp /\ abort' = "none"

OpenStarted ==
  /\ app.pc = "open_start" /\ start[app.e] = "ok"
  /\ ReleaseBarrier(app.e)
  /\ \/ "OpenBackground" \in OpenModes /\ OpenReturn
     \/ /\ "OpenWaitSelected" \in OpenModes
        /\ app' = [app EXCEPT !.pc = "open_wait"] /\ UNCHANGED abort
  /\ UNCHANGED <<supVars, connVars, ended, torn, done, conn, upAdmitted, upCommitted,
                 loop, pendingCloses, opens, closes, trVars>>

\* Faulty variant: the wait does not watch the abort token.
WaitOverDeaf == state = "Selected" \/ Joined(app.e)
WaitOver == state = "Selected" \/ Joined(app.e) \/ abort = "fired"

\* waitSelected: Selected, generation over, or aborted by a Close ...
OpenWaited ==
  /\ app.pc = "open_wait"
  /\ WaitOver
  /\ OpenReturn
  /\ UNCHANGED <<supVars, connVars, epochVars, loop, pendingCloses, opens, closes, trVars>>

\* ... or the caller's ctx is done.
OpenExpired ==
  /\ app.pc = "open_wait"
  /\ OpenReturn
  /\ UNCHANGED <<supVars, connVars, epochVars, loop, pendingCloses, opens, closes, trVars>>

\* A failed Start ends the generation, then is retried in the background only
\* when Open may do so and it was a plain dial failure nobody cut short; else Open
\* rolls back.
ColdRetry == /\ Active /\ state = "NotConnected"
             /\ abort # "fired" /\ ~CameUp(app.e)

OpenStartFailed(ctxErr) ==
  /\ app.pc = "open_start" /\ start[app.e] = "err"
  /\ \/ /\ "OpenBackground" \in OpenModes /\ ColdRetry /\ ~ctxErr
        /\ Teardown(app.e) /\ app' = [app EXCEPT !.pc = "open_cold"]
     \/ /\ "OpenWaitSelected" \in OpenModes \/ ~ColdRetry \/ ctxErr
        /\ ended' = ended \cup {app.e}
        /\ app' = [app EXCEPT !.pc = "rollback"]
        /\ UNCHANGED <<torn, conn>>
  /\ UNCHANGED <<supVars, connVars, done, startReturned, upAdmitted, upCommitted,
                 loop, abort, pendingCloses, opens, closes,
                 trVars>>

OpenCold ==
  /\ app.pc = "open_cold" /\ Joined(app.e)
  /\ ReleaseBarrier(app.e)
  /\ LoopSpawn(app.e)
  /\ OpenReturn
  /\ UNCHANGED <<supVars, connVars, ended, torn, done, conn, upAdmitted, upCommitted,
                 pendingCloses, opens, closes, trVars>>

\* The publishMu section of Close and of the rollback, the cancel that follows
\* it, and requestClose's pin.
FenceAndPin == /\ reconnectGen' = reconnectGen + 1
               /\ shutdown' = TRUE
               /\ cancelled' = TRUE
               /\ closeEpoch' = cur

Rollback ==
  /\ app.pc = "rollback"
  /\ FenceAndPin
  /\ ReleaseBarrier(app.e)
  /\ app' = [app EXCEPT !.pc = "inject", !.pin = cur]
  /\ UNCHANGED <<supVars, cur, genSeq, ended, torn, done, conn, upAdmitted,
                 upCommitted, loop, abort, pendingCloses,
                 opens, closes, trVars>>

\* Close registers before lifeMu and fires the token of an Open in progress.
CloseRegister ==
  /\ closes < MaxCloses
  /\ closes' = closes + 1
  /\ pendingCloses' = pendingCloses + 1
  /\ abort' = IF abort = "armed" THEN "fired" ELSE abort
  /\ UNCHANGED <<supVars, connVars, epochVars, loop, app, opens, trVars>>

\* With lifeMu: never opened and already closed return at once.
CloseEnter ==
  /\ app.pc = "idle" /\ CloseWaiting
  /\ pendingCloses' = pendingCloses - 1
  /\ IF cur = NoGen \/ runDone
     THEN UNCHANGED <<app, reconnectGen, shutdown, cancelled, closeEpoch>>
     ELSE FenceAndPin /\ app' = [pc |-> "inject", e |-> cur, pin |-> cur]
  /\ UNCHANGED <<supVars, cur, genSeq, epochVars, loop, abort, opens, closes, trVars>>

CloseInject ==
  /\ app.pc = "inject" /\ Len(events) < QueueCap
  /\ events' = Append(events, [ev |-> "evClose", gen |-> NoGen])
  /\ app' = [app EXCEPT !.pc = "wait"]
  /\ UNCHANGED <<state, lastReacted, closed, sup, runDone, connVars, epochVars, loop,
                 abort, pendingCloses, opens, closes, trVars>>

\* e.wait. The rollback's further teardown of an epoch that is not the pinned
\* one is unreachable (RollbackPinsOwnGeneration).
CloseWait ==
  /\ app.pc = "wait" /\ Joined(app.pin)
  /\ app' = [app EXCEPT !.pc = "stop"]
  /\ UNCHANGED <<supVars, connVars, epochVars, loop, abort, pendingCloses, opens,
                 closes, trVars>>

\* connectLoopWg.Wait, then Close (or the failed Open) returns.
CloseReturn ==
  /\ app.pc = "join" /\ LoopsJoined
  /\ OpenReturn
  /\ UNCHANGED <<supVars, connVars, epochVars, loop, pendingCloses, opens, closes,
                 trVars>>

Application ==
  \/ OpenBegin \/ OpenPublish \/ OpenStarted \/ OpenWaited \/ OpenExpired
  \/ \E ctxErr \in BOOLEAN : OpenStartFailed(ctxErr)
  \/ OpenCold \/ Rollback \/ CloseRegister \/ CloseEnter \/ CloseInject
  \/ CloseWait \/ CloseReturn

-----------------------------------------------------------------------------
(* The transport's goroutines (external) and the runtime methods they call.  *)
(* After TCP-up: the read loop, which selects and deselects, the T7 timer and *)
(* any goroutine that finds the link dead. They may run after their           *)
(* generation ended. At most MaxParked of them wait to enqueue at a time.     *)

StartRunning(g) == start[g] = "running"
MayReportUp(g) == IF Active THEN StartRunning(g) ELSE start[g] \in {"running", "ok"}

StartReturns(g, ok) ==
  /\ StartRunning(g) /\ ~Busy(g, "start") /\ up[g] \in {"no", "yes", "over"}
  /\ IF ok THEN Active => up[g] = "yes" ELSE ~Active => up[g] = "no"
  /\ start' = [start EXCEPT ![g] = IF ok THEN "ok" ELSE "err"]
  /\ UNCHANGED <<supVars, connVars, epochVars, loop, appVars, up, t7, pend>>

\* A report that will be enqueued (injectFrom on a stopped supervisor returns).
Park(g, r, ev, n) ==
  pend' = IF runDone THEN pend
          ELSE pend \cup {[by |-> <<g, r>>, ev |-> ev, gen |-> n]}
MayPark(g, r) == Cardinality(pend) < MaxParked /\ ~Busy(g, r) /\ ~Busy(g, "start")

\* publishSocket: a named report needs its own live generation, an unnamed one
\* lands on whatever generation is current.
\* Faulty variant: an ended generation still adopts a socket.
SocketAcceptedEnded(g) == cur # NoGen /\ NameOf(g) \in {NoGen, cur}
SocketAccepted(g) == IF Named THEN LiveFor(g) ELSE cur # NoGen

PublishSocket(g) ==
  LET accepted == SocketAccepted(g)
  IN /\ MayReportUp(g) /\ up[g] = "no"
     /\ up' = [up EXCEPT ![g] = IF accepted THEN "published" ELSE "refused"]
     /\ conn' = IF accepted THEN conn \cup {cur} ELSE conn
     /\ UNCHANGED <<supVars, connVars, ended, torn, done, startReturned, upAdmitted,
                    upCommitted, loop, appVars, start, t7, pend>>

\* tcpUpCommitGate: one admission per generation, then the CAS and its marker.
UpAdmissible(g) == LiveFor(NameOf(g)) /\ cur \notin upAdmitted

UpGate(g) ==
  LET admitted == UpAdmissible(g)
      committed == admitted /\ state = "NotConnected"
  IN /\ upAdmitted' = IF admitted THEN upAdmitted \cup {cur} ELSE upAdmitted
     /\ upCommitted' = IF committed THEN upCommitted \cup {cur} ELSE upCommitted
     /\ state' = IF committed THEN "NotSelected" ELSE state
     /\ IF committed THEN Park(g, "start", "evTCPUp", cur) ELSE UNCHANGED pend

\* CommitConnected; the read loop and its T7 dwell start on an accepted socket,
\* and a transport whose socket was refused reports no other.
CommitConnected(g) ==
  /\ up[g] \in {"published", "refused"} /\ MayPark(g, "start")
  /\ UpGate(g)
  /\ up' = [up EXCEPT ![g] = IF up[g] = "published" THEN "yes" ELSE "over"]
  /\ t7' = IF up[g] = "published" THEN t7 \cup {g} ELSE t7
  /\ UNCHANGED <<lastReacted, closed, events, sup, runDone, connVars, ended, torn,
                 done, conn, startReturned, loop, appVars, start>>

\* A second TCP-up report on the same generation.
TCPUpAgain(g) ==
  /\ up[g] = "yes" /\ MayReportUp(g) /\ MayPark(g, "start")
  /\ UpGate(g)
  /\ conn' = IF SocketAccepted(g) THEN conn \cup {cur} ELSE conn
  /\ UNCHANGED <<lastReacted, closed, events, sup, runDone, connVars, ended, torn,
                 done, startReturned, loop, appVars, start, up, t7>>

\* The two other synchronous commits, made by the read loop under its gate.
Commit(g, from, to, ev) ==
  /\ up[g] = "yes" /\ MayPark(g, "recv")
  /\ LiveFor(NameOf(g)) /\ state = from
  /\ state' = to
  /\ Park(g, "recv", ev, cur)
  /\ UNCHANGED <<lastReacted, closed, events, sup, runDone, connVars, epochVars, loop,
                 appVars, start, up, t7>>

CommitSelected(g) == Commit(g, "NotSelected", "Selected", "evSelectAccepted")
CommitSelectLost(g) == Commit(g, "Selected", "NotSelected", "evSelectLost")

\* injectDisconnect: a named report of another generation is dropped; one that
\* matches (or names none) is bound to the current generation.
TCPDown(g) ==
  /\ up[g] = "yes" /\ MayPark(g, "down")
  /\ cur # NoGen /\ NameOf(g) \in {NoGen, cur}
  /\ Park(g, "down", "evDisconnect", cur)
  /\ UNCHANGED <<supVars, connVars, epochVars, loop, appVars, start, up, t7>>

\* injectT7Expiry: no generation check at report time.
T7Expired(g) ==
  /\ g \in t7 /\ MayPark(g, "t7") /\ cur # NoGen
  /\ t7' = t7 \ {g}
  /\ Park(g, "t7", "evT7Timeout", IF Named THEN g ELSE cur)
  /\ UNCHANGED <<supVars, connVars, epochVars, loop, appVars, start, up>>

\* injectFrom: a blocking send on the event queue. A select commit then cancels
\* the T7 dwell, a select-lost re-arms it.
Inject(p) ==
  /\ p \in pend /\ Len(events) < QueueCap
  /\ pend' = pend \ {p}
  /\ events' = Append(events, [ev |-> p.ev, gen |-> p.gen])
  /\ t7' = IF p.ev = "evSelectAccepted" THEN t7 \ {p.by[1]}
           ELSE IF p.ev = "evSelectLost" THEN t7 \cup {p.by[1]} ELSE t7
  /\ UNCHANGED <<state, lastReacted, closed, sup, runDone, connVars, epochVars, loop,
                 appVars, start, up>>

Transport ==
  \/ \E g \in Gen :
       \/ \E ok \in BOOLEAN : StartReturns(g, ok)
       \/ PublishSocket(g) \/ CommitConnected(g) \/ TCPUpAgain(g)
       \/ CommitSelected(g) \/ CommitSelectLost(g) \/ TCPDown(g) \/ T7Expired(g)
  \/ \E p \in pend : Inject(p)

-----------------------------------------------------------------------------
Next == \/ Supervisor
        \/ \E g \in Gen : Join(g) \/ Loop(g)
        \/ Application
        \/ Transport

Spec == Init /\ [][Next]_vars
-----------------------------------------------------------------------------
(* Safety. *)

Published(g) == start[g] # "no"

\* connection.cur: a generation other than the current one was torn down and
\* joined before its successor was published (connectLoopAwaitBarrier, Open).
OneLiveGeneration == \A g \in Gen : Published(g) /\ g # cur => g \in done

\* supervisor.step's fence argument: the FSM leaves NotConnected only through a
\* TCP-up commit of the generation that is current, so a state other than
\* NotConnected never outlives the generation it belongs to.
StateBelongsToCurrent == state # "NotConnected" => cur \in upCommitted

\* connectLoop's startReturned barrier: no two Start calls are in flight at once.
OneStartInFlight ==
  \A g, h \in Gen : StartRunning(g) /\ StartRunning(h) => g = h

\* The loops between the claim of the retry gauge and its release.
OwnsGauge(p) == loop[p].pc \in {"sleep", "fence", "publish", "start", "failwait"}

\* connectLoop: "A successor can therefore never observe two owners' shares at once".
OneGaugeOwner == \A p, q \in Gen : OwnsGauge(p) /\ OwnsGauge(q) => p = q

\* react and Open's cold branch start at most one reconnect loop per generation.
LoopSpawnedOnce ==
  /\ sup.pc = "spawn" => loop[sup.e].pc = "none"
  /\ app.pc = "open_cold" => loop[app.e].pc = "none"

\* Close and a failed Open return only when every generation is joined and no
\* reconnect loop is left; nothing is published after that.
CloseLeavesNothing ==
  app.pc = "idle" /\ runDone =>
    /\ \A g \in Gen : Published(g) => g \in done
    /\ \A p \in Gen : LoopOver(p)

\* rollbackFailedOpen, on its re-pin: "e's own barrier ... already keeps that
\* from happening for e itself"; the generation it closes is the one it opened.
RollbackPinsOwnGeneration == app.pc = "wait" => app.pin = app.e

\* publishSocket: a generation whose teardown was joined holds no socket.
SocketsReleased == conn \cap done = {}

\* supervisor.step: an event of one generation never drops another's link, and
\* (E37 9.2.2) the T7 dwell never drops a session that was selected meanwhile.
DropIsDue ==
  [][ /\ state # "NotConnected" /\ state' = "NotConnected" /\ sup.gen # NoGen
         /\ app' = app => sup.gen = cur
      /\ state = "Selected" /\ sup.pc = "apply" /\ sup.ev = "evT7Timeout"
           => state' # "NotConnected" ]_vars

\* The comment in step on evSelectLost: it is superseded only by a select
\* committed after it, whose own event is then still to be processed.
SupersededOnlyByReselect ==
  sup.pc = "loaded" /\ SupersededSelectLost /\ ~StaleEvent =>
    \/ \E p \in pend : p.ev = "evSelectAccepted"
    \/ \E i \in 1 .. Len(events) : events[i].ev = "evSelectAccepted"

\* The doc of connection.State: after Close it reports NotConnected.
ClosedReportsNotConnected ==
  app.pc = "idle" /\ runDone => state = "NotConnected"

-----------------------------------------------------------------------------
(* Fairness: every goroutine of the core runs; Start, a bounded dial or a     *)
(* listen, returns; blocked senders of a Go channel are served in order, so a *)
(* parked injection gets its slot; a select with several ready cases picks    *)
(* each in the end (SupStop). The environment owes nothing else.              *)
Progress ==
  \/ OpenPublish \/ OpenStarted \/ OpenWaited \/ OpenStartFailed(FALSE) \/ OpenCold
  \/ Rollback \/ CloseEnter \/ CloseWait \/ CloseReturn

Fairness ==
  /\ WF_vars(Supervisor) /\ WF_vars(SupStop)
  /\ WF_vars(\E g \in Gen : Join(g))
  /\ \A p \in Gen : WF_vars(Loop(p))
  /\ WF_vars(Progress) /\ SF_vars(CloseInject)
  /\ SF_vars(\E p \in Gen : LoopInject(p))
  /\ SF_vars(\E p \in pend : Inject(p))
  /\ WF_vars(\E g \in Gen : CommitConnected(g) \/ \E ok \in BOOLEAN : StartReturns(g, ok))

FairSpec == Spec /\ Fairness

\* Close is never stuck: it gets lifeMu from an Open in progress and returns.
CloseReturns == pendingCloses > 0 ~> (pendingCloses = 0 /\ app.pc = "idle")

\* Generation g is current on an open connection, and its link is gone: g came up
\* and the FSM is back in NotConnected, or g ended.
LinkLost(g) == /\ cur = g /\ ~shutdown
               /\ g \in ended \/ (g \in upCommitted /\ state = "NotConnected")

\* react, connectLoop and its handoff: a drop is always followed up. While the
\* connection is open, a lost link leads to a reconnect loop that is past its
\* barrier and retrying, to the next generation, or to a shutdown (Close, or the
\* rollback of the Open it failed).
ReconnectReached ==
  \A g \in Gen : LinkLost(g) ~> (\E p \in Gen : OwnsGauge(p)) \/ cur # g \/ shutdown
=============================================================================
