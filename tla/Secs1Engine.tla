----------------------------- MODULE Secs1Engine -----------------------------
(***************************************************************************)
(* secs1/transport.go: how generations of the SECS-I transport start and   *)
(* stop, and how senders hand their blocks to the one line engine. What the*)
(* engine does on the line is Secs1Line; what its sink does, Secs1Assembler.*)
(*                                                                         *)
(* The core (Connection) arms and starts a generation when the Stop of the *)
(* previous one has returned, and stops it once its epoch has ended. Start *)
(* and Stop of one generation may overlap; a bounded Stop may abandon the  *)
(* engine, which then still runs on its own socket and channels.           *)
(***************************************************************************)
EXTENDS Naturals, FiniteSets

CONSTANTS
  MaxGen,     \* bound: generations
  Sender,     \* synchronous senders, each with one frame
  SendCap,    \* capacity of epoch.sendCh
  MaxApp,     \* bound: frames the application sends, either way
  MaxBad      \* bound: inbound blocks that are answered with S9F1 / S9F7

Gen == 1 .. MaxGen
NoGen == 0
Drain == Gen                     \* drainSendCh of each generation
Writer == Drain \cup Sender

ASSUME EngineAssumption ==
  /\ MaxGen \in Nat \ {0} /\ Sender \cap Nat = {}
  /\ SendCap \in Nat \ {0} /\ MaxApp \in Nat /\ MaxBad \in Nat

VARIABLES
  active,                          \* cfg.isActive: dial, else listen and accept
  cur, ended,                      \* the core: current generation; epochs over
  stopping,                        \* t.stopping
  conn, listener, gen,             \* t.conn, t.listener, t.gen: whose they are
  closedDone, cancelled,           \* genDone channels closed, engine ctxs cancelled
  sock, ln,                        \* open sockets and listeners
  dropped,                         \* sockets the peer closed
  start, accept, stop, engine,     \* program points of each generation
  notifyTo,                        \* the epoch an engine's SendAsync resolved
  sendCh,                          \* frames queued per epoch
  pc, epoch, via, result, writeMu, \* the writers
  used, bad                      \* bounds used up

coreVars == <<active, cur, ended>>
fields == <<stopping, conn, listener, gen>>
world == <<closedDone, cancelled, sock, ln, dropped>>
writers == <<pc, epoch, via, result, writeMu>>
vars == <<coreVars, fields, world, start, accept, stop, engine, notifyTo, sendCh,
          writers, used, bad>>

Init ==
  /\ active \in BOOLEAN /\ cur = NoGen /\ ended = {} /\ stopping = FALSE
  /\ conn = NoGen /\ listener = NoGen /\ gen = NoGen
  /\ closedDone = {} /\ cancelled = {} /\ sock = {} /\ ln = {} /\ dropped = {}
  /\ start = [g \in Gen |-> "none"] /\ accept = [g \in Gen |-> "none"]
  /\ stop = [g \in Gen |-> "none"] /\ engine = [g \in Gen |-> "none"]
  /\ notifyTo = [g \in Gen |-> NoGen] /\ sendCh = [g \in Gen |-> 0]
  /\ pc = [w \in Writer |-> "idle"] /\ epoch = [w \in Writer |-> NoGen]
  /\ via = [w \in Writer |-> NoGen] /\ result = [w \in Writer |-> "none"]
  /\ writeMu = [g \in Gen |-> {}] /\ used = 0 /\ bad = 0

\* Every variable has its type, and writeMu is held by one writer at a time.
TypeOK ==
  /\ active \in BOOLEAN /\ cur \in Gen \cup {NoGen} /\ ended \subseteq Gen
  /\ stopping \in BOOLEAN /\ {conn, listener, gen} \subseteq Gen \cup {NoGen}
  /\ closedDone \cup cancelled \cup sock \cup ln \cup dropped \subseteq Gen
  /\ start \in [Gen -> {"none", "dial", "gate", "commit", "ok", "err"}]
  /\ accept \in [Gen -> {"none", "first", "adopt", "commit", "refuse", "exit"}]
  /\ stop \in [Gen -> {"none", "sealed", "accept", "line", "done"}]
  /\ engine \in [Gen -> {"none", "poll", "send", "notify", "sendnotify", "down", "exit"}]
  /\ notifyTo \in [Gen -> Gen \cup {NoGen}] /\ sendCh \in [Gen -> 0 .. SendCap]
  /\ pc \in [Writer -> {"idle", "lock", "check", "load", "handoff", "await", "done"}]
  /\ epoch \in [Writer -> Gen \cup {NoGen}] /\ via \in [Writer -> Gen \cup {NoGen}]
  /\ result \in [Writer -> {"none", "ok", "err"}]
  /\ writeMu \in [Gen -> SUBSET Writer]
  /\ \A g \in Gen : Cardinality(writeMu[g]) <= 1
  /\ used \in 0 .. MaxApp /\ bad \in 0 .. MaxBad

-----------------------------------------------------------------------------
(* The core: a generation's epoch ends, and the next is armed and started.   *)

\* startGate is held for reading from the seal check to the spawn.
GateHeld(g) == start[g] = "commit" \/ accept[g] = "commit"

\* epoch.teardown: the epoch ctx (the engine ctx's parent), then the socket, if
\* TCPUp has handed it to the epoch yet.
Teardown ==
  /\ cur # NoGen /\ cur \notin ended
  /\ ended' = ended \cup {cur}
  /\ cancelled' = cancelled \cup {cur}
  /\ \/ conn = cur /\ sock' = sock \ {cur}
     \/ (conn # cur \/ GateHeld(cur)) /\ UNCHANGED sock
  /\ UNCHANGED <<active, cur, fields, closedDone, ln, dropped, start, accept, stop, engine,
                 notifyTo, sendCh, writers, used, bad>>

\* ArmStart clears the seal and installs fresh channels; Start follows.
ArmStart ==
  /\ cur < MaxGen
  /\ cur # NoGen => stop[cur] = "done" /\ start[cur] \in {"ok", "err"}
  /\ cur' = cur + 1
  /\ stopping' = FALSE
  /\ start' = [start EXCEPT ![cur + 1] = "dial"]
  /\ UNCHANGED <<active, ended, conn, listener, gen, world, accept, stop, engine, notifyTo,
                 sendCh, writers, used, bad>>

-----------------------------------------------------------------------------
(* startActive, startPassive and acceptLoop.                                 *)

\* The dial or listen, outside startGate.
Dialed(g) ==
  /\ start[g] = "dial"
  /\ start' = [start EXCEPT ![g] = "gate"]
  /\ IF active THEN sock' = sock \cup {g} /\ UNCHANGED <<ln, listener>>
     ELSE ln' = ln \cup {g} /\ listener' = g /\ UNCHANGED sock
  /\ UNCHANGED <<coreVars, stopping, conn, gen, closedDone, cancelled, dropped,
                 accept, stop, engine, notifyTo, sendCh, writers, used, bad>>

DialFails(g) ==
  /\ start[g] = "dial"
  /\ start' = [start EXCEPT ![g] = "err"]
  /\ cancelled' = cancelled \cup {g}
  /\ UNCHANGED <<coreVars, fields, closedDone, sock, ln, dropped, accept, stop, engine,
                 notifyTo, sendCh, writers, used, bad>>

\* The seal, read under startGate.RLock.
Sealed == stopping

\* A sealed start closes the socket it dialled. Faulty variant: it does not.
SocketsAfterAbortAll(g) == sock
SocketsAfterAbort(g) == sock \ {g}

StartAborts(g) ==
  /\ start[g] = "gate" /\ Sealed
  /\ start' = [start EXCEPT ![g] = "err"]
  /\ cancelled' = cancelled \cup {g}
  /\ sock' = SocketsAfterAbort(g) /\ ln' = ln \ {g}
  /\ listener' = IF active THEN listener ELSE NoGen
  /\ UNCHANGED <<coreVars, stopping, conn, gen, closedDone, dropped, accept,
                 stop, engine, notifyTo, sendCh, writers, used, bad>>

\* Publish the socket and the send plumbing, then commit; startGate.RLock is
\* held from the seal check to the spawn of the engine.
StartPublishes(g) ==
  /\ active /\ start[g] = "gate" /\ ~Sealed
  /\ start' = [start EXCEPT ![g] = "commit"]
  /\ conn' = g /\ gen' = g
  /\ UNCHANGED <<coreVars, stopping, listener, world, accept, stop, engine,
                 notifyTo, sendCh, writers, used, bad>>

StartSpawns(g) ==
  /\ start[g] = "commit"
  /\ start' = [start EXCEPT ![g] = "ok"]
  /\ engine' = [engine EXCEPT ![g] = "poll"]
  /\ UNCHANGED <<coreVars, fields, world, accept, stop, notifyTo, sendCh, writers,
                 used, bad>>

StartListens(g) ==
  /\ ~active /\ start[g] = "gate" /\ ~Sealed
  /\ start' = [start EXCEPT ![g] = "ok"]
  /\ accept' = [accept EXCEPT ![g] = "first"]
  /\ UNCHANGED <<coreVars, fields, world, stop, engine, notifyTo, sendCh, writers,
                 used, bad>>

\* Accept may hand out a queued peer even as the listener is being closed.
AcceptPeer(g) ==
  /\ accept[g] = "first"
  /\ accept' = [accept EXCEPT ![g] = "adopt"]
  /\ sock' = sock \cup {g}
  /\ UNCHANGED <<coreVars, fields, closedDone, cancelled, ln, dropped, start, stop,
                 engine, notifyTo, sendCh, writers, used, bad>>

AcceptAdopts(g) ==
  /\ accept[g] = "adopt"
  /\ IF Sealed
     THEN /\ sock' = sock \ {g}
          /\ accept' = [accept EXCEPT ![g] = "exit"]
          /\ UNCHANGED <<conn, gen>>
     ELSE /\ conn' = g /\ gen' = g
          /\ accept' = [accept EXCEPT ![g] = "commit"]
          /\ UNCHANGED sock
  /\ UNCHANGED <<coreVars, stopping, listener, closedDone, cancelled, ln,
                 dropped, start, stop, engine, notifyTo, sendCh, writers, used, bad>>

AcceptSpawns(g) ==
  /\ accept[g] = "commit"
  /\ accept' = [accept EXCEPT ![g] = "refuse"]
  /\ engine' = [engine EXCEPT ![g] = "poll"]
  /\ UNCHANGED <<coreVars, fields, world, start, stop, notifyTo, sendCh, writers,
                 used, bad>>

\* Accept on a closed listener ends the goroutine, before or after a peer.
AcceptExits(g) ==
  /\ accept[g] \in {"first", "refuse"} /\ g \notin ln
  /\ accept' = [accept EXCEPT ![g] = "exit"]
  /\ UNCHANGED <<coreVars, fields, world, start, stop, engine, notifyTo, sendCh,
                 writers, used, bad>>

Starting(g) == \/ Dialed(g) \/ DialFails(g) \/ StartAborts(g) \/ StartPublishes(g)
               \/ StartSpawns(g) \/ StartListens(g)
Accepting(g) == AcceptPeer(g) \/ AcceptAdopts(g) \/ AcceptSpawns(g) \/ AcceptExits(g)

-----------------------------------------------------------------------------
(* Stop, called by epoch.join.                                               *)

\* startGate.Lock waits out the sections that hold it for reading.
StopSeals(g) ==
  /\ g = cur /\ g \in ended /\ stop[g] = "none" /\ ~GateHeld(g)
  /\ stopping' = TRUE
  /\ stop' = [stop EXCEPT ![g] = "sealed"]
  /\ UNCHANGED <<coreVars, conn, listener, gen, world, start, accept, engine,
                 notifyTo, sendCh, writers, used, bad>>

\* Take the fields (connMu), broadcast genDone, close the listener and the socket.
\* (engineCancel is a no-op here: its parent, the epoch ctx, is cancelled.)
StopTakes(g) ==
  /\ stop[g] = "sealed"
  /\ stop' = [stop EXCEPT ![g] = "accept"]
  /\ conn' = NoGen /\ listener' = NoGen /\ gen' = NoGen
  /\ closedDone' = closedDone \cup {g}
  /\ sock' = sock \ {conn} /\ ln' = ln \ {listener}
  /\ UNCHANGED <<coreVars, stopping, cancelled, dropped, start, accept, engine, notifyTo,
                 sendCh, writers, used, bad>>

\* Join the accept goroutine, then take a socket it published late.
StopJoinsAccept(g) ==
  /\ stop[g] = "accept" /\ accept[g] \in {"none", "exit"}
  /\ stop' = [stop EXCEPT ![g] = "line"]
  /\ conn' = NoGen /\ gen' = NoGen
  /\ sock' = sock \ {conn}
  /\ UNCHANGED <<coreVars, stopping, listener, closedDone, cancelled, ln,
                 dropped, start, accept, engine, notifyTo, sendCh, writers, used, bad>>

\* The bounded join of the engine ends, or times out and abandons it.
StopReturns(g) ==
  /\ stop[g] = "line"
  /\ stop' = [stop EXCEPT ![g] = "done"]
  /\ UNCHANGED <<coreVars, fields, world, start, accept, engine, notifyTo, sendCh,
                 writers, used, bad>>

Stop(g) == StopSeals(g) \/ StopTakes(g) \/ StopJoinsAccept(g) \/ StopReturns(g)

-----------------------------------------------------------------------------
(* lineEngine of generation g, on the socket and channels of g.              *)

\* (1) the teardown broadcast.
EngineExits(g) ==
  /\ engine[g] = "poll" /\ g \in closedDone
  /\ engine' = [engine EXCEPT ![g] = "exit"]
  /\ UNCHANGED <<coreVars, fields, world, start, accept, stop, notifyTo, sendCh, writers,
                 used, bad>>

\* (2) a writer's hand-off on the unbuffered sendReqCh.
EngineTakes(g, w) ==
  /\ engine[g] = "poll" /\ pc[w] = "handoff" /\ via[w] = g
  /\ engine' = [engine EXCEPT ![g] = "send"]
  /\ pc' = [pc EXCEPT ![w] = "await"]
  /\ UNCHANGED <<coreVars, fields, world, start, accept, stop, notifyTo, sendCh, epoch,
                 via, result, writeMu, used, bad>>

\* The send ends; its result goes to the buffered req.done of the writer that
\* still waits for it.
EngineSent(g, res) ==
  /\ engine[g] = "send"
  /\ res = "ok" => g \in sock \ dropped
  /\ engine' = [engine EXCEPT ![g] = "poll"]
  /\ result' = [w \in Writer |-> IF pc[w] = "await" /\ via[w] = g /\ result[w] = "none"
                                 THEN res ELSE result[w]]
  /\ UNCHANGED <<coreVars, fields, world, start, accept, stop, notifyTo, sendCh, pc,
                 epoch, via, writeMu, used, bad>>

\* (4), and a contention yield within a send: a received block the sink answers
\* with S9F1 or S9F7. SendAsync resolves the epoch that is current now. (A block
\* that is not answered leaves the engine where it was.)
EngineNotifies(g) ==
  /\ engine[g] \in {"poll", "send"} /\ g \in sock \ dropped /\ bad < MaxBad
  /\ bad' = bad + 1
  /\ engine' = [engine EXCEPT ![g] = IF @ = "poll" THEN "notify" ELSE "sendnotify"]
  /\ notifyTo' = [notifyTo EXCEPT ![g] = cur]
  /\ UNCHANGED <<coreVars, fields, world, start, accept, stop, sendCh, writers, used>>

\* enqueueAsync on that epoch, inline on the engine's goroutine: released by a
\* free slot or by the end of the epoch, context.Background never is.
EnqueueOver(e) == e \in ended

HasRoom(e) == sendCh[e] < SendCap

EngineEnqueued(g) ==
  /\ engine[g] \in {"notify", "sendnotify"}
  /\ \/ /\ HasRoom(notifyTo[g])
        /\ sendCh' = [sendCh EXCEPT ![notifyTo[g]] = @ + 1]
     \/ EnqueueOver(notifyTo[g]) /\ UNCHANGED sendCh
  /\ engine' = [engine EXCEPT ![g] = IF @ = "notify" THEN "poll" ELSE "send"]
  /\ UNCHANGED <<coreVars, fields, world, start, accept, stop, notifyTo, writers,
                 used, bad>>

\* (3) a read error: TCPDown unless the engine ctx is cancelled (C1).
ReportsDown(g) == g \notin cancelled

EngineReadFails(g) ==
  /\ engine[g] = "poll" /\ (g \notin sock \/ g \in dropped)
  /\ engine' = [engine EXCEPT ![g] = IF ReportsDown(g) THEN "down" ELSE "exit"]
  /\ UNCHANGED <<coreVars, fields, world, start, accept, stop, notifyTo, sendCh, writers,
                 used, bad>>

\* tcpDown: the supervisor drops the link it is reported for (gen 0: whatever
\* generation is current), and the engine is gone.
EngineReportsDown(g) ==
  /\ engine[g] = "down"
  /\ engine' = [engine EXCEPT ![g] = "exit"]
  /\ UNCHANGED <<coreVars, fields, world, start, accept, stop, notifyTo, sendCh, writers,
                 used, bad>>

PeerDrops(g) ==
  /\ g \in sock \ dropped
  /\ dropped' = dropped \cup {g}
  /\ UNCHANGED <<coreVars, fields, closedDone, cancelled, sock, ln, start, accept, stop,
                 engine, notifyTo, sendCh, writers, used, bad>>

Engine(g) == \/ EngineExits(g) \/ EngineEnqueued(g) \/ EngineReadFails(g)
             \/ EngineReportsDown(g)
             \/ \E w \in Writer : EngineTakes(g, w)
             \/ \E res \in {"ok", "err"} : EngineSent(g, res)

-----------------------------------------------------------------------------
(* Writers: SendAsync and drainSendCh, synchronous sends, writeFrame, Write.  *)

AppSendAsync ==
  /\ cur # NoGen /\ used < MaxApp /\ HasRoom(cur)
  /\ used' = used + 1
  /\ sendCh' = [sendCh EXCEPT ![cur] = @ + 1]
  /\ UNCHANGED <<coreVars, fields, world, start, accept, stop, engine, notifyTo, writers,
                 bad>>

DrainTakes(g) ==
  /\ pc[g] = "idle" /\ sendCh[g] > 0
  /\ sendCh' = [sendCh EXCEPT ![g] = @ - 1]
  /\ pc' = [pc EXCEPT ![g] = "lock"] /\ epoch' = [epoch EXCEPT ![g] = g]
  /\ UNCHANGED <<coreVars, fields, world, start, accept, stop, engine, notifyTo, via,
                 result, writeMu, used, bad>>

DrainExits(g) ==
  /\ pc[g] = "idle" /\ g \in ended
  /\ pc' = [pc EXCEPT ![g] = "done"]
  /\ UNCHANGED <<coreVars, fields, world, start, accept, stop, engine, notifyTo, sendCh,
                 epoch, via, result, writeMu, used, bad>>

SendBegins(w) ==
  /\ w \in Sender /\ pc[w] = "idle" /\ cur # NoGen /\ used < MaxApp
  /\ used' = used + 1
  /\ pc' = [pc EXCEPT ![w] = "lock"] /\ epoch' = [epoch EXCEPT ![w] = cur]
  /\ UNCHANGED <<coreVars, fields, world, start, accept, stop, engine, notifyTo, sendCh,
                 via, result, writeMu, bad>>

WriteLocks(w) ==
  /\ pc[w] = "lock" /\ writeMu[epoch[w]] = {}
  /\ writeMu' = [writeMu EXCEPT ![epoch[w]] = {w}]
  /\ pc' = [pc EXCEPT ![w] = "check"]
  /\ UNCHANGED <<coreVars, fields, world, start, accept, stop, engine, notifyTo, sendCh,
                 epoch, via, result, used, bad>>

\* Write returns and writeFrame releases writeMu.
ReturnsTo(w) == IF w \in Drain THEN "idle" ELSE "done"
Returns(w, res) ==
  /\ pc' = [pc EXCEPT ![w] = ReturnsTo(w)]
  /\ writeMu' = [writeMu EXCEPT ![epoch[w]] = {}]
  /\ via' = [via EXCEPT ![w] = NoGen]
  /\ result' = [result EXCEPT ![w] = IF w \in Drain THEN "none" ELSE res]
  /\ UNCHANGED <<coreVars, fields, world, start, accept, stop, engine, notifyTo, sendCh,
                 epoch, used, bad>>

\* liveConn: the epoch's own socket, nil before TCP-up and after the end.
WriteChecks(w) ==
  /\ pc[w] = "check"
  /\ IF epoch[w] \in ended \/ conn # epoch[w]
     THEN Returns(w, "err")
     ELSE /\ pc' = [pc EXCEPT ![w] = "load"]
          /\ UNCHANGED <<coreVars, fields, world, start, accept, stop, engine, notifyTo,
                         sendCh, epoch, via, result, writeMu, used, bad>>

\* t.gen.Load(), bound to the caller's socket. Faulty variant: it is not bound.
BoundAny(w) == gen # NoGen
Bound(w) == gen = epoch[w]

WriteLoads(w) ==
  /\ pc[w] = "load"
  /\ IF Bound(w)
     THEN /\ via' = [via EXCEPT ![w] = gen]
          /\ pc' = [pc EXCEPT ![w] = "handoff"]
          /\ UNCHANGED <<coreVars, fields, world, start, accept, stop, engine, notifyTo,
                         sendCh, epoch, result, writeMu, used, bad>>
     ELSE Returns(w, "err")

\* genDone releases the hand-off and the wait for the result.
\* Faulty variant: only the wait.
ReleasedAwait(w) == pc[w] = "await" /\ via[w] \in closedDone
Released(w) == pc[w] \in {"handoff", "await"} /\ via[w] \in closedDone

WriteReleased(w) == Released(w) /\ Returns(w, "err")

WriteDone(w) == pc[w] = "await" /\ result[w] # "none" /\ Returns(w, result[w])

Write(w) == WriteLocks(w) \/ WriteChecks(w) \/ WriteLoads(w) \/ WriteReleased(w) \/ WriteDone(w)

-----------------------------------------------------------------------------
Next ==
  \/ Teardown \/ ArmStart \/ AppSendAsync
  \/ \E g \in Gen :
       \/ Starting(g) \/ Accepting(g) \/ Stop(g)
       \/ Engine(g) \/ EngineNotifies(g) \/ PeerDrops(g)
       \/ DrainTakes(g) \/ DrainExits(g)
  \/ \E w \in Writer : Write(w) \/ SendBegins(w)

Spec == Init /\ [][Next]_vars

-----------------------------------------------------------------------------
(* Safety. *)

\* Write's binding: blocks are handed only to the engine of the generation whose
\* socket the sender was given, "NEVER handed onto a successor generation's
\* channel", though gen is read after the socket.
HandedToOwnEngine ==
  \A w \in Writer : pc[w] \in {"handoff", "await"} => via[w] = epoch[w]

\* Stop: "no live bundle survives Stop", whatever a Start or an accept that
\* overlaps it was about to publish, and the sockets it published are closed.
\* C1: nobody takes our own teardown for a drop, the engine reports TCP-down only
\* for a line that the peer dropped.
StopIsClean ==
  \A g \in Gen :
    /\ stop[g] = "done" /\ start[g] \in {"ok", "err"} =>
         conn # g /\ gen # g /\ g \notin sock /\ g \notin ln
    /\ engine[g] = "down" => g \in dropped

\* What the goroutines of g can still do by themselves: not the peer, not the
\* application and not another generation.
Moves(g) == \/ Starting(g) \/ Accepting(g) \/ Stop(g) \/ Engine(g) \/ DrainTakes(g)
            \/ \E w \in Writer : epoch[w] = g /\ Write(w)

\* Teardown releases everyone: the goroutines of an ended generation come to rest
\* only when its Stop has returned, every writer has left Write, wherever it was
\* parked, and its engine is gone, even one that Stop abandoned.
RestsReleased ==
  \A g \in ended : ENABLED Moves(g) \/
    /\ stop[g] = "done" /\ engine[g] \in {"none", "exit"}
    /\ \A w \in Writer : epoch[w] = g => pc[w] \in {"idle", "done"}

-----------------------------------------------------------------------------
(* Fairness: every goroutine runs, a line transaction ends (its retries are   *)
(* bounded, or the socket closes), a dial or listen returns. The peer, the    *)
(* application and the end of an epoch owe nothing.                           *)
Fairness ==
  /\ \A g \in Gen : /\ WF_vars(Starting(g) \/ Accepting(g)) /\ WF_vars(Stop(g))
                    /\ WF_vars(Engine(g)) /\ WF_vars(DrainTakes(g) \/ Write(g))
  /\ \A w \in Sender : WF_vars(Write(w))

FairSpec == Spec /\ Fairness

\* SendAsync's doc: the enqueue is bounded "so it never blocks forever on a
\* wedged peer"; the engine that answers a bad block gets past it.
NotifyReturns ==
  \A g \in Gen : engine[g] \in {"notify", "sendnotify"} ~> engine[g] \notin {"notify", "sendnotify"}
=============================================================================
