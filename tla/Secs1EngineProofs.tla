-------------------------- MODULE Secs1EngineProofs --------------------------
(***************************************************************************)
(* Proofs about Secs1Engine: a stopped generation leaves nothing behind,   *)
(* the engine takes no teardown of its own for a drop, and a block is      *)
(* handed only to the engine of the sender's own generation.               *)
(***************************************************************************)
EXTENDS Secs1Engine, TLAPS

-----------------------------------------------------------------------------
(* The inductive invariant.                                                  *)

LifeTypes ==
  /\ cur \in Gen \cup {NoGen} /\ conn \in Gen \cup {NoGen} /\ listener \in Gen \cup {NoGen}
  /\ start \in [Gen -> {"none", "dial", "gate", "commit", "ok", "err"}]
  /\ accept \in [Gen -> {"none", "first", "adopt", "commit", "refuse", "exit"}]
  /\ stop \in [Gen -> {"none", "sealed", "accept", "line", "done"}]

\* Where the generations stand: those before cur are stopped and those after it
\* not begun; from Stop's seal on, nothing of cur is published any more.
OrderInv ==
  /\ gen = conn /\ ended \subseteq cancelled /\ (active => listener = NoGen)
  /\ stopping => cur # NoGen /\ stop[cur] # "none"
  /\ \A g \in Gen :
       /\ g > cur => /\ start[g] = "none" /\ stop[g] = "none" /\ accept[g] = "none"
                     /\ conn # g /\ listener # g /\ g \notin ended
       /\ g < cur => stop[g] = "done" /\ start[g] \in {"ok", "err"}
       /\ stop[g] # "none" => g \in ended /\ (g = cur => stopping)
       /\ stop[g] \in {"accept", "line", "done"} =>
            conn # g /\ (listener = g => start[g] = "gate")
       /\ stop[g] \in {"line", "done"} => accept[g] \in {"none", "exit"}
       /\ accept[g] # "none" => start[g] = "ok"

\* Who holds a socket between the dial or accept and its publication.
Unpublished(g) == (active /\ start[g] = "gate") \/ accept[g] = "adopt"

\* Every open socket and listener has somebody who will close it, and a socket is
\* closed under an engine only after the engine's ctx was cancelled.
SocketInv ==
  \A g \in Gen :
    /\ g \in sock => conn = g \/ Unpublished(g)
    /\ g \in ln => listener = g
    /\ Unpublished(g) \/ GateHeld(g) \/ engine[g] # "none" => g \in sock \cup cancelled

LifeInv == LifeTypes /\ OrderInv /\ SocketInv

\* What an engine reports: only a line that the peer dropped.
DownInv ==
  /\ engine \in [Gen -> {"none", "poll", "send", "notify", "sendnotify", "down", "exit"}]
  /\ \A g \in Gen : engine[g] = "down" => g \in dropped

\* The writers: writeMu of the epoch is held from the lock to the return of Write,
\* and a hand-off is bound to the generation of that epoch.
WriterInv ==
  /\ pc \in [Writer -> {"idle", "lock", "check", "load", "handoff", "await", "done"}]
  /\ epoch \in [Writer -> Gen \cup {NoGen}] /\ via \in [Writer -> Gen \cup {NoGen}]
  /\ writeMu \in [Gen -> SUBSET Writer]
  /\ \A w \in Writer :
       /\ pc[w] = "lock" => epoch[w] \in Gen
       /\ pc[w] \in {"check", "load", "handoff", "await"} =>
            epoch[w] \in Gen /\ writeMu[epoch[w]] = {w}
       /\ pc[w] \in {"handoff", "await"} => via[w] = epoch[w]

EngineInv == LifeInv /\ DownInv /\ WriterInv

-----------------------------------------------------------------------------
(* Start, accept and Stop preserve LifeInv.                                  *)

\* Generations are positive numbers, so that NoGen is none of them.
LEMMA Gens == NoGen \notin Gen /\ \A g \in Gen : g \in Nat
BY EngineAssumption DEF Gen, NoGen

\* Whatever is on its way, or published, belongs to the current generation; the
\* seal is set exactly from the moment its Stop has begun, after its epoch ended.
LEMMA CurrentFacts ==
  ASSUME LifeInv
  PROVE  /\ \A g \in Gen :
              \/ start[g] \in {"dial", "gate", "commit"} \/ conn = g \/ listener = g
              \/ accept[g] \in {"first", "adopt", "commit", "refuse"}
              \/ stop[g] \in {"sealed", "accept", "line"}
              => g = cur
         /\ stopping => cur \in Gen /\ cur \in cancelled
         /\ ~stopping /\ cur \in Gen => stop[cur] = "none"
<1>1. ASSUME NEW g \in Gen, g < cur
      PROVE  /\ start[g] \in {"ok", "err"} /\ stop[g] = "done"
             /\ accept[g] \in {"none", "exit"} /\ conn # g /\ listener # g
  BY <1>1 DEF LifeInv, OrderInv
<1>2. ASSUME NEW g \in Gen, g > cur
      PROVE  /\ start[g] = "none" /\ stop[g] = "none" /\ accept[g] = "none"
             /\ conn # g /\ listener # g
  BY <1>2 DEF LifeInv, OrderInv
<1>3. ASSUME NEW g \in Gen PROVE g < cur \/ g > cur \/ g = cur
  BY Gens DEF LifeInv, LifeTypes, NoGen
<1>4. stopping => cur \in Gen /\ cur \in cancelled
  BY DEF LifeInv, LifeTypes, OrderInv
<1>5. ~stopping /\ cur \in Gen => stop[cur] = "none" BY DEF LifeInv, OrderInv
<1>. QED BY <1>1, <1>2, <1>3, <1>4, <1>5

\* A step that leaves the generations alone and starts no engine keeps LifeInv.
LEMMA KeepLife ==
  ASSUME LifeInv, UNCHANGED <<coreVars, fields, cancelled, sock, ln, start, accept, stop>>,
         \A g \in Gen : engine'[g] # "none" => engine[g] # "none"
  PROVE  LifeInv'
<1>1. LifeTypes' BY DEF LifeInv, LifeTypes, coreVars, fields
<1>2. OrderInv' BY DEF LifeInv, OrderInv, coreVars, fields
<1>3. SocketInv' BY DEF LifeInv, SocketInv, Unpublished, GateHeld, coreVars, fields
<1>. QED BY <1>1, <1>2, <1>3 DEF LifeInv

USE Gens DEF LifeInv, LifeTypes, Unpublished, GateHeld, Sealed

\* epoch.teardown ends the current epoch: only its own socket closes, after its ctx.
LEMMA TeardownLife == ASSUME LifeInv, Teardown PROVE LifeInv'
<1>1. LifeTypes' BY DEF Teardown, fields
<1>2. OrderInv' BY CurrentFacts DEF OrderInv, Teardown, fields
<1>3. SocketInv' BY CurrentFacts DEF OrderInv, SocketInv, Teardown, fields
<1>. QED BY <1>1, <1>2, <1>3

\* ArmStart follows the Stop of the generation before and unseals the next.
LEMMA ArmStartLife == ASSUME LifeInv, ArmStart PROVE LifeInv'
<1>n. cur + 1 \in Gen /\ cur \in Nat /\ \A g \in Gen : g > cur \/ g = cur \/ g < cur
  BY EngineAssumption DEF ArmStart, Gen, NoGen
<1>1. LifeTypes' BY <1>n DEF ArmStart
<1>2. OrderInv'
  <2>1. ASSUME NEW g \in Gen PROVE g < cur' => stop[g] = "done" /\ start'[g] \in {"ok", "err"}
    BY <1>n DEF OrderInv, ArmStart, NoGen
  <2>2. ASSUME NEW g \in Gen, g > cur' PROVE g > cur /\ start'[g] = start[g]
    BY <2>2, <1>n DEF ArmStart
  <2>3. stop[cur'] = "none" /\ accept[cur'] = "none" /\ listener # cur' /\ conn # cur'
    BY <1>n DEF OrderInv, ArmStart
  <2>4. \A g \in Gen : g # cur' => start'[g] = start[g]
    BY <1>n DEF ArmStart
  <2>. QED BY <2>1, <2>2, <2>3, <2>4 DEF OrderInv, ArmStart, world
<1>3. SocketInv'
  BY CurrentFacts DEF OrderInv, SocketInv, ArmStart, world
<1>. QED BY <1>1, <1>2, <1>3

\* The dial or the listen of the current generation, sealed or not.
LEMMA DialedLife == ASSUME LifeInv, NEW g \in Gen, Dialed(g) PROVE LifeInv'
<1>1. LifeTypes' BY DEF Dialed, coreVars
<1>2. OrderInv' BY CurrentFacts DEF OrderInv, Dialed, coreVars
<1>3. SocketInv' BY CurrentFacts DEF OrderInv, SocketInv, Dialed, coreVars
<1>. QED BY <1>1, <1>2, <1>3

\* A failed dial holds nothing.
LEMMA DialFailsLife == ASSUME LifeInv, NEW g \in Gen, DialFails(g) PROVE LifeInv'
<1>1. LifeTypes' BY DEF DialFails, coreVars, fields
<1>2. OrderInv' BY CurrentFacts DEF OrderInv, DialFails, coreVars, fields
<1>3. SocketInv' BY CurrentFacts DEF OrderInv, SocketInv, DialFails, coreVars, fields
<1>. QED BY <1>1, <1>2, <1>3

\* A sealed start closes what it dialled or listened on.
LEMMA StartAbortsLife == ASSUME LifeInv, NEW g \in Gen, StartAborts(g) PROVE LifeInv'
<1>1. LifeTypes' BY DEF StartAborts, SocketsAfterAbort, coreVars
<1>2. OrderInv' BY CurrentFacts DEF OrderInv, StartAborts, SocketsAfterAbort, coreVars
<1>3. SocketInv'
  BY CurrentFacts DEF OrderInv, SocketInv, StartAborts, SocketsAfterAbort, coreVars
<1>. QED BY <1>1, <1>2, <1>3

\* An unsealed start publishes its socket before Stop can seal.
LEMMA StartPublishesLife == ASSUME LifeInv, NEW g \in Gen, StartPublishes(g) PROVE LifeInv'
<1>1. LifeTypes' BY DEF StartPublishes, coreVars, world
<1>2. OrderInv' BY CurrentFacts DEF OrderInv, StartPublishes, coreVars, world
<1>3. SocketInv' BY CurrentFacts DEF OrderInv, SocketInv, StartPublishes, coreVars, world
<1>. QED BY <1>1, <1>2, <1>3

\* The engine starts on the published socket.
LEMMA StartSpawnsLife == ASSUME LifeInv, NEW g \in Gen, StartSpawns(g) PROVE LifeInv'
<1>1. LifeTypes' BY DEF StartSpawns, coreVars, fields, world
<1>2. OrderInv' BY CurrentFacts DEF OrderInv, StartSpawns, coreVars, fields, world
<1>3. SocketInv' BY CurrentFacts DEF OrderInv, SocketInv, StartSpawns, coreVars, fields, world
<1>. QED BY <1>1, <1>2, <1>3

\* An unsealed passive start spawns acceptLoop.
LEMMA StartListensLife == ASSUME LifeInv, NEW g \in Gen, StartListens(g) PROVE LifeInv'
<1>1. LifeTypes' BY DEF StartListens, coreVars, fields, world
<1>2. OrderInv' BY CurrentFacts DEF OrderInv, StartListens, coreVars, fields, world
<1>3. SocketInv' BY CurrentFacts DEF OrderInv, SocketInv, StartListens, coreVars, fields, world
<1>. QED BY <1>1, <1>2, <1>3

\* acceptLoop holds the peer it accepted, even under a Stop.
LEMMA AcceptPeerLife == ASSUME LifeInv, NEW g \in Gen, AcceptPeer(g) PROVE LifeInv'
<1>1. LifeTypes' BY DEF AcceptPeer, coreVars, fields
<1>2. OrderInv' BY CurrentFacts DEF OrderInv, AcceptPeer, coreVars, fields
<1>3. SocketInv' BY CurrentFacts DEF OrderInv, SocketInv, AcceptPeer, coreVars, fields
<1>. QED BY <1>1, <1>2, <1>3

\* acceptLoop publishes the peer, or closes it when the seal is set.
LEMMA AcceptAdoptsLife == ASSUME LifeInv, NEW g \in Gen, AcceptAdopts(g) PROVE LifeInv'
<1>1. LifeTypes' BY DEF AcceptAdopts, coreVars
<1>2. OrderInv' BY CurrentFacts DEF OrderInv, AcceptAdopts, coreVars
<1>3. SocketInv' BY CurrentFacts DEF OrderInv, SocketInv, AcceptAdopts, coreVars
<1>. QED BY <1>1, <1>2, <1>3

\* The engine starts on the adopted peer.
LEMMA AcceptSpawnsLife == ASSUME LifeInv, NEW g \in Gen, AcceptSpawns(g) PROVE LifeInv'
<1>1. LifeTypes' BY DEF AcceptSpawns, coreVars, fields, world
<1>2. OrderInv' BY CurrentFacts DEF OrderInv, AcceptSpawns, coreVars, fields, world
<1>3. SocketInv' BY CurrentFacts DEF OrderInv, SocketInv, AcceptSpawns, coreVars, fields, world
<1>. QED BY <1>1, <1>2, <1>3

\* acceptLoop ends with its listener, holding no peer.
LEMMA AcceptExitsLife == ASSUME LifeInv, NEW g \in Gen, AcceptExits(g) PROVE LifeInv'
<1>1. LifeTypes' BY DEF AcceptExits, coreVars, fields, world
<1>2. OrderInv' BY CurrentFacts DEF OrderInv, AcceptExits, coreVars, fields, world
<1>3. SocketInv' BY CurrentFacts DEF OrderInv, SocketInv, AcceptExits, coreVars, fields, world
<1>. QED BY <1>1, <1>2, <1>3

\* Stop seals while nobody is between the seal check and the spawn.
LEMMA StopSealsLife == ASSUME LifeInv, NEW g \in Gen, StopSeals(g) PROVE LifeInv'
<1>1. LifeTypes' BY DEF StopSeals, coreVars, world
<1>2. OrderInv' BY CurrentFacts DEF OrderInv, StopSeals, coreVars, world
<1>3. SocketInv' BY CurrentFacts DEF OrderInv, SocketInv, StopSeals, coreVars, world
<1>. QED BY <1>1, <1>2, <1>3

\* Stop takes what is published and closes it.
LEMMA StopTakesLife == ASSUME LifeInv, NEW g \in Gen, StopTakes(g) PROVE LifeInv'
<1>1. LifeTypes' BY DEF StopTakes, coreVars
<1>2. OrderInv' BY CurrentFacts DEF OrderInv, StopTakes, coreVars
<1>3. SocketInv' BY CurrentFacts DEF OrderInv, SocketInv, StopTakes, coreVars
<1>. QED BY <1>1, <1>2, <1>3

\* Stop joins acceptLoop and takes what it published late.
LEMMA StopJoinsAcceptLife == ASSUME LifeInv, NEW g \in Gen, StopJoinsAccept(g) PROVE LifeInv'
<1>1. LifeTypes' BY DEF StopJoinsAccept, coreVars
<1>2. OrderInv' BY CurrentFacts DEF OrderInv, StopJoinsAccept, coreVars
<1>3. SocketInv' BY CurrentFacts DEF OrderInv, SocketInv, StopJoinsAccept, coreVars
<1>. QED BY <1>1, <1>2, <1>3

\* Stop returns, the engine joined or abandoned.
LEMMA StopReturnsLife == ASSUME LifeInv, NEW g \in Gen, StopReturns(g) PROVE LifeInv'
<1>1. LifeTypes' BY DEF StopReturns, coreVars, fields, world
<1>2. OrderInv' BY CurrentFacts DEF OrderInv, StopReturns, coreVars, fields, world
<1>3. SocketInv' BY CurrentFacts DEF OrderInv, SocketInv, StopReturns, coreVars, fields, world
<1>. QED BY <1>1, <1>2, <1>3

HIDE Gens DEF LifeInv, LifeTypes, Unpublished, GateHeld, Sealed

\* Start, accept, Stop, the engine and the writers: a step keeps LifeInv.
LEMMA LifeStep == ASSUME LifeInv, DownInv, [Next]_vars PROVE LifeInv'
<1>1. CASE Teardown \/ ArmStart BY <1>1, TeardownLife, ArmStartLife
<1>2. ASSUME NEW g \in Gen, Starting(g) \/ Accepting(g) \/ Stop(g) PROVE LifeInv'
  BY <1>2, DialedLife, DialFailsLife, StartAbortsLife, StartPublishesLife, StartSpawnsLife,
     StartListensLife, AcceptPeerLife, AcceptAdoptsLife, AcceptSpawnsLife, AcceptExitsLife,
     StopSealsLife, StopTakesLife, StopJoinsAcceptLife, StopReturnsLife, Zenon
     DEF Starting, Accepting, Stop
<1>3. CASE UNCHANGED <<coreVars, fields, cancelled, sock, ln, start, accept, stop, engine>>
  BY <1>3, KeepLife
<1>4. ASSUME NEW g \in Gen, Engine(g) \/ EngineNotifies(g) PROVE LifeInv'
  <2>1. UNCHANGED <<coreVars, fields, cancelled, sock, ln, start, accept, stop>>
    BY <1>4, Zenon DEF Engine, EngineNotifies, EngineExits, EngineEnqueued, EngineReadFails,
       EngineReportsDown, EngineTakes, EngineSent, world
  <2>2. engine[g] # "none" /\ \A h \in Gen : h # g => engine'[h] = engine[h]
    BY <1>4 DEF DownInv, Engine, EngineNotifies, EngineExits, EngineEnqueued, EngineReadFails,
       EngineReportsDown, EngineTakes, EngineSent
  <2>. QED BY <2>1, <2>2, KeepLife
<1>5. ASSUME NEW g \in Gen, PeerDrops(g) \/ DrainTakes(g) \/ DrainExits(g)
      PROVE  UNCHANGED <<coreVars, fields, cancelled, sock, ln, start, accept, stop, engine>>
  BY <1>5, Zenon DEF PeerDrops, DrainTakes, DrainExits, world
<1>6. ASSUME NEW w \in Writer, Write(w) \/ SendBegins(w)
      PROVE  UNCHANGED <<coreVars, fields, cancelled, sock, ln, start, accept, stop, engine>>
  BY <1>6, Zenon DEF Write, SendBegins, WriteLocks, WriteChecks, WriteLoads, WriteReleased,
     WriteDone, Returns, world
<1>7. CASE AppSendAsync \/ UNCHANGED vars
  BY <1>3, <1>7, Zenon DEF AppSendAsync, vars, world
<1>. QED BY <1>1, <1>2, <1>3, <1>4, <1>5, <1>6, <1>7, Zenon DEF Next

-----------------------------------------------------------------------------
(* The engine.                                                               *)

\* ReportsDown: a read error of an engine that nobody cancelled is the peer's drop.
LEMMA DownStep == ASSUME LifeInv, DownInv, [Next]_vars PROVE DownInv'
<1>1. CASE UNCHANGED engine /\ dropped \subseteq dropped' BY <1>1 DEF DownInv
<1>2. ASSUME NEW g \in Gen, engine' = [engine EXCEPT ![g] = "poll"], UNCHANGED dropped
      PROVE  DownInv'
  BY <1>2 DEF DownInv
<1>3. ASSUME NEW g \in Gen, Engine(g) PROVE DownInv'
  <2>1. PICK x \in {"poll", "send", "down", "exit"} :
          /\ engine' = [engine EXCEPT ![g] = x] /\ UNCHANGED dropped
          /\ x = "down" => engine[g] = "poll" /\ g \notin cancelled
                           /\ (g \notin sock \/ g \in dropped)
    BY <1>3 DEF Engine, EngineExits, EngineEnqueued, EngineReadFails, EngineReportsDown,
       EngineTakes, EngineSent, ReportsDown, world
  <2>2. x = "down" => g \in dropped BY <2>1 DEF LifeInv, SocketInv
  <2>. QED BY <2>1, <2>2 DEF DownInv
<1>4. ASSUME NEW g \in Gen, EngineNotifies(g) PROVE DownInv'
  BY <1>4 DEF EngineNotifies, DownInv, world
<1>5. ASSUME NEW g \in Gen, Starting(g) \/ Accepting(g) \/ Stop(g) PROVE DownInv'
  <2>1. CASE StartSpawns(g) \/ AcceptSpawns(g)
    BY <1>2, <2>1, Zenon DEF StartSpawns, AcceptSpawns, world
  <2>2. CASE Stop(g) \/ Dialed(g) \/ DialFails(g) \/ StartAborts(g) \/ StartPublishes(g)
    BY <1>1, <2>2, Zenon DEF Stop, StopSeals, StopTakes, StopJoinsAccept, StopReturns, Dialed,
       DialFails, StartAborts, StartPublishes, world
  <2>3. CASE StartListens(g) \/ AcceptPeer(g) \/ AcceptAdopts(g) \/ AcceptExits(g)
    BY <1>1, <2>3, Zenon DEF StartListens, AcceptPeer, AcceptAdopts, AcceptExits, world
  <2>. QED BY <1>5, <2>1, <2>2, <2>3, Zenon DEF Starting, Accepting
<1>6. ASSUME NEW g \in Gen, PeerDrops(g) \/ DrainTakes(g) \/ DrainExits(g) PROVE DownInv'
  BY <1>1, <1>6, Zenon DEF PeerDrops, DrainTakes, DrainExits, world
<1>7. ASSUME NEW w \in Writer, Write(w) \/ SendBegins(w) PROVE DownInv'
  BY <1>1, <1>7, Zenon DEF Write, SendBegins, WriteLocks, WriteChecks, WriteLoads,
     WriteReleased, WriteDone, Returns, world
<1>8. CASE Teardown \/ ArmStart \/ AppSendAsync \/ UNCHANGED vars
  BY <1>1, <1>8, Zenon DEF Teardown, ArmStart, AppSendAsync, vars, world
<1>. QED BY <1>3, <1>4, <1>5, <1>6, <1>7, <1>8, Zenon DEF Next

-----------------------------------------------------------------------------
(* The writers.                                                              *)

\* Write returns: only the writer that holds writeMu gives it back.
LEMMA ReturnsWriter ==
  ASSUME WriterInv, NEW w \in Writer, pc[w] \in {"check", "load", "handoff", "await"},
         NEW res, Returns(w, res)
  PROVE  WriterInv'
<1>1. epoch[w] \in Gen /\ writeMu[epoch[w]] = {w} BY DEF WriterInv
<1>2. /\ pc' \in [Writer -> {"idle", "lock", "check", "load", "handoff", "await", "done"}]
      /\ pc'[w] \in {"idle", "done"} /\ \A v \in Writer : v # w => pc'[v] = pc[v]
      /\ via' \in [Writer -> Gen \cup {NoGen}] /\ \A v \in Writer : v # w => via'[v] = via[v]
  BY DEF WriterInv, Returns, ReturnsTo
<1>3. /\ writeMu' \in [Gen -> SUBSET Writer]
      /\ \A g \in Gen : g # epoch[w] => writeMu'[g] = writeMu[g]
  BY <1>1 DEF WriterInv, Returns
<1>. QED BY <1>1, <1>2, <1>3 DEF WriterInv, Returns

\* writeFrame, Write and the hand-off: a step of anyone keeps WriterInv.
LEMMA WriterStep == ASSUME LifeInv, WriterInv, [Next]_vars PROVE WriterInv'
<1>1. CASE UNCHANGED <<pc, epoch, via, writeMu>> BY <1>1 DEF WriterInv
<1>2. ASSUME NEW w \in Writer, Write(w) \/ SendBegins(w) PROVE WriterInv'
  <2>1. CASE SendBegins(w) BY <2>1 DEF SendBegins, WriterInv, LifeInv, LifeTypes
  <2>2. CASE WriteLocks(w) BY <2>2 DEF WriteLocks, WriterInv
  <2>3. CASE WriteChecks(w)
    <3>1. CASE Returns(w, "err") BY <2>3, <3>1, ReturnsWriter DEF WriteChecks
    <3>2. CASE ~Returns(w, "err") BY <2>3, <3>2 DEF WriteChecks, WriterInv
    <3>. QED BY <3>1, <3>2
  <2>4. CASE WriteLoads(w)
    <3>1. CASE Bound(w) BY <2>4, <3>1 DEF WriteLoads, Bound, WriterInv
    <3>2. CASE ~Bound(w) BY <2>4, <3>2, ReturnsWriter DEF WriteLoads
    <3>. QED BY <3>1, <3>2
  <2>5. CASE WriteReleased(w) \/ WriteDone(w)
    BY <2>5, ReturnsWriter DEF WriteReleased, Released, WriteDone
  <2>. QED BY <1>2, <2>1, <2>2, <2>3, <2>4, <2>5 DEF Write
<1>3. ASSUME NEW g \in Gen, DrainTakes(g) \/ DrainExits(g) PROVE WriterInv'
  <2>1. g \in Writer BY DEF Writer, Drain
  <2>. QED BY <1>3, <2>1 DEF DrainTakes, DrainExits, WriterInv
<1>4. ASSUME NEW g \in Gen, Engine(g) \/ EngineNotifies(g) PROVE WriterInv'
  <2>1. CASE \E w \in Writer : EngineTakes(g, w) BY <2>1 DEF EngineTakes, WriterInv
  <2>2. CASE ~\E w \in Writer : EngineTakes(g, w)
    BY <1>1, <1>4, <2>2, Zenon DEF Engine, EngineNotifies, EngineExits, EngineEnqueued,
       EngineReadFails, EngineReportsDown, EngineSent, writers
  <2>. QED BY <2>1, <2>2
<1>5. ASSUME NEW g \in Gen, Starting(g) \/ Accepting(g) \/ Stop(g) \/ PeerDrops(g)
      PROVE  WriterInv'
  <2>1. CASE Stop(g) \/ Accepting(g) \/ PeerDrops(g)
    BY <1>1, <2>1, Zenon DEF Stop, StopSeals, StopTakes, StopJoinsAccept, StopReturns,
       Accepting, AcceptPeer, AcceptAdopts, AcceptSpawns, AcceptExits, PeerDrops, writers
  <2>2. CASE Starting(g)
    BY <1>1, <2>2, Zenon DEF Starting, Dialed, DialFails, StartAborts, StartPublishes,
       StartSpawns, StartListens, writers
  <2>. QED BY <1>5, <2>1, <2>2
<1>6. CASE Teardown \/ ArmStart \/ AppSendAsync \/ UNCHANGED vars
  BY <1>1, <1>6, Zenon DEF Teardown, ArmStart, AppSendAsync, vars, writers
<1>. QED BY <1>2, <1>3, <1>4, <1>5, <1>6, Zenon DEF Next

-----------------------------------------------------------------------------
(* The theorems.                                                             *)

\* The transport before its first Start satisfies the invariant.
LEMMA InitEngine == Init => EngineInv
<1> SUFFICES ASSUME Init PROVE EngineInv OBVIOUS
<1>1. LifeInv
  BY Gens DEF Init, LifeInv, LifeTypes, OrderInv, SocketInv, Unpublished, GateHeld, NoGen
<1>2. DownInv /\ WriterInv BY DEF Init, DownInv, WriterInv
<1>. QED BY <1>1, <1>2 DEF EngineInv

\* Start, Stop, the engine and the writers keep to EngineInv, in any interleaving
\* and for any number of generations and senders.
THEOREM EngineInvariance == Spec => []EngineInv
<1>1. EngineInv /\ [Next]_vars => EngineInv'
  BY LifeStep, DownStep, WriterStep DEF EngineInv
<1>. QED BY <1>1, InitEngine, PTL DEF Spec

\* Write's binding: no block is handed onto a successor generation's channel.
THEOREM HandedOwn == Spec => []HandedToOwnEngine
<1>1. EngineInv => HandedToOwnEngine BY DEF EngineInv, WriterInv, HandedToOwnEngine
<1>. QED BY <1>1, EngineInvariance, PTL

\* Stop leaves no socket, listener or published bundle of its generation behind,
\* whatever a Start or an accept overlapping it did, and an engine reports TCP-down
\* only for a line that the peer dropped.
THEOREM StopClean == Spec => []StopIsClean
<1>1. ASSUME EngineInv, NEW g \in Gen
      PROVE  /\ stop[g] = "done" /\ start[g] \in {"ok", "err"} =>
                  conn # g /\ gen # g /\ g \notin sock /\ g \notin ln
             /\ engine[g] = "down" => g \in dropped
  BY <1>1 DEF EngineInv, LifeInv, OrderInv, SocketInv, Unpublished, DownInv
<1>2. EngineInv => StopIsClean BY <1>1 DEF StopIsClean
<1>. QED BY <1>2, EngineInvariance, PTL

\* A writer is between taking writeMu and releasing it.
Inside(w) == pc[w] \in {"check", "load", "handoff", "await"}

\* writeMu: at most one writer of a generation is inside Write, so that the result
\* of a send goes to the writer whose block it was.
THEOREM OneWriter ==
  Spec => [](\A v, w \in Writer : Inside(v) /\ Inside(w) /\ epoch[v] = epoch[w] => v = w)
<1>1. EngineInv => \A v, w \in Writer : Inside(v) /\ Inside(w) /\ epoch[v] = epoch[w] => v = w
  BY DEF EngineInv, WriterInv, Inside
<1>. QED BY <1>1, EngineInvariance, PTL
=============================================================================
