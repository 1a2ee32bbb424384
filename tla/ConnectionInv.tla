---------------------------- MODULE ConnectionInv ----------------------------
(***************************************************************************)
(* The inductive invariant of Connection: what each thread knows about the *)
(* current generation at each of its program points.                       *)
(***************************************************************************)
EXTENDS Connection

\* Loops that run, or have just run, a Start and still hold its barrier.
Starting(p) == loop[p].pc \in {"start", "signal", "failwait", "release"}
\* Loops between two attempts: nobody else may move cur.
Retrying(p) == loop[p].pc \in {"sleep", "fence", "publish"}

Closing == {"inject", "wait", "stop"}
Opening == {"open_start", "open_cold", "rollback"}

\* The supervisor's goroutine and its queue.
SupInv ==
  /\ sup.pc # "idle" => ~runDone
  /\ ~runDone => cur # NoGen
  /\ sup.pc \in {"spawn", "teardown"} => sup.e \in Gen
  /\ sup.pc = "spawn" => sup.e = cur
  /\ sup.pc = "teardown" => sup.e = cur \/ sup.e \in torn
  /\ sup.pc = "teardown" => sup.e \in upCommitted \/ sup.ev = "evClose"
  /\ sup.pc = "close" => sup.ev = "evClose"
  /\ sup.pc # "idle" /\ sup.ev = "evClose" => app.pc \in {"wait", "stop"}
  /\ \A i \in 1 .. Len(events) : events[i].ev = "evClose" => app.pc \in {"wait", "stop"}

\* The call that holds lifeMu.
AppInv ==
  /\ app.pc \in Closing => ~runDone
  /\ app.pc \in Closing \cup {"join"} =>
       /\ shutdown /\ cur # NoGen
       /\ closeEpoch = cur /\ app.pin = cur /\ app.e = cur
  /\ app.pc = "stop" => cur \in done
  /\ app.pc \in Opening => app.e = cur /\ cur # NoGen /\ ~runDone /\ ~shutdown
  /\ app.pc = "open_wait" => ~runDone /\ ~shutdown /\ app.e \in Gen
  /\ app.pc \in {"open_join", "join"} => runDone
  /\ app.pc = "open_join" => ~shutdown /\ genSeq < MaxGen
  /\ app.pc = "idle" /\ shutdown => runDone
  /\ runDone /\ cur # NoGen => cur \in done
  /\ runDone => app.pc \in {"idle", "open_join", "join"}
  /\ runDone /\ app.pc # "join" => \A p \in Gen : LoopOver(p)
  /\ app.pc = "open_start" /\ cur \in ended => cur \in upCommitted
  /\ app.pc \in {"open_cold", "rollback"} => start[cur] = "err" /\ cur \in ended
  /\ app.pc = "open_cold" =>
       cur \in torn /\ cur \notin upCommitted /\ loop[cur].pc = "none"
  /\ app.pc \in Opening =>
       /\ cur \notin startReturned
       /\ \A p \in Gen : p # cur => LoopOver(p)
       /\ loop[cur].pc \in {"none", "barrier", "ended"}

\* Generations are published in the order genSeq mints them.
GenOrder ==
  /\ cur <= genSeq
  /\ cur # NoGen => Published(cur)
  /\ \A g \in Gen : Published(g) => g <= genSeq

\* What is recorded of a generation, in the order it happens to it.
EpochInv ==
  /\ done \subseteq torn /\ torn \subseteq ended
  /\ upCommitted \subseteq upAdmitted
  /\ \A g \in Gen : g \in ended \cup upAdmitted \cup startReturned => Published(g)
  /\ \A g \in Gen : start[g] = "running" => g \notin startReturned
  /\ Named => conn \cap torn = {}

\* A Start whose barrier is still closed has its caller.
StarterInv ==
  \A g \in Gen : Published(g) /\ g \notin startReturned =>
    \/ app.pc \in Opening /\ app.e = g
    \/ \E p \in Gen : Starting(p) /\ loop[p].e = g

\* A loop exists for a generation that was up, or that Open gave up, and waits
\* at its barrier only while that generation is current.
BarrierInv ==
  \A p \in Gen :
    /\ loop[p].pc # "none" => Published(p) /\ p \in upCommitted \cup ended
    /\ loop[p].pc = "barrier" =>
         /\ p = cur /\ state = "NotConnected"
         /\ \A q \in Gen : ~Retrying(q)
         /\ (p \in upCommitted \/ \A q \in Gen : ~Starting(q))

\* Between two attempts the current generation is over.
RetryInv ==
  \A p \in Gen :
    /\ Retrying(p) => cur \in done /\ cur \in startReturned
    /\ loop[p].pc = "publish" => /\ loop[p].e \in Gen /\ loop[p].e <= genSeq
                                 /\ ~Published(loop[p].e)

\* During an attempt its generation is the current one.
StartInv ==
  \A p \in Gen :
    /\ Starting(p) => loop[p].e = cur /\ cur # NoGen /\ cur \notin startReturned
    /\ loop[p].pc \in {"handoff", "inject"} => loop[p].e \in Gen
    /\ loop[p].pc = "signal" => start[cur] = "ok"
    /\ loop[p].pc \in {"failwait", "release"} => start[cur] = "err" /\ cur \in torn
    /\ loop[p].pc = "release" => cur \in upCommitted

OneDriver ==
  \A p, q \in Gen :
    (Starting(p) \/ Retrying(p)) /\ (Starting(q) \/ Retrying(q)) => p = q

\* The FSM state and the reactions to it.
StateInv ==
  /\ lastReacted # "NotConnected" => state # "NotConnected"
  /\ sup.pc \in {"loaded", "apply"} /\ sup.seen = "NotConnected" =>
       lastReacted = "NotConnected"
  /\ sup.pc \in {"loaded", "apply"} /\ sup.seen # "NotConnected" =>
       state # "NotConnected"
  /\ sup.pc = "apply" => Legal(sup.seen, sup.ev)
  /\ sup.pc = "apply" /\ sup.seen # "NotConnected" => sup.gen \in {NoGen, cur}
  /\ state # "NotConnected" =>
       /\ cur \in upCommitted /\ loop[cur].pc = "none"
       /\ sup.pc \notin {"react", "spawn"}
       /\ \A p \in Gen : ~Retrying(p)
  /\ sup.pc \in {"react", "spawn"} =>
       /\ cur \in upCommitted /\ loop[cur].pc = "none"
       /\ \A p \in Gen : ~Retrying(p)

IInv ==
  /\ TypeOK /\ SupInv /\ AppInv /\ GenOrder /\ EpochInv /\ StarterInv
  /\ BarrierInv /\ RetryInv /\ StartInv /\ OneDriver /\ StateInv /\ OneLiveGeneration
=============================================================================
