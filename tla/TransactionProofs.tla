-------------------------- MODULE TransactionProofs --------------------------
(***************************************************************************)
(* Theorems about Transaction, for every set of transactions, number of    *)
(* generations and number of frames: its invariants, the fate of a genuine *)
(* reply, and that it implements TransactionSpec.                          *)
(***************************************************************************)
EXTENDS Transaction, TLAPS

-----------------------------------------------------------------------------
(* The inductive invariant. *)

\* The types of TypeOK by owner, with the channels, the wire and the recv
\* goroutines as functions.
Outcome == {"none"} \cup AnswerKind \cup Failure

LinkTypes == /\ strict \in BOOLEAN /\ named \in BOOLEAN /\ selected \in BOOLEAN
             /\ cur \in Gen /\ ended \subseteq Gen /\ conn \subseteq Gen

SendTypes == /\ pc \in [Sender -> PC] /\ epoch \in [Sender -> Gen \cup {NoGen}]
             /\ target \in [Sender -> Gen \cup {NoGen}]
             /\ outcome \in [Sender -> Outcome] /\ ready \subseteq Sender

RegTypes == /\ writeMu \in [Gen -> SUBSET Sender] /\ registry \in [Gen -> SUBSET Sender]
            /\ claim \in [Sender -> {"open", "reply", "s9"}]
            /\ chan \in [Sender -> Seq(AnswerKind)]

\* A recv goroutine's state, with a frame of S.
Busy(S) == [pc : {"idle", "lookup", "claim", "send"}, reg : Gen \cup {NoGen},
            f : S \cup {NoFrame}]

PeerTypes ==
  /\ sent \subseteq Sender \X Gen
  /\ \A a \in answers : a.tx \in Sender /\ a.kind \in AnswerKind
  /\ wire \in [Gen -> Seq(answers)] /\ rcv \in [Gen -> Busy(answers)]

\* A sender has a generation from its first step on, captures no other one's
\* socket, and is in a registry or a write lock only of that generation and
\* only while it can still leave it.
SenderOK(s) ==
  /\ pc[s] = "idle" <=> epoch[s] = NoGen
  /\ target[s] \in {NoGen, epoch[s]}
  /\ \A g \in Gen :
       /\ s \in registry[g] => epoch[s] = g /\ pc[s] \notin {"idle", "gate", "done"}
       /\ s \in writeMu[g] => epoch[s] = g /\ pc[s] \in {"check", "write"}
       /\ <<s, g>> \in sent => epoch[s] = g
SenderInv == \A s \in Sender : SenderOK(s)

\* A sender that saw a result still has it, or has returned it.
ReadyInv ==
  \A s \in ready : \/ pc[s] \in {"timer", "teardown"} /\ chan[s] # <<>>
                   \/ pc[s] = "done" /\ outcome[s] \in AnswerKind

\* The peer sent s an answer of kind k.
AnsweredWith(s, k) == \E a \in answers : a.tx = s /\ a.kind = k

\* A busy recv goroutine holds a frame of the peer, past the lookup only if it
\* may complete its transaction; so may every result in a channel.
AnswerInv ==
  /\ \A g \in Gen : rcv[g].pc # "idle" =>
       /\ rcv[g].reg \in Gen /\ rcv[g].f \in answers
       /\ rcv[g].pc # "lookup" => Eligible(rcv[g].f.tx, rcv[g].f.kind)
  /\ \A s \in Sender : \A i \in 1 .. Len(chan[s]) :
       Eligible(s, chan[s][i]) /\ AnsweredWith(s, chan[s][i])

Types == LinkTypes /\ SendTypes /\ RegTypes /\ PeerTypes
IInv == Types /\ SenderInv /\ ReadyInv /\ AnswerInv

-----------------------------------------------------------------------------
(* Facts the steps share. *)

\* Generations are positive numbers, so that NoGen is none of them.
LEMMA GenFacts == NoGen \notin Gen /\ 1 \in Gen /\ \A g \in Gen : g \in Nat
BY TransactionAssumption DEF Gen, NoGen

USE GenFacts, SMTT(20)

\* The result at the head of a channel is one the peer sent to this request
\* and that may complete it; a channel that lost its head keeps the rest.
LEMMA ChannelFacts ==
  ASSUME RegTypes, AnswerInv, NEW s \in Sender, chan[s] # <<>>
  PROVE /\ Head(chan[s]) \in AnswerKind /\ Eligible(s, Head(chan[s]))
        /\ AnsweredWith(s, Head(chan[s]))
        /\ Tail(chan[s]) \in Seq(AnswerKind)
        /\ \A i \in 1 .. Len(Tail(chan[s])) :
             \E j \in 1 .. Len(chan[s]) : Tail(chan[s])[i] = chan[s][j]
<1>1. chan[s] \in Seq(AnswerKind) BY DEF RegTypes
<1>2. 1 \in 1 .. Len(chan[s]) /\ Head(chan[s]) = chan[s][1] BY <1>1
<1>3. \A i \in 1 .. Len(Tail(chan[s])) : Tail(chan[s])[i] = chan[s][i + 1]
                                         /\ i + 1 \in 1 .. Len(chan[s])
  BY <1>1
<1>. QED BY <1>1, <1>2, <1>3 DEF AnswerInv

\* Each part holds as long as the variables it reads keep their value.
LEMMA KeepTypes ==
  /\ LinkTypes /\ UNCHANGED linkVars => LinkTypes'
  /\ SendTypes /\ UNCHANGED sendVars => SendTypes'
  /\ RegTypes /\ UNCHANGED regVars => RegTypes'
  /\ PeerTypes /\ UNCHANGED <<peerVars, rcv>> => PeerTypes'
BY DEF LinkTypes, SendTypes, RegTypes, PeerTypes, linkVars, modes, sendVars, regVars,
       peerVars

LEMMA KeepSenderInv ==
  SenderInv /\ UNCHANGED <<pc, epoch, target, registry, writeMu, sent>> => SenderInv'
BY DEF SenderInv, SenderOK

LEMMA KeepReadyInv == ReadyInv /\ UNCHANGED <<ready, pc, chan, outcome>> => ReadyInv'
BY DEF ReadyInv

LEMMA KeepAnswerInv ==
  AnswerInv /\ UNCHANGED <<strict, answers, rcv, chan>> => AnswerInv'
BY DEF AnswerInv, Eligible, AnsweredWith

\* What is a frame, a queue or a recv state over the answers so far stays one.
LEMMA MoreAnswers ==
  ASSUME NEW S, NEW T, S \subseteq T
  PROVE  (\A q \in Seq(S) : q \in Seq(T)) /\ (\A r \in Busy(S) : r \in Busy(T))
BY DEF Busy

\* A sender's own move changes its program point and no one else's.
LEMMA GotoFacts ==
  ASSUME SendTypes, NEW s \in Sender, NEW l \in PC, Goto(s, l)
  PROVE  /\ pc' \in [Sender -> PC] /\ pc'[s] = l
         /\ \A q \in Sender : q # s => pc'[q] = pc[q]
BY DEF SendTypes, Goto

\* The deferred deregister and Unlock take a sender out of its own
\* generation's registry and lock, so out of every one.
LEMMA DeregisterFacts ==
  ASSUME SendTypes, RegTypes, SenderInv, NEW s \in Sender, pc[s] # "idle", Deregister(s)
  PROVE  /\ registry' \in [Gen -> SUBSET Sender]
         /\ \A g \in Gen : registry'[g] \subseteq registry[g] /\ s \notin registry'[g]
<1>1. epoch[s] \in Gen BY DEF SendTypes, SenderInv, SenderOK
<1>2. \A g \in Gen : g # epoch[s] => s \notin registry[g] BY Zenon DEF SenderInv, SenderOK
<1>. QED BY <1>1, <1>2 DEF RegTypes, Deregister

LEMMA UnlockFacts ==
  ASSUME SendTypes, RegTypes, SenderInv, NEW s \in Sender, pc[s] # "idle", Unlock(s)
  PROVE  /\ writeMu' \in [Gen -> SUBSET Sender]
         /\ \A g \in Gen : writeMu'[g] \subseteq writeMu[g] /\ s \notin writeMu'[g]
<1>1. epoch[s] \in Gen BY DEF SendTypes, SenderInv, SenderOK
<1>2. \A g \in Gen : g # epoch[s] => s \notin writeMu[g] BY Zenon DEF SenderInv, SenderOK
<1>. QED BY <1>1, <1>2 DEF RegTypes, Unlock

\* A sender that moves on within its request keeps the senders' invariant when
\* the registries, the locks and the writes only shrink or stay, it holds no
\* lock outside the write, and it is in no registry once it returned.
LEMMA SenderMoves ==
  ASSUME SendTypes, SenderInv, NEW s \in Sender, NEW l \in PC \ {"idle", "gate"}, Goto(s, l),
         pc[s] # "idle", UNCHANGED <<epoch, target, sent>>,
         \A g \in Gen : /\ registry'[g] \subseteq registry[g]
                        /\ l = "done" => s \notin registry'[g]
                        /\ writeMu'[g] \subseteq writeMu[g]
                        /\ l \notin {"check", "write"} => s \notin writeMu'[g]
  PROVE  SenderInv'
<1>1. /\ pc'[s] = l /\ \A q \in Sender : q # s => pc'[q] = pc[q] BY GotoFacts
<1> SUFFICES ASSUME NEW q \in Sender PROVE SenderOK(q)'
  BY DEF SenderInv
<1>2. CASE q = s BY <1>1, <1>2 DEF SenderInv, SenderOK
<1>3. CASE q # s BY <1>1, <1>3 DEF SenderInv, SenderOK
<1>. QED BY <1>2, <1>3

-----------------------------------------------------------------------------
(* One lemma for each action. *)

\* The initial states: nothing was sent, received or registered.
LEMMA InitInv == Init => IInv
<1> SUFFICES ASSUME Init PROVE IInv OBVIOUS
<1>1. LinkTypes BY DEF Init, LinkTypes
<1>2. SendTypes BY DEF Init, SendTypes, PC, Outcome
<1>3. RegTypes BY DEF Init, RegTypes
<1>4. PeerTypes BY DEF Init, PeerTypes, IdleRcv, Busy
<1>5. SenderInv BY DEF Init, SenderInv, SenderOK
<1>6. ReadyInv /\ AnswerInv BY DEF Init, ReadyInv, AnswerInv, IdleRcv
<1>. QED BY <1>1, <1>2, <1>3, <1>4, <1>5, <1>6 DEF IInv, Types

\* The lifecycle touches nothing a sender, a registry or the peer owns.
LEMMA LifecycleInv == ASSUME IInv, Lifecycle PROVE IInv'
<1>u. UNCHANGED <<modes, sendVars, regVars, peerVars, rcv, handed>>
  BY DEF Lifecycle, TeardownBegin, CloseSocket, Reconnect, SelectChange
<1>1. cur' \in Gen /\ ended' \subseteq Gen /\ conn' \subseteq Gen
  <2>1. CASE TeardownBegin BY <2>1 DEF IInv, Types, LinkTypes, TeardownBegin
  <2>2. CASE CloseSocket BY <2>2 DEF IInv, Types, LinkTypes, CloseSocket
  <2>3. CASE Reconnect
    <3>1. cur + 1 \in Gen
      BY <2>3, TransactionAssumption DEF IInv, Types, LinkTypes, Reconnect, Gen
    <3>. QED BY <2>3, <3>1 DEF IInv, Types, LinkTypes, Reconnect
  <2>4. CASE SelectChange BY <2>4 DEF IInv, Types, LinkTypes, SelectChange
  <2>. QED BY <2>1, <2>2, <2>3, <2>4 DEF Lifecycle
<1>2. selected' \in BOOLEAN
  BY Zenon DEF IInv, Types, LinkTypes, Lifecycle, TeardownBegin, CloseSocket, Reconnect,
     SelectChange
<1>3. LinkTypes' BY <1>u, <1>1, <1>2, Zenon DEF IInv, Types, LinkTypes, modes
<1>. QED BY <1>u, <1>3, KeepTypes, KeepSenderInv, KeepReadyInv, KeepAnswerInv
         DEF IInv, Types, modes, sendVars, regVars, peerVars

\* WriteMessage resolves the epoch: a new sender, which no registry knows yet.
LEMMA SendBeginInv == ASSUME IInv, NEW s \in Sender, SendBegin(s) PROVE IInv'
<1>u. UNCHANGED <<linkVars, target, outcome, ready, regVars, peerVars, rcv, handed>>
  BY DEF SendBegin
<1>p. pc[s] = "idle" /\ Goto(s, "gate") /\ epoch' = [epoch EXCEPT ![s] = cur]
  BY DEF SendBegin
<1>g. /\ pc' \in [Sender -> PC] /\ pc'[s] = "gate"
      /\ \A q \in Sender : q # s => pc'[q] = pc[q]
  BY <1>p, GotoFacts DEF IInv, Types, PC
<1>e. /\ epoch' \in [Sender -> Gen \cup {NoGen}] /\ epoch'[s] \in Gen
      /\ \A q \in Sender : q # s => epoch'[q] = epoch[q]
  BY <1>p DEF IInv, Types, LinkTypes, SendTypes
<1>1. SendTypes' BY <1>u, <1>g, <1>e DEF IInv, Types, SendTypes
<1>2. SenderInv'
  <2> SUFFICES ASSUME NEW q \in Sender PROVE SenderOK(q)'
    BY DEF SenderInv
  <2>1. CASE q = s
    BY <2>1, <1>p, <1>g, <1>e, <1>u DEF IInv, SenderInv, SenderOK, regVars, peerVars
  <2>2. CASE q # s
    BY <2>2, <1>g, <1>e, <1>u DEF IInv, SenderInv, SenderOK, regVars, peerVars
  <2>. QED BY <2>1, <2>2
<1>3. ReadyInv' BY <1>u, <1>p, <1>g DEF IInv, Types, SendTypes, ReadyInv, regVars
<1>. QED BY <1>u, <1>1, <1>2, <1>3, KeepTypes, KeepAnswerInv
         DEF IInv, Types, linkVars, modes, regVars, peerVars

\* Gate B1 lets the sender register with its own generation, or refuses it.
LEMMA SendGateInv == ASSUME IInv, NEW s \in Sender, SendGate(s) PROVE IInv'
<1>u. UNCHANGED <<linkVars, epoch, target, ready, writeMu, claim, chan, peerVars, rcv, handed>>
  BY DEF SendGate
<1>p. pc[s] = "gate" BY DEF SendGate
<1>e. epoch[s] \in Gen BY <1>p DEF IInv, Types, SendTypes, SenderInv, SenderOK
<1>1. ReadyInv' /\ SendTypes'
  <2>1. PICK l \in {"done", "lock"} : Goto(s, l) BY DEF SendGate
  <2>2. outcome' = outcome \/ outcome' = [outcome EXCEPT ![s] = "NotSelected"]
    BY DEF SendGate
  <2>3. outcome' \in [Sender -> Outcome] /\ \A q \in Sender : q # s => outcome'[q] = outcome[q]
    BY <2>2 DEF IInv, Types, SendTypes, Outcome, Failure
  <2>. QED BY <1>u, <1>p, <2>1, <2>3, GotoFacts
           DEF IInv, Types, SendTypes, ReadyInv, PC, peerVars
<1>2. RegTypes' /\ SenderInv'
  <2>1. CASE Goto(s, "done") /\ UNCHANGED registry
    BY Zenon, <2>1, <1>u, <1>p, SenderMoves
       DEF IInv, Types, RegTypes, SenderInv, SenderOK, PC, peerVars
  <2>2. CASE Goto(s, "lock") /\ registry' = [registry EXCEPT ![epoch[s]] = @ \cup {s}]
    <3>1. /\ registry' \in [Gen -> SUBSET Sender]
          /\ \A g \in Gen : g # epoch[s] => registry'[g] = registry[g]
          /\ registry'[epoch[s]] = registry[epoch[s]] \cup {s}
      BY <2>2, <1>e DEF IInv, Types, RegTypes
    <3>2. pc'[s] = "lock" /\ \A q \in Sender : q # s => pc'[q] = pc[q]
      BY <2>2, GotoFacts DEF IInv, Types, PC
    <3>3. SenderInv'
      <4> SUFFICES ASSUME NEW q \in Sender PROVE SenderOK(q)'
        BY DEF SenderInv
      <4>1. CASE q = s
        BY <4>1, <3>1, <3>2, <1>p, <1>e, <1>u
           DEF IInv, SenderInv, SenderOK, regVars, peerVars
      <4>2. CASE q # s
        <5>1. \A g \in Gen : q \in registry'[g] => q \in registry[g] BY <4>2, <3>1
        <5>. QED BY <4>2, <5>1, <3>2, <1>u DEF IInv, SenderInv, SenderOK, regVars, peerVars
      <4>. QED BY <4>1, <4>2
    <3>. QED BY <3>1, <3>3, <1>u DEF IInv, Types, RegTypes
  <2>. QED BY <2>1, <2>2 DEF SendGate
<1>. QED BY <1>u, <1>1, <1>2, KeepTypes, KeepAnswerInv
         DEF IInv, Types, linkVars, modes, peerVars

\* writeFrame takes the write lock and captures the epoch's own socket.
LEMMA WriteLockInv == ASSUME IInv, NEW s \in Sender, WriteLock(s) PROVE IInv'
<1>u. UNCHANGED <<linkVars, epoch, outcome, ready, registry, claim, chan, peerVars, rcv,
                  handed>>
  BY DEF WriteLock
<1>p. pc[s] = "lock" /\ Goto(s, "check") BY DEF WriteLock
<1>e. epoch[s] \in Gen BY <1>p DEF IInv, Types, SendTypes, SenderInv, SenderOK
<1>w. /\ writeMu' \in [Gen -> SUBSET Sender] /\ writeMu'[epoch[s]] = {s}
      /\ \A g \in Gen : g # epoch[s] => writeMu'[g] = writeMu[g]
  BY <1>e DEF IInv, Types, RegTypes, WriteLock
<1>t. /\ target' \in [Sender -> Gen \cup {NoGen}] /\ target'[s] \in {NoGen, epoch[s]}
      /\ \A q \in Sender : q # s => target'[q] = target[q]
  BY <1>e DEF IInv, Types, SendTypes, WriteLock, LiveConn
<1>g. /\ pc' \in [Sender -> PC] /\ pc'[s] = "check"
      /\ \A q \in Sender : q # s => pc'[q] = pc[q]
  BY <1>u, <1>p, GotoFacts DEF IInv, Types, PC, peerVars
<1>1. SendTypes' /\ RegTypes' BY <1>u, <1>w, <1>t, <1>g DEF IInv, Types, SendTypes, RegTypes
<1>2. SenderInv'
  <2> SUFFICES ASSUME NEW q \in Sender PROVE SenderOK(q)'
    BY DEF SenderInv
  <2>1. CASE q = s
    BY <2>1, <1>p, <1>w, <1>t, <1>g, <1>e, <1>u
       DEF IInv, SenderInv, SenderOK, regVars, peerVars
  <2>2. CASE q # s
    BY <2>2, <1>w, <1>t, <1>g, <1>e, <1>u DEF IInv, SenderInv, SenderOK, regVars, peerVars
  <2>. QED BY <2>1, <2>2
<1>3. ReadyInv' BY <1>u, <1>p, <1>g DEF IInv, Types, SendTypes, ReadyInv
<1>. QED BY <1>u, <1>g, <1>1, <1>2, <1>3, KeepTypes, KeepAnswerInv
         DEF IInv, Types, linkVars, modes, peerVars

\* A sender that returns without having waited: it leaves its registry.
LEMMA ReturnFacts ==
  ASSUME IInv, NEW s \in Sender, pc[s] # "idle", NEW o \in Outcome, Return(s, o),
         UNCHANGED <<epoch, target, answers>>
  PROVE  /\ pc' \in [Sender -> PC] /\ pc'[s] = "done"
         /\ \A q \in Sender : q # s => pc'[q] = pc[q]
         /\ outcome' \in [Sender -> Outcome] /\ outcome'[s] = o
         /\ \A q \in Sender : q # s => outcome'[q] = outcome[q]
         /\ registry' \in [Gen -> SUBSET Sender]
         /\ \A g \in Gen : registry'[g] \subseteq registry[g] /\ s \notin registry'[g]
<1>1. /\ pc' \in [Sender -> PC] /\ pc'[s] = "done"
      /\ \A q \in Sender : q # s => pc'[q] = pc[q]
  BY GotoFacts DEF IInv, Types, Return, PC
<1>2. /\ outcome' \in [Sender -> Outcome] /\ outcome'[s] = o
      /\ \A q \in Sender : q # s => outcome'[q] = outcome[q]
  BY DEF IInv, Types, SendTypes, Return
<1>3. /\ registry' \in [Gen -> SUBSET Sender]
      /\ \A g \in Gen : registry'[g] \subseteq registry[g] /\ s \notin registry'[g]
  BY DeregisterFacts DEF IInv, Types, Return
<1>. QED BY <1>1, <1>2, <1>3

\* A refused or failed write returns unlocked and deregistered.
LEMMA RefusedInv ==
  ASSUME IInv, NEW s \in Sender, pc[s] \in {"check", "write"}, NEW o \in Outcome,
         Return(s, o), Unlock(s),
         UNCHANGED <<linkVars, epoch, target, ready, claim, chan, peerVars, rcv, handed>>
  PROVE  IInv'
<1>1. Goto(s, "done") /\ UNCHANGED <<answers, sent>> BY DEF Return, peerVars
<1>2. /\ writeMu' \in [Gen -> SUBSET Sender]
      /\ \A g \in Gen : writeMu'[g] \subseteq writeMu[g] /\ s \notin writeMu'[g]
  BY UnlockFacts DEF IInv, Types
<1>3. SendTypes' /\ RegTypes'
  BY Zenon, <1>1, <1>2, ReturnFacts DEF IInv, Types, SendTypes, RegTypes
<1>4. SenderInv' BY <1>1, <1>2, ReturnFacts, SenderMoves DEF IInv, Types, PC
<1>5. ReadyInv' BY ZenonT(30), <1>1, ReturnFacts DEF IInv, Types, SendTypes, ReadyInv
<1>. QED BY <1>3, <1>4, <1>5, KeepTypes, KeepAnswerInv
         DEF IInv, Types, linkVars, modes, peerVars

\* No socket, a cancelled generation and gate B2 refuse the write.
LEMMA WriteCheckInv == ASSUME IInv, NEW s \in Sender, WriteCheck(s) PROVE IInv'
<1>u. UNCHANGED <<linkVars, epoch, target, ready, claim, chan, peerVars, rcv, handed>>
  BY DEF WriteCheck
<1>p. pc[s] = "check" BY DEF WriteCheck
<1>1. ASSUME NEW o \in {"ConnClosed", "NotSelected"}, Return(s, o), Unlock(s) PROVE IInv'
  BY <1>u, <1>p, <1>1, RefusedInv DEF Outcome, Failure
<1>2. CASE Goto(s, "write") /\ UNCHANGED <<outcome, registry, writeMu>>
  <2>1. SenderInv' BY <1>u, <1>p, <1>2, SenderMoves DEF IInv, Types, PC, peerVars
  <2>2. SendTypes' /\ ReadyInv'
    BY <1>u, <1>p, <1>2, GotoFacts DEF IInv, Types, SendTypes, ReadyInv, PC, peerVars
  <2>. QED BY <1>u, <1>2, <2>1, <2>2, KeepTypes, KeepAnswerInv
           DEF IInv, Types, linkVars, modes, regVars, peerVars
<1>. QED BY <1>1, <1>2 DEF WriteCheck

\* tr.Write puts the request on the socket captured under the lock.
LEMMA WriteOkInv == ASSUME IInv, NEW s \in Sender, WriteOk(s) PROVE IInv'
<1>u. UNCHANGED <<linkVars, epoch, target, outcome, ready, registry, claim, chan, wire,
                  answers, rcv, handed>>
  BY DEF WriteOk
<1>p. /\ pc[s] = "write" /\ Goto(s, "wait") /\ target[s] = epoch[s] /\ epoch[s] \in Gen
      /\ sent' = sent \cup {<<s, epoch[s]>>}
  BY DEF IInv, Types, LinkTypes, SenderInv, SenderOK, WriteOk, WriteSocket
<1>w. /\ writeMu' \in [Gen -> SUBSET Sender]
      /\ \A g \in Gen : writeMu'[g] \subseteq writeMu[g] /\ s \notin writeMu'[g]
  BY <1>p, UnlockFacts DEF IInv, Types, WriteOk
<1>g. /\ pc' \in [Sender -> PC] /\ pc'[s] = "wait"
      /\ \A q \in Sender : q # s => pc'[q] = pc[q]
  BY <1>u, <1>p, GotoFacts DEF IInv, Types, PC
<1>1. SendTypes' /\ RegTypes' /\ PeerTypes'
  BY <1>u, <1>p, <1>w, <1>g DEF IInv, Types, SendTypes, RegTypes, PeerTypes
<1>2. SenderInv'
  <2> SUFFICES ASSUME NEW q \in Sender PROVE SenderOK(q)'
    BY DEF SenderInv
  <2>1. CASE q = s
    BY <2>1, <1>p, <1>w, <1>g, <1>u DEF IInv, SenderInv, SenderOK, regVars, peerVars
  <2>2. CASE q # s
    BY <2>2, <1>p, <1>w, <1>g, <1>u DEF IInv, SenderInv, SenderOK, regVars, peerVars
  <2>. QED BY <2>1, <2>2
<1>3. ReadyInv' BY <1>u, <1>p, <1>g DEF IInv, Types, SendTypes, ReadyInv
<1>. QED BY <1>u, <1>g, <1>1, <1>2, <1>3, KeepTypes, KeepAnswerInv
         DEF IInv, Types, linkVars, modes

\* tr.Write fails.
LEMMA WriteFailsInv == ASSUME IInv, NEW s \in Sender, WriteFails(s) PROVE IInv'
BY RefusedInv DEF WriteFails, WriteFailure, Outcome, Failure

\* The select picks the timer or the teardown arm and notes what was ready.
LEMMA WaitPickedInv ==
  ASSUME IInv, NEW s \in Sender, NEW l \in {"timer", "teardown"}, WaitPicked(s, l)
  PROVE  IInv'
<1>u. UNCHANGED <<linkVars, epoch, target, outcome, regVars, peerVars, rcv, handed>>
  BY DEF WaitPicked
<1>p. pc[s] = "wait" /\ Goto(s, l) BY DEF WaitPicked
<1>r. ready' = ready \/ (chan[s] # <<>> /\ ready' = ready \cup {s}) BY DEF WaitPicked
<1>w. \A g \in Gen : s \notin writeMu[g] BY Zenon, <1>p DEF IInv, SenderInv, SenderOK
<1>v. UNCHANGED <<epoch, target, sent, registry, writeMu>> BY <1>u DEF regVars, peerVars
<1>1. SenderInv' BY <1>v, <1>p, <1>w, SenderMoves DEF IInv, Types, PC
<1>2. SendTypes'
  BY <1>u, <1>p, <1>r, GotoFacts DEF IInv, Types, SendTypes, PC, peerVars
<1>3. ReadyInv'
  BY <1>u, <1>p, <1>r, GotoFacts DEF IInv, Types, SendTypes, ReadyInv, PC, regVars
<1>. QED BY <1>u, <1>1, <1>2, <1>3, KeepTypes, KeepAnswerInv
         DEF IInv, Types, linkVars, modes, regVars, peerVars

\* A wait ends, with the result at the head of its channel or with a failure;
\* a sender that saw a result does not end with a failure.
LEMMA ReturnWaitingInv ==
  ASSUME IInv, NEW s \in Sender, pc[s] \in {"wait", "timer", "teardown", "expired"},
         NEW o, ReturnWaiting(s, o),
         \/ o \in Failure /\ s \notin ready
         \/ chan[s] # <<>> /\ o = Head(chan[s])
  PROVE  IInv'
<1>u. UNCHANGED <<linkVars, epoch, target, ready, writeMu, claim, peerVars, rcv, handed>>
  BY DEF ReturnWaiting
<1>p. Return(s, o) /\ Goto(s, "done") /\ UNCHANGED <<answers, sent>>
  BY <1>u DEF ReturnWaiting, Return, peerVars
<1>f. Failure \cap AnswerKind = {} BY DEF Failure, AnswerKind
<1>o. /\ o \in Outcome /\ (s \in ready => o \in AnswerKind)
      /\ o \in AnswerKind => chan[s] # <<>>
  BY <1>f, ChannelFacts DEF IInv, Types, Outcome
<1>c. /\ chan' \in [Sender -> Seq(AnswerKind)]
      /\ \A q \in Sender : q # s => chan'[q] = chan[q]
      /\ \A i \in 1 .. Len(chan'[s]) : \E j \in 1 .. Len(chan[s]) : chan'[s][i] = chan[s][j]
  <2>1. chan \in [Sender -> Seq(AnswerKind)] BY DEF IInv, Types, RegTypes
  <2>2. CASE o \in AnswerKind
    <3>1. chan' = [chan EXCEPT ![s] = Tail(@)] BY <2>2 DEF ReturnWaiting
    <3>2. chan'[s] = Tail(chan[s]) /\ chan[s] # <<>> BY <2>1, <2>2, <3>1, <1>o
    <3>. QED BY <2>1, <3>1, <3>2, ChannelFacts DEF IInv, Types
  <2>3. CASE o \notin AnswerKind
    <3>1. chan' = chan BY <2>1, <2>3 DEF ReturnWaiting
    <3>. QED BY <2>1, <3>1
  <2>. QED BY <2>2, <2>3
<1>w. \A g \in Gen : s \notin writeMu[g] BY Zenon DEF IInv, SenderInv, SenderOK
<1>1. SendTypes' /\ RegTypes'
  BY Zenon, <1>u, <1>p, <1>o, <1>c, ReturnFacts DEF IInv, Types, SendTypes, RegTypes
<1>2. SenderInv' BY <1>u, <1>p, <1>o, <1>w, ReturnFacts, SenderMoves DEF IInv, Types, PC
<1>3. ReadyInv'
  <2> SUFFICES ASSUME NEW q \in ready
               PROVE \/ pc'[q] \in {"timer", "teardown"} /\ chan'[q] # <<>>
                     \/ pc'[q] = "done" /\ outcome'[q] \in AnswerKind
    BY <1>u DEF ReadyInv
  <2>1. CASE q = s BY <2>1, <1>u, <1>p, <1>o, ReturnFacts
  <2>2. CASE q # s
    <3>1. q \in Sender BY DEF IInv, Types, SendTypes
    <3>2. pc'[q] = pc[q] /\ outcome'[q] = outcome[q] /\ chan'[q] = chan[q]
      BY <2>2, <3>1, <1>u, <1>p, <1>o, <1>c, ReturnFacts
    <3>. QED BY <3>2 DEF IInv, ReadyInv
  <2>. QED BY <2>1, <2>2
<1>4. AnswerInv'
  <2>1. \A q \in Sender : \A i \in 1 .. Len(chan'[q]) :
          Eligible(q, chan'[q][i]) /\ AnsweredWith(q, chan'[q][i])
    <3> SUFFICES ASSUME NEW q \in Sender, NEW i \in 1 .. Len(chan'[q])
                 PROVE  \E j \in 1 .. Len(chan[q]) : chan'[q][i] = chan[q][j]
      BY DEF IInv, AnswerInv
    <3>. QED BY Zenon, <1>c
  <2>. QED BY <2>1, <1>u
           DEF IInv, AnswerInv, Eligible, AnsweredWith, linkVars, modes, peerVars
<1>. QED BY <1>u, <1>1, <1>2, <1>3, <1>4, KeepTypes DEF IInv, Types, linkVars, peerVars

\* The arms of the select and their re-checks.
LEMMA WaitInv ==
  ASSUME IInv, NEW s \in Sender,
         PickTimer(s) \/ PickTeardown(s) \/ PickReply(s) \/ PickCaller(s)
           \/ TimerRecheck(s) \/ TimerExpired(s) \/ TeardownRecheck(s)
  PROVE  IInv'
<1>r. s \in ready => pc[s] \notin {"wait", "expired"} /\ (pc[s] # "done" => chan[s] # <<>>)
  BY DEF IInv, ReadyInv
<1>1. CASE PickTimer(s) \/ PickTeardown(s)
  BY <1>1, WaitPickedInv DEF PickTimer, PickTeardown
<1>2. CASE PickReply(s) BY <1>2, ReturnWaitingInv DEF PickReply
<1>3. CASE PickCaller(s) BY <1>3, <1>r, ReturnWaitingInv DEF PickCaller, Failure
<1>4. CASE TimerRecheck(s) /\ TryReply(s)
  BY <1>4, ReturnWaitingInv DEF TimerRecheck, TryReply
<1>5. CASE TimerRecheck(s) /\ ~TryReply(s)
  <2>u. UNCHANGED <<linkVars, epoch, target, outcome, ready, regVars, peerVars, rcv, handed>>
    BY <1>5 DEF TimerRecheck
  <2>p. pc[s] = "timer" /\ Goto(s, "expired") /\ s \notin ready
    BY Zenon, <1>5, <1>r DEF TimerRecheck, TryReply
  <2>w. \A g \in Gen : s \notin writeMu[g] BY Zenon, <2>p DEF IInv, SenderInv, SenderOK
  <2>v. UNCHANGED <<epoch, target, sent, registry, writeMu>> BY ZenonT(30), <2>u DEF regVars, peerVars
  <2>1. SenderInv' BY <2>v, <2>p, <2>w, SenderMoves DEF IInv, Types, PC
  <2>2. SendTypes' /\ ReadyInv'
    BY Zenon, <2>u, <2>p, GotoFacts
       DEF IInv, Types, SendTypes, ReadyInv, PC, regVars, peerVars
  <2>. QED BY <2>u, <2>1, <2>2, KeepTypes, KeepAnswerInv
           DEF IInv, Types, linkVars, modes, regVars, peerVars
<1>6. CASE TimerExpired(s)
  BY <1>6, <1>r, ReturnWaitingInv DEF TimerExpired, Expiry, Failure
<1>7. CASE TeardownRecheck(s)
  BY <1>7, <1>r, ReturnWaitingInv DEF TeardownRecheck, TryReply, Failure
<1>. QED BY <1>1, <1>2, <1>3, <1>4, <1>5, <1>6, <1>7

-----------------------------------------------------------------------------
(* The peer and the recv goroutines. *)

\* The peer's answer joins the wire of the socket it was asked on.
LEMMA PeerAnswersInv ==
  ASSUME IInv, NEW s \in Sender, NEW g \in Gen, NEW k \in AnswerKind, PeerAnswers(s, g, k)
  PROVE  IInv'
<1>u. UNCHANGED <<linkVars, sendVars, regVars, sent, rcv, handed>> BY DEF PeerAnswers
<1> DEFINE f == [tx |-> s, kind |-> k, n |-> Cardinality(answers) + 1]
<1>1. answers' = answers \cup {f} /\ wire' = [wire EXCEPT ![g] = Append(@, f)]
  BY DEF PeerAnswers
<1>2. f.tx \in Sender /\ f.kind \in AnswerKind OBVIOUS
<1> HIDE DEF f
<1>3. wire \in [Gen -> Seq(answers')] /\ rcv \in [Gen -> Busy(answers')]
  BY Zenon, <1>1, MoreAnswers DEF IInv, Types, PeerTypes
<1>4. wire' \in [Gen -> Seq(answers')] BY <1>1, <1>3
<1>5. PeerTypes' BY Zenon, <1>u, <1>1, <1>2, <1>3, <1>4 DEF IInv, Types, PeerTypes
<1>6. AnswerInv'
  <2>1. ASSUME NEW q, NEW v, AnsweredWith(q, v) PROVE AnsweredWith(q, v)'
    BY <1>1, <2>1 DEF AnsweredWith
  <2>. QED BY <1>u, <1>1, <2>1 DEF IInv, AnswerInv, Eligible, linkVars, modes, regVars
<1>. QED BY <1>u, <1>5, <1>6, KeepTypes, KeepSenderInv, KeepReadyInv
         DEF IInv, Types, sendVars, regVars

\* A recv goroutine's step on its own frame: the frame is still one the peer
\* sent, past the lookup only when it may complete its transaction.
LEMMA RecvMoves ==
  ASSUME IInv, NEW g \in Gen, NEW r \in Busy(answers), rcv' = [rcv EXCEPT ![g] = r],
         r.pc # "idle" => /\ r.reg \in Gen /\ r.f \in answers
                          /\ r.pc # "lookup" => Eligible(r.f.tx, r.f.kind),
         UNCHANGED <<linkVars, sendVars, writeMu, registry, chan, sent, answers>>,
         claim' \in [Sender -> {"open", "reply", "s9"}], wire' \in [Gen -> Seq(answers)]
  PROVE  IInv'
<1>1. /\ rcv' \in [Gen -> Busy(answers)]
      /\ rcv'[g] = r /\ \A h \in Gen : h # g => rcv'[h] = rcv[h]
  BY DEF IInv, Types, PeerTypes
<1>2. PeerTypes' /\ RegTypes' BY <1>1 DEF IInv, Types, PeerTypes, RegTypes
<1>3. AnswerInv'
  <2>1. ASSUME NEW h \in Gen, rcv'[h].pc # "idle"
        PROVE  /\ rcv'[h].reg \in Gen /\ rcv'[h].f \in answers
               /\ rcv'[h].pc # "lookup" => Eligible(rcv'[h].f.tx, rcv'[h].f.kind)
    <3>1. CASE h = g BY <2>1, <3>1, <1>1
    <3>2. CASE h # g BY <2>1, <3>2, <1>1 DEF IInv, AnswerInv
    <3>. QED BY <3>1, <3>2
  <2>. QED BY <2>1 DEF IInv, AnswerInv, Eligible, AnsweredWith, linkVars, modes
<1>. QED BY <1>2, <1>3, KeepTypes, KeepSenderInv, KeepReadyInv DEF IInv, Types, sendVars

\* The recv goroutine takes the next frame off its wire, admitted or not.
LEMMA RecvFrameInv == ASSUME IInv, NEW g \in Gen, RecvFrame(g) PROVE IInv'
<1> DEFINE r == [pc |-> "lookup", reg |-> cur, f |-> Head(wire[g])]
<1>1. wire \in [Gen -> Seq(answers)] /\ wire[g] # <<>> /\ wire' = [wire EXCEPT ![g] = Tail(@)]
  BY DEF IInv, Types, PeerTypes, RecvFrame
<1>2. Head(wire[g]) \in answers /\ Tail(wire[g]) \in Seq(answers)
  <2>1. wire[g] \in Seq(answers) /\ wire[g] # <<>> BY <1>1
  <2>. QED BY <2>1
<1>3. wire' \in [Gen -> Seq(answers)] BY <1>1, <1>2
<1>u. UNCHANGED <<linkVars, sendVars, regVars, sent, answers, handed>> BY DEF RecvFrame
<1>c. claim' \in [Sender -> {"open", "reply", "s9"}]
  BY <1>u DEF IInv, Types, RegTypes, regVars
<1>5. CASE rcv' = [rcv EXCEPT ![g] = r]
  <2>1. r \in Busy(answers) /\ r.pc = "lookup" /\ r.reg \in Gen /\ r.f \in answers
    BY <1>2 DEF IInv, Types, LinkTypes, Busy
  <2> HIDE DEF r
  <2>. QED BY Zenon, <1>3, <1>5, <1>u, <1>c, <2>1, RecvMoves DEF regVars
<1>6. CASE rcv' = rcv
  <2>1. rcv' = [rcv EXCEPT ![g] = rcv[g]] /\ rcv[g] \in Busy(answers)
    BY <1>6 DEF IInv, Types, PeerTypes
  <2>2. rcv[g].pc = "idle" BY DEF RecvFrame
  <2>. QED BY Zenon, <1>3, <1>u, <1>c, <2>1, <2>2, RecvMoves DEF regVars
<1>. QED BY <1>5, <1>6 DEF RecvFrame

\* A frame leaves the registry's code.
LEMMA LeaveFacts ==
  ASSUME IInv, NEW g \in Gen, NEW missed \in BOOLEAN, Leave(g, missed),
         UNCHANGED <<linkVars, sendVars, writeMu, registry, chan, peerVars>>,
         claim' \in [Sender -> {"open", "reply", "s9"}]
  PROVE  IInv'
<1>1. IdleRcv \in Busy(answers) /\ IdleRcv.pc = "idle" BY DEF IdleRcv, Busy
<1>2. rcv' = [rcv EXCEPT ![g] = IdleRcv] BY DEF Leave
<1>3. wire' \in [Gen -> Seq(answers)] /\ UNCHANGED <<sent, answers>>
  BY Zenon DEF IInv, Types, PeerTypes, peerVars
<1>. QED BY Zenon, <1>1, <1>2, <1>3, RecvMoves

\* A busy recv goroutine moves to its next program point with the same frame.
LEMMA RecvGoto ==
  ASSUME IInv, NEW g \in Gen, NEW l \in {"claim", "send"}, rcv[g].pc # "idle",
         Eligible(rcv[g].f.tx, rcv[g].f.kind), rcv' = [rcv EXCEPT ![g].pc = l],
         UNCHANGED <<linkVars, sendVars, writeMu, registry, chan, peerVars>>,
         claim' \in [Sender -> {"open", "reply", "s9"}]
  PROVE  IInv'
<1> DEFINE r == [rcv[g] EXCEPT !.pc = l]
<1>1. r \in Busy(answers) /\ r.pc = l /\ r.reg = rcv[g].reg /\ r.f = rcv[g].f
  BY Zenon DEF IInv, Types, PeerTypes, Busy
<1>2. rcv' = [rcv EXCEPT ![g] = r] BY DEF IInv, Types, PeerTypes
<1>3. wire' \in [Gen -> Seq(answers)] /\ UNCHANGED <<sent, answers>>
  BY Zenon DEF IInv, Types, PeerTypes, peerVars
<1>4. r.reg \in Gen /\ r.f \in answers BY <1>1 DEF IInv, AnswerInv
<1> HIDE DEF r
<1>. QED BY Zenon, <1>1, <1>2, <1>3, <1>4, RecvMoves

\* The registry lookup.
LEMMA RecvLookupInv == ASSUME IInv, NEW g \in Gen, RecvLookup(g) PROVE IInv'
<1>u. UNCHANGED <<linkVars, sendVars, regVars, peerVars>> /\ rcv[g].pc = "lookup"
  BY DEF RecvLookup
<1>c. claim' \in [Sender -> {"open", "reply", "s9"}]
  BY <1>u DEF IInv, Types, RegTypes, regVars
<1>1. CASE Leave(g, TRUE) BY Zenon, <1>u, <1>c, <1>1, LeaveFacts DEF regVars
<1>2. CASE /\ Eligible(rcv[g].f.tx, rcv[g].f.kind)
           /\ rcv' = [rcv EXCEPT ![g].pc = "claim"] /\ UNCHANGED handed
  BY Zenon, <1>u, <1>c, <1>2, RecvGoto DEF regVars
<1>. QED BY Zenon, <1>1, <1>2 DEF RecvLookup

\* The claim: won, and the frame goes on to the channel, or lost.
LEMMA RecvClaimInv == ASSUME IInv, NEW g \in Gen, RecvClaim(g) PROVE IInv'
<1>u. /\ UNCHANGED <<linkVars, sendVars, writeMu, registry, chan, peerVars>>
      /\ rcv[g].pc = "claim"
  BY DEF RecvClaim
<1>c. claim' \in [Sender -> {"open", "reply", "s9"}]
  BY Zenon DEF IInv, Types, RegTypes, RecvClaim
<1>e. Eligible(rcv[g].f.tx, rcv[g].f.kind) BY <1>u DEF IInv, AnswerInv
<1>1. ASSUME NEW missed \in BOOLEAN, Leave(g, missed) PROVE IInv'
  BY <1>u, <1>c, <1>1, LeaveFacts
<1>2. CASE rcv' = [rcv EXCEPT ![g].pc = "send"] /\ UNCHANGED handed
  BY Zenon, <1>u, <1>c, <1>e, <1>2, RecvGoto
<1>3. FallsThrough(rcv[g].f.tx) \in BOOLEAN BY DEF FallsThrough
<1>. QED BY <1>1, <1>2, <1>3 DEF RecvClaim

\* The non-blocking send of a claimed frame into the sender's channel.
LEMMA RecvSendInv == ASSUME IInv, NEW g \in Gen, RecvSend(g) PROVE IInv'
<1> DEFINE s == rcv[g].f.tx
           k == rcv[g].f.kind
<1>u. UNCHANGED <<linkVars, sendVars, writeMu, registry, claim, peerVars>> BY DEF RecvSend
<1>1. s \in Sender /\ k \in AnswerKind /\ Eligible(s, k) /\ AnsweredWith(s, k)
  <2>1. rcv[g].pc = "send" BY DEF RecvSend
  <2>2. rcv[g].f \in answers /\ Eligible(s, k) BY <2>1 DEF IInv, AnswerInv
  <2>. QED BY <2>2 DEF IInv, Types, PeerTypes, AnsweredWith
<1> HIDE DEF s, k
<1>2. chan' = [chan EXCEPT ![s] = IF @ = <<>> THEN <<k>> ELSE @] BY DEF RecvSend, s, k
<1>3. /\ chan' \in [Sender -> Seq(AnswerKind)]
      /\ \A q \in Sender : chan'[q] = chan[q] \/ (q = s /\ chan[q] = <<>> /\ chan'[q] = <<k>>)
  BY <1>1, <1>2 DEF IInv, Types, RegTypes
<1>4. /\ rcv' \in [Gen -> Busy(answers)]
      /\ rcv'[g] = IdleRcv /\ \A h \in Gen : h # g => rcv'[h] = rcv[h]
  BY DEF IInv, Types, PeerTypes, RecvSend, Leave, IdleRcv, Busy
<1>6. RegTypes' /\ PeerTypes'
  BY ZenonT(30), <1>u, <1>3, <1>4 DEF IInv, Types, RegTypes, PeerTypes, peerVars
<1>7. ReadyInv'
  <2>1. chan[s] # <<>> => chan'[s] # <<>> BY <1>1, <1>2 DEF IInv, Types, RegTypes
  <2>. QED BY <1>u, <1>3, <2>1 DEF IInv, Types, SendTypes, ReadyInv, sendVars
<1>8. AnswerInv'
  <2>1. ASSUME NEW q \in Sender, NEW i \in 1 .. Len(chan'[q])
        PROVE  Eligible(q, chan'[q][i]) /\ AnsweredWith(q, chan'[q][i])
    <3>1. CASE chan'[q] = chan[q] BY ZenonT(30), <2>1, <3>1 DEF IInv, AnswerInv
    <3>2. CASE q = s /\ chan'[q] = <<k>>
      <4>1. chan'[q][i] = k BY <2>1, <3>2
      <4>. QED BY Zenon, <4>1, <3>2, <1>1
    <3>. QED BY Zenon, <3>1, <3>2, <1>3
  <2>2. ASSUME NEW h \in Gen, rcv'[h].pc # "idle"
        PROVE  /\ rcv'[h].reg \in Gen /\ rcv'[h].f \in answers
               /\ rcv'[h].pc # "lookup" => Eligible(rcv'[h].f.tx, rcv'[h].f.kind)
    <3>1. h # g BY <2>2, <1>4 DEF IdleRcv
    <3>. QED BY Zenon, <2>2, <3>1, <1>4 DEF IInv, AnswerInv
  <2>3. strict' = strict /\ answers' = answers BY <1>u DEF linkVars, modes, peerVars
  <2>. QED BY Zenon, <2>1, <2>2, <2>3 DEF AnswerInv, Eligible, AnsweredWith
<1>. QED BY <1>u, <1>6, <1>7, <1>8, KeepTypes, KeepSenderInv
         DEF IInv, Types, sendVars, peerVars

-----------------------------------------------------------------------------
(* The theorems. *)

\* Every step of every goroutine and of the peer preserves the invariant.
LEMMA NextInv == IInv /\ [Next]_vars => IInv'
<1> SUFFICES ASSUME IInv, [Next]_vars PROVE IInv' OBVIOUS
<1>1. CASE Lifecycle BY <1>1, LifecycleInv
<1>2. ASSUME NEW s \in Sender, Send(s) PROVE IInv'
  BY <1>2, SendBeginInv, SendGateInv, WriteLockInv, WriteCheckInv, WriteOkInv, WriteFailsInv,
     WaitInv DEF Send, Proceed
<1>3. ASSUME NEW s \in Sender, NEW g \in Gen, NEW k \in AnswerKind, PeerAnswers(s, g, k)
      PROVE  IInv'
  BY <1>3, PeerAnswersInv
<1>4. ASSUME NEW g \in Gen, Recv(g) PROVE IInv'
  BY <1>4, RecvFrameInv, RecvLookupInv, RecvClaimInv, RecvSendInv DEF Recv
<1>5. CASE UNCHANGED vars
  BY <1>5, KeepTypes, KeepSenderInv, KeepReadyInv, KeepAnswerInv
     DEF IInv, Types, vars, linkVars, modes, sendVars, regVars, peerVars
<1>. QED BY <1>1, <1>2, <1>3, <1>4, <1>5 DEF Next

\* The inductive invariant holds in every reachable state.
THEOREM Invariance == Spec => []IInv
BY InitInv, NextInv, PTL DEF Spec

\* sendWaitReplyOn returns the result that was ready when it picked another arm.
THEOREM ReadyKept == Spec => []ReadyReplyKept
<1>1. IInv => ReadyReplyKept BY DEF IInv, ReadyInv, ReadyReplyKept
<1>. QED BY <1>1, Invariance, PTL

\* writeFrame writes on the socket of the generation its sender resolved.
THEOREM OwnSocket == Spec => []WriteOnOwnSocket
<1>1. IInv => WriteOnOwnSocket
  BY DEF IInv, Types, PeerTypes, SenderInv, SenderOK, WriteOnOwnSocket
<1>. QED BY <1>1, Invariance, PTL

\* Every return path of sendWaitReplyOn and writeFrame deregisters and unlocks.
THEOREM NothingLeft == Spec => []NothingLeftBehind
<1>1. IInv => NothingLeftBehind
  BY ZenonT(30) DEF IInv, Types, RegTypes, SenderInv, SenderOK, NothingLeftBehind
<1>. QED BY <1>1, Invariance, PTL

\* RecvClaim drops a genuine reply only as a duplicate of another reply: after
\* an S9 won the claim it goes to the data handlers.
THEOREM ReplyNotLost == Spec => GenuineReplyNotLost
<1> DEFINE Kept == \A g \in Gen :
             rcv[g].pc = "claim" /\ rcv'[g].pc = "idle" /\ rcv[g].f.kind = "reply"
               => claim[rcv[g].f.tx] = "reply" \/ rcv[g].f.tx \in Control
                    \/ rcv[g].f \in handed'
<1>1. IInv /\ [Next]_vars => [Kept]_vars
  <2> SUFFICES ASSUME IInv, Next, NEW g \in Gen,
                      rcv[g].pc = "claim", rcv'[g].pc = "idle", rcv[g].f.kind = "reply",
                      rcv[g].f.tx \notin Control
               PROVE  claim[rcv[g].f.tx] = "reply" \/ rcv[g].f \in handed'
    OBVIOUS
  <2>1. rcv \in [Gen -> Busy(answers)] BY Zenon DEF IInv, Types, PeerTypes
  <2>2. rcv[g].f.tx \in Data /\ claim[rcv[g].f.tx] \in {"open", "reply", "s9"}
    <3>1. rcv[g].f \in answers BY DEF IInv, AnswerInv
    <3>. QED BY SMTT(30), <3>1 DEF IInv, Types, PeerTypes, RegTypes, Sender
  <2>3. RecvClaim(g)
    <3>1. ASSUME Lifecycle PROVE FALSE
      BY <3>1 DEF Lifecycle, TeardownBegin, CloseSocket, Reconnect, SelectChange
    <3>2. ASSUME NEW s \in Sender, Send(s) PROVE FALSE
      BY <3>2 DEF Send, Proceed, SendBegin, SendGate, WriteLock, WriteCheck, WriteOk,
         WriteFails, PickTimer, PickTeardown, WaitPicked, PickReply, PickCaller, TimerRecheck,
         TimerExpired, TeardownRecheck, ReturnWaiting
    <3>3. ASSUME NEW s \in Sender, NEW h \in Gen, NEW k \in AnswerKind, PeerAnswers(s, h, k)
          PROVE  FALSE
      BY <3>3 DEF PeerAnswers
    <3>4. ASSUME NEW h \in Gen, Recv(h) PROVE h = g
      <4>1. CASE RecvFrame(h) BY <2>1, <4>1 DEF RecvFrame
      <4>2. CASE RecvLookup(h) BY <2>1, <4>2 DEF RecvLookup, Leave
      <4>3. CASE RecvClaim(h) BY <2>1, <4>3 DEF RecvClaim, Leave
      <4>4. CASE RecvSend(h) BY <2>1, <4>4 DEF RecvSend, Leave
      <4>. QED BY <3>4, <4>1, <4>2, <4>3, <4>4 DEF Recv
    <3>5. Recv(g) BY <3>1, <3>2, <3>3, <3>4 DEF Next
    <3>. QED BY <3>5 DEF Recv, RecvFrame, RecvLookup, RecvSend
  <2>4. Leave(g, FallsThrough(rcv[g].f.tx)) /\ claim[rcv[g].f.tx] # "open"
    <3>1. rcv' # [rcv EXCEPT ![g].pc = "send"] BY <2>1 DEF Busy
    <3>. QED BY <2>3, <3>1 DEF RecvClaim, ClaimFree
  <2>. QED BY <2>2, <2>4 DEF Leave, FallsThrough
<1>. QED BY <1>1, Invariance, PTL DEF Spec, GenuineReplyNotLost

-----------------------------------------------------------------------------
(* Transaction implements TransactionSpec. *)

AnswersSent == {[tx |-> a.tx, kind |-> a.kind] : a \in answers}

\* A step that changes neither a sender's standing nor the answers stutters.
LEMMA Stutters ==
  ASSUME UNCHANGED <<strict, answers>>, \A s \in Sender : Status'[s] = Status[s]
  PROVE  UNCHANGED <<strict, Status, AnswersSent>>
BY DEF Status, AnswersSent

\* A sender that moves on without returning is still open.
LEMMA StillOpen ==
  ASSUME IInv, NEW s \in Sender, pc[s] \notin {"idle", "done"},
         NEW l \in PC \ {"idle", "done"}, Goto(s, l), UNCHANGED <<strict, answers, outcome>>
  PROVE  UNCHANGED <<strict, Status, AnswersSent>>
<1>1. pc'[s] = l /\ \A q \in Sender : q # s => pc'[q] = pc[q] BY GotoFacts DEF IInv, Types
<1>2. \A q \in Sender : Status'[q] = Status[q] BY <1>1 DEF Status
<1>. QED BY <1>2, Stutters

\* A return is a completion: with a failure, or with an answer that the peer
\* sent to this request and that may complete it.
LEMMA Completes ==
  ASSUME IInv, NEW s \in Sender, pc[s] \notin {"idle", "done"}, NEW o,
         Goto(s, "done"), outcome' = [outcome EXCEPT ![s] = o],
         UNCHANGED <<strict, answers>>,
         \/ o \in Failure
         \/ o \in AnswerKind /\ Eligible(s, o) /\ AnsweredWith(s, o)
  PROVE  Promise!Next
<1>1. pc'[s] = "done" /\ \A q \in Sender : q # s => pc'[q] = pc[q]
  BY GotoFacts DEF IInv, Types, PC
<1>2. outcome'[s] = o /\ \A q \in Sender : q # s => outcome'[q] = outcome[q]
  BY DEF IInv, Types, SendTypes
<1>3. Status[s] = "open" /\ Status' = [Status EXCEPT ![s] = o]
  BY ZenonT(30), <1>1, <1>2 DEF Status
<1>4. o \in Failure \/ (o \in Promise!Acceptable(s) /\ [tx |-> s, kind |-> o] \in AnswersSent)
  <2>1. CASE o \in Failure BY <2>1
  <2>2. CASE o \in AnswerKind /\ Eligible(s, o) /\ AnsweredWith(s, o)
    <3>1. o \in Promise!Acceptable(s)
      BY <2>2 DEF Promise!Acceptable, AnswerKind, Eligible
    <3>2. [tx |-> s, kind |-> o] \in AnswersSent BY <2>2 DEF AnsweredWith, AnswersSent
    <3>. QED BY <3>1, <3>2
  <2>. QED BY <2>1, <2>2
<1>5. AnswersSent' = AnswersSent BY DEF AnswersSent
<1>6. Promise!Complete(s, o)
  BY <1>3, <1>4, <1>5 DEF Promise!Complete, Promise!Failure, Failure, AnswersSent
<1>. QED BY Zenon, <1>4, <1>6
         DEF Promise!Next, Promise!Sender, Sender, Promise!Failure, Failure

\* Each step of Transaction is a step of TransactionSpec or changes nothing it shows.
LEMMA StepImplements ==
  IInv /\ [Next]_vars => [Promise!Next]_<<strict, Status, AnswersSent>>
<1> SUFFICES ASSUME IInv, [Next]_vars
             PROVE  Promise!Next \/ UNCHANGED <<strict, Status, AnswersSent>>
  BY Zenon
<1>o. \A s \in Sender : chan[s] # <<>> =>
        /\ Head(chan[s]) \in AnswerKind /\ Eligible(s, Head(chan[s]))
        /\ AnsweredWith(s, Head(chan[s]))
  BY Zenon, ChannelFacts DEF IInv, Types
<1>1. CASE UNCHANGED <<strict, sendVars, answers>>
  BY <1>1, Stutters DEF Status, sendVars
<1>2. CASE Lifecycle \/ \E g \in Gen : Recv(g)
  <2>1. UNCHANGED <<strict, sendVars, answers>>
    BY Zenon, <1>2 DEF Lifecycle, TeardownBegin, CloseSocket, Reconnect, SelectChange, Recv,
       RecvFrame, RecvLookup, RecvClaim, RecvSend, linkVars, modes, peerVars
  <2>. QED BY <1>1, <2>1
<1>3. ASSUME NEW s \in Sender, NEW g \in Gen, NEW k \in AnswerKind, PeerAnswers(s, g, k)
      PROVE  Promise!Next
  <2> DEFINE f == [tx |-> s, kind |-> k, n |-> Cardinality(answers) + 1]
  <2>1. UNCHANGED <<strict, sendVars>> /\ answers' = answers \cup {f}
    BY <1>3 DEF PeerAnswers, linkVars, modes
  <2>2. AnswersSent' = AnswersSent \cup {[tx |-> s, kind |-> k]}
    <3>1. f.tx = s /\ f.kind = k OBVIOUS
    <3> HIDE DEF f
    <3>. QED BY <2>1, <3>1 DEF AnswersSent
  <2>3. Status[s] # "idle" /\ Status' = Status
    <3>1. <<s, g>> \in sent BY <1>3 DEF PeerAnswers
    <3>2. pc[s] # "idle" BY <3>1 DEF IInv, SenderInv, SenderOK
    <3>3. outcome[s] # "idle" BY DEF IInv, Types, SendTypes, Outcome, AnswerKind, Failure
    <3>. QED BY <2>1, <3>2, <3>3 DEF Status, sendVars
  <2>4. Promise!Answered(s, k)
    BY <2>1, <2>2, <2>3 DEF Promise!Answered, AnswersSent
  <2>. QED BY <2>4 DEF Promise!Next, Promise!Sender, Sender, AnswerKind
<1>4. ASSUME NEW s \in Sender, SendBegin(s) PROVE Promise!Next
  <2>1. pc[s] = "idle" /\ Goto(s, "gate") /\ UNCHANGED <<strict, answers, outcome>>
    BY <1>4 DEF SendBegin, linkVars, modes, peerVars
  <2>2. pc'[s] = "gate" /\ \A q \in Sender : q # s => pc'[q] = pc[q]
    BY <2>1, GotoFacts DEF IInv, Types, PC
  <2>3. Status[s] = "idle" /\ Status' = [Status EXCEPT ![s] = "open"]
    BY Zenon, <2>1, <2>2 DEF Status
  <2>4. Promise!Open(s) BY <2>1, <2>3 DEF Promise!Open
  <2>. QED BY <2>4 DEF Promise!Next, Promise!Sender, Sender
<1>5. ASSUME NEW s \in Sender,
             SendGate(s) \/ WriteLock(s) \/ WriteCheck(s) \/ WriteOk(s) \/ WriteFails(s)
      PROVE  Promise!Next \/ UNCHANGED <<strict, Status, AnswersSent>>
  <2>1. /\ pc[s] \in {"gate", "lock", "check", "write"} /\ UNCHANGED <<strict, answers>>
        /\ \/ /\ outcome' = outcome
              /\ \E l \in {"lock", "check", "write", "wait"} : Goto(s, l)
           \/ /\ Goto(s, "done")
              /\ \E o \in Failure : outcome' = [outcome EXCEPT ![s] = o]
    <3>1. CASE SendGate(s) BY Zenon, <3>1 DEF SendGate, linkVars, modes, peerVars, Failure
    <3>2. CASE WriteLock(s) BY Zenon, <3>2 DEF WriteLock, linkVars, modes, peerVars
    <3>3. CASE WriteCheck(s)
      BY <3>3 DEF WriteCheck, Return, linkVars, modes, peerVars, Failure
    <3>4. CASE WriteOk(s) BY <3>4 DEF WriteOk, linkVars, modes
    <3>5. CASE WriteFails(s)
      BY Zenon, <3>5
         DEF WriteFails, WriteFailure, Return, linkVars, modes, peerVars, Failure
    <3>. QED BY <1>5, <3>1, <3>2, <3>3, <3>4, <3>5
  <2>. QED BY <2>1, StillOpen, Completes DEF PC
<1>6. ASSUME NEW s \in Sender,
             PickTimer(s) \/ PickTeardown(s) \/ PickReply(s) \/ PickCaller(s)
               \/ TimerRecheck(s) \/ TimerExpired(s) \/ TeardownRecheck(s)
      PROVE  Promise!Next \/ UNCHANGED <<strict, Status, AnswersSent>>
  <2>1. ASSUME NEW o, ReturnWaiting(s, o), pc[s] \notin {"idle", "done"},
               o \in Failure \/ (chan[s] # <<>> /\ o = Head(chan[s]))
        PROVE  Promise!Next
    <3>1. /\ Goto(s, "done") /\ outcome' = [outcome EXCEPT ![s] = o]
          /\ UNCHANGED <<strict, answers>>
      BY Zenon, <2>1 DEF ReturnWaiting, Return, linkVars, modes, peerVars
    <3>2. \/ o \in Failure
          \/ o \in AnswerKind /\ Eligible(s, o) /\ AnsweredWith(s, o)
      BY <2>1, <1>o
    <3>. QED BY Zenon, <2>1, <3>1, <3>2, Completes
  <2>2. CASE PickTimer(s) \/ PickTeardown(s)
    <3>1. pc[s] = "wait" /\ UNCHANGED <<strict, answers, outcome>>
          /\ \E l \in {"timer", "teardown"} : Goto(s, l)
      BY <2>2 DEF PickTimer, PickTeardown, WaitPicked, linkVars, modes, peerVars
    <3>. QED BY <3>1, StillOpen DEF PC
  <2>3. CASE PickReply(s) BY <2>3, <2>1 DEF PickReply
  <2>4. CASE PickCaller(s) BY <2>4, <2>1 DEF PickCaller, Failure
  <2>5. CASE TimerRecheck(s) /\ TryReply(s) BY <2>5, <2>1 DEF TimerRecheck, TryReply
  <2>6. CASE TimerRecheck(s) /\ ~TryReply(s)
    <3>1. pc[s] = "timer" /\ Goto(s, "expired") /\ UNCHANGED <<strict, answers, outcome>>
      BY <2>6 DEF TimerRecheck, linkVars, modes, peerVars
    <3>. QED BY <3>1, StillOpen DEF PC
  <2>7. CASE TimerExpired(s) BY <2>7, <2>1 DEF TimerExpired, Expiry, Failure
  <2>8. CASE TeardownRecheck(s) BY <2>8, <2>1 DEF TeardownRecheck, TryReply, Failure
  <2>. QED BY <1>6, <2>2, <2>3, <2>4, <2>5, <2>6, <2>7, <2>8
<1>7. CASE UNCHANGED vars BY <1>7, <1>1 DEF vars, linkVars, modes, peerVars
<1>. QED BY <1>2, <1>3, <1>4, <1>5, <1>6, <1>7 DEF Next, Send, Proceed

\* What a synchronous send promises its caller: it completes once, with an
\* answer of the peer to this very request or with an error of its own.
THEOREM Implements == Spec => PromiseKept
<1>1. Init => Promise!Init
  BY DEF Init, Promise!Init, Promise!Sender, Sender, Status
<1>2. IInv /\ [Next]_vars =>
        [Promise!Next]_<<strict, Status, {[tx |-> a.tx, kind |-> a.kind] : a \in answers}>>
  BY StepImplements DEF AnswersSent
<1>. QED BY <1>1, <1>2, Invariance, PTL DEF Spec, PromiseKept, Promise!Spec
=============================================================================
