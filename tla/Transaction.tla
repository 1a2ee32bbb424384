----------------------------- MODULE Transaction -----------------------------
(***************************************************************************)
(* Synchronous transactions of package hsms: sendWaitReplyOn and writeFrame *)
(* on the sender's goroutine, the sender-owned reply registry, and the     *)
(* receive path that routes a peer's answers to it, across generations.    *)
(*                                                                         *)
(* A sender is one transaction; its System Bytes are its own (the generator *)
(* does not repeat within a generation), so it is also the registry key.   *)
(* The connection's lifecycle is reduced to what this code reads of it.    *)
(***************************************************************************)
EXTENDS Naturals, Sequences, FiniteSets

CONSTANTS
  Data,           \* W-bit data transactions (T3)
  Control,        \* control transactions (T6)
  MaxGen,         \* bound: generations
  MaxFrames       \* bound: requests and the peer's answers together

ASSUME TransactionAssumption ==
  Data \cap Control = {} /\ MaxGen \in Nat \ {0} /\ MaxFrames \in Nat

Sender == Data \cup Control
Gen == 1 .. MaxGen

\* What a peer may send against a transaction's System Bytes: a conforming
\* secondary (or the control response asked for), a secondary of another stream
\* or function, a Reject.req, a control response, an S9 naming the primary.
AnswerKind == {"reply", "mismatched", "reject", "control", "s9"}
Answer == [tx : Sender, kind : AnswerKind, n : 1 .. MaxFrames]

VARIABLES
  strict,                          \* WithStrictReplyMatching
  named,                           \* the transport names its generation to the runtime
  cur, ended, conn, selected,      \* lifecycle: generation, ctx, socket, FSM
  pc, epoch, target, outcome,      \* senders
  writeMu, registry, claim, chan,  \* epoch.writeMu, epoch.replies, replyWaiter
  ready,                           \* a result was in the channel when an arm was picked
  sent,                            \* <<transaction, socket>> written
  wire, answers,                   \* the peer's frames in flight, and all it ever sent, numbered
  rcv, handed                      \* recv goroutines; frames given to the data handlers

modes == <<strict, named>>
linkVars == <<modes, cur, ended, conn, selected>>
sendVars == <<pc, epoch, target, outcome, ready>>
regVars == <<writeMu, registry, claim, chan>>
peerVars == <<sent, wire, answers>>
vars == <<linkVars, sendVars, regVars, peerVars, rcv, handed>>

NoGen == 0
NoFrame == [tx |-> NoGen, kind |-> "none", n |-> 0]
IdleRcv == [pc |-> "idle", reg |-> NoGen, f |-> NoFrame]

Init ==
  /\ strict \in BOOLEAN /\ named \in BOOLEAN
  /\ cur = 1 /\ ended = {} /\ conn = {1} /\ selected = TRUE
  /\ pc = [s \in Sender |-> "idle"] /\ epoch = [s \in Sender |-> NoGen]
  /\ target = [s \in Sender |-> NoGen] /\ outcome = [s \in Sender |-> "none"]
  /\ ready = {} /\ writeMu = [g \in Gen |-> {}]
  /\ registry = [g \in Gen |-> {}]
  /\ claim = [s \in Sender |-> "open"] /\ chan = [s \in Sender |-> <<>>]
  /\ sent = {} /\ wire = [g \in Gen |-> <<>>] /\ answers = {}
  /\ rcv = [g \in Gen |-> IdleRcv] /\ handed = {}

Failure == {"NotSelected", "ConnClosed", "SendError", "Timeout", "Canceled"}
PC == {"idle", "gate", "lock", "check", "write", "wait", "timer", "expired",
       "teardown", "done"}

\* Every variable has its type.
TypeOK ==
  /\ strict \in BOOLEAN /\ named \in BOOLEAN
  /\ cur \in Gen /\ ended \subseteq Gen /\ conn \subseteq Gen /\ selected \in BOOLEAN
  /\ pc \in [Sender -> PC] /\ epoch \in [Sender -> Gen \cup {NoGen}]
  /\ target \in [Sender -> Gen \cup {NoGen}]
  /\ outcome \in [Sender -> {"none"} \cup AnswerKind \cup Failure]
  /\ writeMu \in [Gen -> SUBSET Sender] /\ registry \in [Gen -> SUBSET Sender]
  /\ claim \in [Sender -> {"open", "reply", "s9"}]
  /\ \A s \in Sender : chan[s] \in Seq(AnswerKind)
  /\ ready \subseteq Sender /\ sent \subseteq Sender \X Gen
  /\ \A g \in Gen : wire[g] \in Seq(Answer)
  /\ answers \subseteq Answer /\ handed \subseteq Answer
  /\ \A g \in Gen : rcv[g].pc \in {"idle", "lookup", "claim", "send"}

-----------------------------------------------------------------------------
(* The lifecycle as this code sees it: teardown cancels the context, then     *)
(* closes the socket; a successor is published after that.                    *)

TeardownBegin ==
  /\ cur \notin ended
  /\ ended' = ended \cup {cur} /\ selected' = FALSE
  /\ UNCHANGED <<modes, cur, conn, sendVars, regVars, peerVars, rcv, handed>>

CloseSocket ==
  /\ cur \in ended /\ cur \in conn
  /\ conn' = conn \ {cur}
  /\ UNCHANGED <<modes, cur, ended, selected, sendVars, regVars, peerVars, rcv, handed>>

Reconnect ==
  /\ cur \in ended \ conn /\ cur < MaxGen
  /\ cur' = cur + 1 /\ conn' = conn \cup {cur + 1}
  /\ UNCHANGED <<modes, ended, selected, sendVars, regVars, peerVars, rcv, handed>>

SelectChange ==
  /\ cur \notin ended
  /\ selected' = ~selected
  /\ UNCHANGED <<modes, cur, ended, conn, sendVars, regVars, peerVars, rcv, handed>>

Lifecycle == TeardownBegin \/ CloseSocket \/ Reconnect \/ SelectChange

-----------------------------------------------------------------------------
(* sendWaitReplyOn and writeFrame. *)

Goto(s, l) == pc' = [pc EXCEPT ![s] = l]

\* Every return runs the deferred deregister; Faulty variant: it is forgotten.
DeregisterForgotten(s) == UNCHANGED registry
Deregister(s) == registry' = [registry EXCEPT ![epoch[s]] = @ \ {s}]

Return(s, o) == /\ Goto(s, "done")
                /\ outcome' = [outcome EXCEPT ![s] = o]
                /\ Deregister(s)

Unlock(s) == writeMu' = [writeMu EXCEPT ![epoch[s]] = @ \ {s}]

Frames == Cardinality({s \in Sender : pc[s] # "idle"}) + Cardinality(answers)

\* WriteMessage resolves the current epoch once.
SendBegin(s) ==
  /\ pc[s] = "idle" /\ Frames < MaxFrames
  /\ Goto(s, "gate") /\ epoch' = [epoch EXCEPT ![s] = cur]
  /\ UNCHANGED <<linkVars, target, outcome, ready, regVars, peerVars, rcv, handed>>

\* Gate B1 (data only), then register before the write.
SendGate(s) ==
  /\ pc[s] = "gate"
  /\ IF s \in Data /\ ~selected
     THEN /\ Goto(s, "done") /\ outcome' = [outcome EXCEPT ![s] = "NotSelected"]
          /\ UNCHANGED registry
     ELSE /\ Goto(s, "lock") /\ UNCHANGED outcome
          /\ registry' = [registry EXCEPT ![epoch[s]] = @ \cup {s}]
  /\ UNCHANGED <<linkVars, epoch, target, ready, writeMu, claim, chan, peerVars, rcv,
                 handed>>

\* The epoch's own socket, captured under writeMu.
LiveConn(s) == IF epoch[s] \in conn THEN epoch[s] ELSE NoGen

WriteLock(s) ==
  /\ pc[s] = "lock" /\ writeMu[epoch[s]] = {}
  /\ writeMu' = [writeMu EXCEPT ![epoch[s]] = {s}]
  /\ target' = [target EXCEPT ![s] = LiveConn(s)]
  /\ Goto(s, "check")
  /\ UNCHANGED <<linkVars, epoch, outcome, ready, registry, claim, chan, peerVars, rcv,
                 handed>>

\* No socket, a cancelled generation and gate B2 (data only) refuse the write.
WriteCheck(s) ==
  /\ pc[s] = "check"
  /\ CASE target[s] = NoGen \/ epoch[s] \in ended -> Return(s, "ConnClosed") /\ Unlock(s)
       [] ~(target[s] = NoGen \/ epoch[s] \in ended) /\ s \in Data /\ ~selected ->
            Return(s, "NotSelected") /\ Unlock(s)
       [] OTHER -> Goto(s, "write") /\ UNCHANGED <<outcome, registry, writeMu>>
  /\ UNCHANGED <<linkVars, epoch, target, ready, claim, chan, peerVars, rcv, handed>>

\* tr.Write on the captured socket: on the wire while that is open, or an error,
\* which is the teardown's when the context is already cancelled.
\* Faulty variant: the write goes to the transport's current socket.
WriteSocketCurrent(s) == cur
WriteSocket(s) == target[s]

WriteOk(s) ==
  /\ pc[s] = "write" /\ WriteSocket(s) \in conn
  /\ sent' = sent \cup {<<s, WriteSocket(s)>>}
  /\ Goto(s, "wait") /\ Unlock(s)
  /\ UNCHANGED <<linkVars, epoch, target, outcome, ready, registry, claim, chan, wire,
                 answers, rcv, handed>>

\* Faulty variant: every failed write is a send error.
WriteFailureUnsorted(s) == "SendError"
WriteFailure(s) == IF epoch[s] \in ended THEN "ConnClosed" ELSE "SendError"

WriteFails(s) ==
  /\ pc[s] = "write"
  /\ Return(s, WriteFailure(s)) /\ Unlock(s)
  /\ UNCHANGED <<linkVars, epoch, target, ready, claim, chan, peerVars, rcv, handed>>

-----------------------------------------------------------------------------
(* The reply wait: one select over reply, T3/T6, teardown and caller context. *)

WaitPicked(s, l) ==
  /\ pc[s] = "wait"
  /\ Goto(s, l)
  /\ ready' = IF chan[s] # <<>> THEN ready \cup {s} ELSE ready
  /\ UNCHANGED <<linkVars, epoch, target, outcome, regVars, peerVars, rcv, handed>>

\* Faulty variant: only a data wait has a timer.
PickTimerData(s) == s \in Data /\ WaitPicked(s, "timer")
PickTimer(s) == WaitPicked(s, "timer")
PickTeardown(s) == epoch[s] \in ended /\ WaitPicked(s, "teardown")

ReturnWaiting(s, o) ==
  /\ Return(s, o)
  /\ chan' = [chan EXCEPT ![s] = IF o \in AnswerKind THEN Tail(@) ELSE @]
  /\ UNCHANGED <<linkVars, epoch, target, ready, writeMu, claim, peerVars, rcv, handed>>

PickReply(s) == pc[s] = "wait" /\ chan[s] # <<>> /\ ReturnWaiting(s, Head(chan[s]))
PickCaller(s) == pc[s] = "wait" /\ ReturnWaiting(s, "Canceled")

\* tryReply. Faulty variant: the arm does not look again.
TryReplyNever(s) == FALSE
TryReply(s) == chan[s] # <<>>

\* After the timer arm: the reply first, then the teardown, then T3/T6.
TimerRecheck(s) ==
  /\ pc[s] = "timer"
  /\ IF TryReply(s) THEN ReturnWaiting(s, Head(chan[s]))
     ELSE /\ Goto(s, "expired")
          /\ UNCHANGED <<linkVars, epoch, target, outcome, ready, regVars, peerVars,
                         rcv, handed>>

Expiry(s) == IF epoch[s] \in ended THEN "ConnClosed" ELSE "Timeout"

TimerExpired(s) == pc[s] = "expired" /\ ReturnWaiting(s, Expiry(s))

TeardownRecheck(s) ==
  /\ pc[s] = "teardown"
  /\ ReturnWaiting(s, IF TryReply(s) THEN Head(chan[s]) ELSE "ConnClosed")

\* What a sender does by itself, once its request began.
Proceed(s) ==
  \/ SendGate(s) \/ WriteLock(s) \/ WriteCheck(s) \/ WriteOk(s) \/ WriteFails(s)
  \/ PickTimer(s) \/ PickTeardown(s) \/ PickReply(s)
  \/ TimerRecheck(s) \/ TimerExpired(s) \/ TeardownRecheck(s)
Send(s) == SendBegin(s) \/ Proceed(s) \/ PickCaller(s)

-----------------------------------------------------------------------------
(* The peer (external), which answers what it got on a socket, in order. *)

PeerAnswers(s, g, k) ==
  /\ <<s, g>> \in sent /\ g \in conn
  /\ Frames < MaxFrames
  /\ LET f == [tx |-> s, kind |-> k, n |-> Cardinality(answers) + 1]
     IN answers' = answers \cup {f} /\ wire' = [wire EXCEPT ![g] = Append(@, f)]
  /\ UNCHANGED <<linkVars, sendVars, regVars, sent, rcv, handed>>

-----------------------------------------------------------------------------
(* The recv goroutine of g: admission, the registry lookup, the claim, the    *)
(* send. It may outlive its generation.                                       *)

\* A named report is refused unless its generation is live; an unnamed one is
\* bound to the current epoch. Faulty variant: no liveness test.
AdmittedAnyway(g) == TRUE
Admitted(g) == named => g = cur /\ g \notin ended

\* Data frames reach the runtime only while Selected (else Reject.req).
RecvFrame(g) ==
  /\ rcv[g].pc = "idle" /\ wire[g] # <<>>
  /\ LET f == Head(wire[g])
         isData == f.kind \in {"mismatched", "s9"}
                   \/ (f.kind = "reply" /\ f.tx \in Data)
     IN /\ wire' = [wire EXCEPT ![g] = Tail(@)]
        /\ rcv' = IF Admitted(g) /\ (isData => selected)
                  THEN [rcv EXCEPT ![g] = [pc |-> "lookup", reg |-> cur, f |-> f]]
                  ELSE rcv
  /\ UNCHANGED <<linkVars, sendVars, regVars, sent, answers, handed>>

\* The frame leaves the registry's code. An S9 is routed on to the data handlers
\* whatever it ended; so is a data secondary that missed (a control response
\* that missed is rejected, a Reject.req dropped).
Leave(g, missed) ==
  /\ rcv' = [rcv EXCEPT ![g] = IdleRcv]
  /\ handed' = IF \/ rcv[g].f.kind = "s9"
                  \/ missed /\ \/ rcv[g].f.kind = "mismatched"
                               \/ rcv[g].f.kind = "reply" /\ rcv[g].f.tx \in Data
               THEN handed \cup {rcv[g].f} ELSE handed

\* route and failS9 up to the claim. Only a data primary is compared: it takes
\* no control response, a diverging secondary only when not strict; an S9 ends
\* only a data wait.
\* Faulty variant: a diverging secondary is taken in strict mode too.
EligibleLax(s, k) == IF s \in Data THEN k # "control" ELSE k # "s9"
Eligible(s, k) == IF s \in Data THEN k # "control" /\ (k = "mismatched" => ~strict)
                  ELSE k # "s9"

RecvLookup(g) ==
  /\ rcv[g].pc = "lookup"
  /\ IF rcv[g].f.tx \in registry[rcv[g].reg] /\ Eligible(rcv[g].f.tx, rcv[g].f.kind)
     THEN rcv' = [rcv EXCEPT ![g].pc = "claim"] /\ UNCHANGED handed
     ELSE Leave(g, TRUE)
  /\ UNCHANGED <<linkVars, sendVars, regVars, peerVars>>

\* CompareAndSwap on replyWaiter.state.
ClaimFree(s) == claim[s] = "open"

\* A wait ended by an S9 leaves a genuine reply to the handlers; a duplicate is
\* dropped. Faulty variant: it is dropped either way.
FallsThroughNever(s) == FALSE
FallsThrough(s) == claim[s] = "s9"

RecvClaim(g) ==
  LET s == rcv[g].f.tx
  IN /\ rcv[g].pc = "claim"
     /\ IF ClaimFree(s)
        THEN /\ claim' = [claim EXCEPT ![s] = IF rcv[g].f.kind = "s9" THEN "s9" ELSE "reply"]
             /\ rcv' = [rcv EXCEPT ![g].pc = "send"] /\ UNCHANGED handed
        ELSE UNCHANGED claim /\ Leave(g, FallsThrough(s))
     /\ UNCHANGED <<linkVars, sendVars, writeMu, registry, chan, peerVars>>

\* The non-blocking send into the one-slot buffer.
RecvSend(g) ==
  LET s == rcv[g].f.tx
  IN /\ rcv[g].pc = "send"
     /\ chan' = [chan EXCEPT ![s] = IF @ = <<>> THEN <<rcv[g].f.kind>> ELSE @]
     /\ Leave(g, FALSE)
     /\ UNCHANGED <<linkVars, sendVars, writeMu, registry, claim, peerVars>>

Recv(g) == RecvFrame(g) \/ RecvLookup(g) \/ RecvClaim(g) \/ RecvSend(g)

Next == \/ Lifecycle
        \/ \E s \in Sender : Send(s)
        \/ \E s \in Sender, g \in Gen, k \in AnswerKind : PeerAnswers(s, g, k)
        \/ \E g \in Gen : Recv(g)

Spec == Init /\ [][Next]_vars

-----------------------------------------------------------------------------
(* Properties. *)

\* sendWaitReplyOn's re-checks: a result that was ready when the timer or the
\* teardown arm was picked is what the call returns.
ReadyReplyKept ==
  \A s \in ready : pc[s] = "done" => outcome[s] \in AnswerKind

\* writeFrame's stale-epoch guard: a frame is written on the socket of the
\* generation its sender resolved, never on a successor's.
WriteOnOwnSocket == \A w \in sent : w[2] = epoch[w[1]]

\* The registry of every generation is empty once its senders returned, and no
\* one holds a write lock: nothing is left behind on any return path.
NothingLeftBehind ==
  \A g \in Gen : /\ registry[g] \subseteq {s \in Sender : epoch[s] = g /\ pc[s] # "done"}
                 /\ writeMu[g] \subseteq {s \in Sender : pc[s] \in {"check", "write"}}

\* A genuine reply that reaches the claim is dropped only as a duplicate of a
\* reply; after an S9 it reaches the data handlers.
GenuineReplyNotLost ==
  [][\A g \in Gen : rcv[g].pc = "claim" /\ rcv'[g].pc = "idle" /\ rcv[g].f.kind = "reply"
       => claim[rcv[g].f.tx] = "reply" \/ rcv[g].f.tx \in Control \/ rcv[g].f \in handed']_vars

\* What a synchronous send promises its caller (TransactionSpec).
Status == [s \in Sender |-> IF pc[s] = "idle" THEN "idle"
                            ELSE IF pc[s] # "done" THEN "open" ELSE outcome[s]]
Promise == INSTANCE TransactionSpec WITH status <- Status, 
               answered <- {[tx |-> a.tx, kind |-> a.kind] : a \in answers}
PromiseKept == Promise!Spec

\* Every sender keeps running; a write is bounded by its deadline, a wait by
\* T3/T6. The caller need not cancel.
FairSpec == Spec /\ \A s \in Sender : WF_vars(Proceed(s))

\* A send returns, whatever the peer and the teardown do.
SendReturns == \A s \in Sender : pc[s] = "gate" ~> pc[s] = "done"
=============================================================================
