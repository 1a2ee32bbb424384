------------------------------- MODULE Notify -------------------------------
(***************************************************************************)
(* State-change notifications: supervisor.emit (drop-oldest), the notifier  *)
(* goroutine of each Open/Close cycle, the lock-free subscription list, and *)
(* the bounded join that may leave a notifier behind when Close returns.    *)
(* A transition is its number; one StateChangeHandler stands for them all.  *)
(***************************************************************************)
EXTENDS Naturals, Sequences, FiniteSets, SequencesExt

CONSTANTS
  Cap,        \* supervisorNotifyCap
  Sub,        \* lifecycle subscriptions
  Early,      \* those made before the first Open
  MaxFired,   \* bound: transitions fired
  MaxCycles   \* bound: Open/Close cycles

ASSUME NotifyAssumption ==
  /\ Cap \in Nat \ {0} /\ MaxFired \in Nat /\ MaxCycles \in Nat \ {0}
  /\ IsFiniteSet(Sub) /\ Early \subseteq Sub

Cycle == 1 .. MaxCycles
Change == 1 .. MaxFired

VARIABLES
  cycle, phase,        \* the current cycle and what Close has done of it
  fired, emit,         \* transitions fired; where emit is
  queue, ended,        \* supervisor.notify of each cycle; the ones run closed
  dropped, lost,       \* droppedNotify; the transitions really thrown away
  note, heard,         \* notifiers; what the handler was told
  subs, version,       \* the immutable slice and the identity of its pointer
  reg, old,            \* callers of SubscribeLifecycle and cancelLifecycle
  told, late           \* the last each fn was told; calls begun after its cancel

runVars == <<cycle, phase, ended>>
emitVars == <<fired, emit, dropped, lost>>
noteVars == <<note, heard, told, late>>
subVars == <<subs, version, reg, old>>
vars == <<runVars, emitVars, queue, noteVars, subVars>>

Idle == [pc |-> "idle", n |-> 0, snap |-> <<>>, i |-> 0]
NothingRead == [version |-> 0, list |-> <<>>]

Init ==
  /\ cycle = 1 /\ phase = "open" /\ ended = {}
  /\ fired = 0 /\ emit = "idle" /\ dropped = 0 /\ lost = {}
  /\ queue = [c \in Cycle |-> <<>>]
  /\ note = [c \in Cycle |-> Idle] /\ heard = [c \in Cycle |-> <<>>]
  /\ told = [s \in Sub |-> [c \in Cycle |-> 0]]
  /\ late = [s \in Sub |-> [c \in Cycle |-> 0]]
  /\ subs = SetToSeq(Early) /\ version = 0
  /\ reg = [s \in Sub |-> IF s \in Early THEN "in" ELSE "out"] /\ old = [s \in Sub |-> NothingRead]

\* Every variable has its type.
TypeOK ==
  /\ cycle \in Cycle /\ phase \in {"open", "closing", "join", "closed"}
  /\ ended \subseteq Cycle
  /\ fired \in 0 .. MaxFired /\ emit \in {"idle", "full", "send"}
  /\ dropped \in 0 .. MaxFired /\ lost \subseteq Change
  /\ \A c \in Cycle : Len(queue[c]) <= Cap /\ ToSet(queue[c]) \subseteq Change
  /\ \A c \in Cycle :
       /\ note[c].pc \in {"idle", "handler", "subs", "in", "hung", "exited", "done"}
       /\ ToSet(note[c].snap) \subseteq Sub
  /\ ToSet(subs) \subseteq Sub
  /\ reg \in [Sub -> {"out", "subscribing", "in", "cancelling", "gone"}]

-----------------------------------------------------------------------------
(* emit, on the supervisor's goroutine: send, or make room and send.         *)

DropOldest(q) == Tail(q)

Fire ==
  /\ phase \in {"open", "closing"} /\ emit = "idle" /\ fired < MaxFired
  /\ fired' = fired + 1
  /\ IF Len(queue[cycle]) < Cap
     THEN queue' = [queue EXCEPT ![cycle] = Append(@, fired + 1)] /\ emit' = "idle"
     ELSE queue' = queue /\ emit' = "full"
  /\ UNCHANGED <<runVars, dropped, lost, noteVars, subVars>>

\* The counter counts also when the notifier emptied the channel in between.
CountDrop == dropped + 1

\* Faulty variant: the new transition is dropped instead.
EmitGivesUp ==
  /\ emit = "full" /\ emit' = "idle"
  /\ dropped' = CountDrop /\ lost' = lost \cup {fired}
  /\ UNCHANGED <<runVars, fired, queue, noteVars, subVars>>

EmitDrop ==
  /\ emit = "full"
  /\ LET q == queue[cycle]
         kept == IF q = <<>> THEN q ELSE DropOldest(q)
     IN /\ queue' = [queue EXCEPT ![cycle] = kept]
        /\ lost' = lost \cup (ToSet(q) \ ToSet(kept))
  /\ dropped' = CountDrop
  /\ emit' = "send"
  /\ UNCHANGED <<runVars, fired, noteVars, subVars>>

EmitSend ==
  /\ emit = "send" /\ Len(queue[cycle]) < Cap
  /\ queue' = [queue EXCEPT ![cycle] = Append(@, fired)]
  /\ emit' = "idle"
  /\ UNCHANGED <<runVars, fired, dropped, lost, noteVars, subVars>>

-----------------------------------------------------------------------------
(* Close and the next Open, which makes a fresh supervisor.                  *)

CloseBegins == /\ phase = "open" /\ phase' = "closing"
               /\ UNCHANGED <<cycle, ended, emitVars, queue, noteVars, subVars>>

\* stop, then run returns and closes notify.
RunReturns == /\ phase = "closing" /\ emit = "idle"
              /\ phase' = "join" /\ ended' = ended \cup {cycle}
              /\ UNCHANGED <<cycle, emitVars, queue, noteVars, subVars>>

\* joinSupervisor: the notifier is done, or the deadline passes. A callback
\* that is itself the caller of Close always runs into the deadline.
\* Faulty variant: the join has no deadline.
JoinUnbounded == note[cycle].pc \in {"done", "exited"}
JoinOver == TRUE

CloseReturns == /\ phase = "join" /\ JoinOver
                /\ phase' = "closed"
                /\ UNCHANGED <<cycle, ended, emitVars, queue, noteVars, subVars>>

Reopen == /\ phase = "closed" /\ cycle < MaxCycles
          /\ cycle' = cycle + 1 /\ phase' = "open" /\ dropped' = 0
          /\ UNCHANGED <<ended, fired, emit, lost, queue, noteVars, subVars>>

-----------------------------------------------------------------------------
(* The notifier of cycle c.                                                  *)

\* The range ends when the channel is closed and empty.
\* Faulty variant: it ends with what is queued undelivered.
DrainedAnyway(c) == TRUE
Drained(c) == queue[c] = <<>>

NoteTakes(c) ==
  /\ note[c].pc = "idle" /\ c <= cycle
  /\ \/ /\ queue[c] # <<>>
        /\ note' = [note EXCEPT ![c] = [pc |-> "handler", n |-> Head(queue[c]),
                                        snap |-> note[c].snap, i |-> 0]]
        /\ heard' = [heard EXCEPT ![c] = Append(@, Head(queue[c]))]
        /\ queue' = [queue EXCEPT ![c] = Tail(@)]
     \/ /\ Drained(c) /\ c \in ended
        /\ note' = [note EXCEPT ![c].pc = "done"]
        /\ UNCHANGED <<heard, queue>>
  /\ UNCHANGED <<runVars, emitVars, told, late, subVars>>

\* The handlers are over (a panic is recovered): the subscription list is read
\* once for the pass.
Snapshot(c) == subs

HandlerReturns(c) ==
  /\ note[c].pc = "handler"
  /\ note' = [note EXCEPT ![c] = [pc |-> "subs", n |-> @.n, snap |-> Snapshot(c), i |-> 1]]
  /\ UNCHANGED <<runVars, emitVars, queue, heard, told, late, subVars>>

NoteCalls(c) ==
  LET s == note[c].snap[note[c].i]
  IN /\ note[c].pc = "subs" /\ note[c].i <= Len(note[c].snap)
     /\ note' = [note EXCEPT ![c].pc = "in"]
     /\ told' = [told EXCEPT ![s][c] = note[c].n]
     /\ late' = IF reg[s] = "gone" THEN [late EXCEPT ![s][c] = @ + 1] ELSE late
     /\ UNCHANGED <<runVars, emitVars, queue, heard, subVars>>

SubReturns(c) ==
  /\ note[c].pc = "in"
  /\ note' = [note EXCEPT ![c].pc = "subs", ![c].i = @ + 1]
  /\ UNCHANGED <<runVars, emitVars, queue, heard, told, late, subVars>>

PassEnds(c) ==
  /\ note[c].pc = "subs" /\ note[c].i > Len(note[c].snap)
  /\ note' = [note EXCEPT ![c].pc = "idle"]
  /\ UNCHANGED <<runVars, emitVars, queue, heard, told, late, subVars>>

\* runtime.Goexit in a callback ends the notifier with what it holds.
Goexit(c) ==
  /\ note[c].pc \in {"handler", "in"}
  /\ note' = [note EXCEPT ![c].pc = "exited"]
  /\ UNCHANGED <<runVars, emitVars, queue, heard, told, late, subVars>>

\* A callback that never returns: it waits for ever, or is itself the caller of
\* the Close that joins this notifier.
Hang(c) ==
  /\ note[c].pc \in {"handler", "in"}
  /\ note' = [note EXCEPT ![c].pc = "hung"]
  /\ UNCHANGED <<runVars, emitVars, queue, heard, told, late, subVars>>

Notifier(c) == \/ NoteTakes(c) \/ HandlerReturns(c) \/ NoteCalls(c)
               \/ SubReturns(c) \/ PassEnds(c)

-----------------------------------------------------------------------------
(* SubscribeLifecycle and its cancel: load, rebuild, compare and swap.       *)

\* Faulty variant: the pointer is stored without a comparison.
SwapAlways(s) == TRUE
SwapWins(s) == old[s].version = version

Load(s) == old' = [old EXCEPT ![s] = [version |-> version, list |-> subs]]

SubscribeLoads(s) ==
  /\ reg[s] = "out" /\ Load(s)
  /\ reg' = [reg EXCEPT ![s] = "subscribing"]
  /\ UNCHANGED <<runVars, emitVars, queue, noteVars, subs, version>>

CancelLoads(s) ==
  /\ reg[s] = "in" /\ Load(s)
  /\ reg' = [reg EXCEPT ![s] = "cancelling"]
  /\ UNCHANGED <<runVars, emitVars, queue, noteVars, subs, version>>

Swap(s, list, next) ==
  /\ IF SwapWins(s)
     THEN /\ subs' = list /\ version' = version + 1
          /\ reg' = [reg EXCEPT ![s] = next] /\ old' = [old EXCEPT ![s] = NothingRead]
     ELSE Load(s) /\ UNCHANGED <<subs, version, reg>>
  /\ UNCHANGED <<runVars, emitVars, queue, noteVars>>

SubscribeSwaps(s) == reg[s] = "subscribing" /\ Swap(s, Append(old[s].list, s), "in")
CancelSwaps(s) == /\ reg[s] = "cancelling"
                  /\ Swap(s, SelectSeq(old[s].list, LAMBDA t : t # s), "gone")

-----------------------------------------------------------------------------
Supervisor == Fire \/ EmitDrop \/ EmitSend
Closer == RunReturns \/ CloseReturns

Next ==
  \/ Supervisor \/ CloseBegins \/ Closer \/ Reopen
  \/ \E c \in Cycle : Notifier(c) \/ Goexit(c) \/ Hang(c)
  \/ \E s \in Sub : SubscribeLoads(s) \/ SubscribeSwaps(s) \/ CancelLoads(s) \/ CancelSwaps(s)

Spec == Init /\ [][Next]_vars

-----------------------------------------------------------------------------
(* Properties. *)

\* The transitions that a live notifier still holds, or has told its handlers.
Kept(c) == ToSet(queue[c]) \cup ToSet(heard[c])
GaveUp(c) == note[c].pc \in {"hung", "exited"}

\* emit: "Drop-oldest guarantees the LATEST state always reaches the handler":
\* only transitions that a later one of the same cycle followed are lost, and
\* what is neither queued, delivered nor in emit's hands is one of them.
OnlyOldLost ==
  /\ \A n \in lost : n < fired /\ \E c \in Cycle : \E m \in Kept(c) \cup {fired} : m > n
  /\ \A n \in 1 .. fired : \/ \E c \in Cycle : n \in Kept(c)
                           \/ n \in lost
                           \/ emit # "idle" /\ n = fired

\* notifier: each handler and each fn hears the transitions of a cycle in order
\* and none twice, whatever was dropped between them.  SubscribeLifecycle and
\* cancelLifecycle under concurrent callers: no subscription is lost and no
\* cancelled one comes back, and after cancel returned fn runs at most once more
\* for each notifier that is alive.
SubscribersServed ==
  /\ \A c \in Cycle :
       /\ \A i, j \in 1 .. Len(heard[c]) : i < j => heard[c][i] < heard[c][j]
       /\ note[c].pc = "subs" /\ note[c].i <= Len(note[c].snap)
            => told[note[c].snap[note[c].i]][c] < note[c].n
  /\ \A s \in Sub :
       /\ reg[s] \in {"in", "cancelling"} => s \in ToSet(subs)
       /\ reg[s] \in {"out", "subscribing", "gone"} => s \notin ToSet(subs)
       /\ \A c \in Cycle : late[s][c] <= 1

-----------------------------------------------------------------------------
\* Fairness: the supervisor, Close and the notifiers run; a callback returns,
\* ends its goroutine or hangs.
FairSpec == /\ Spec /\ WF_vars(EmitDrop \/ EmitSend) /\ WF_vars(Closer)
            /\ \A c \in Cycle : WF_vars(Notifier(c))

\* Drop-oldest, the other half: the latest transition of a cycle is heard
\* unless a callback ended the notifier or never returned.
LatestHeard ==
  \A n \in Change :
    fired = n ~> \/ fired > n
                 \/ \E c \in Cycle : n \in ToSet(heard[c]) \/ GaveUp(c)

\* Close returns even when a callback never does (joinSupervisor's deadline).
CloseCompletes == phase = "closing" ~> phase = "closed"
=============================================================================
