# A TLA+ model of go-secs

`go-secs` implements the SECS/GEM communication stack in Go: SECS-II items and
messages, the HSMS-SS (SEMI E37) and SECS-I (SEMI E4) transports under one
connection engine, a GEM message library, the SML text format and a store for
message traces. This directory holds TLA+ modules of the system, the TLC
configurations that check them and the proofs that TLAPS checks. `PROJECT.json`
maps every definition to the source lines it models and lists the components,
the runs, the mutants that show that each property depends on the code, the
findings, the hazards and the theorems.

## The system

| Part | State | Operations | Talks to |
|---|---|---|---|
| `hsms/supervisor.go`: the FSM of one open connection | the state word, `lastReacted`, the event queue, the closed latch | `step` for each event, `commitFrom`, `injectFrom`, `requestClose`, `stop` | transports (events), the lifecycle (reactions), the notifier |
| `hsms/epoch.go`: one generation of a link | context, socket, `startReturned`, TCP-up markers, goroutine group | `adoptConn`, `markEnded`, `teardown`, `join` | everything that names a generation |
| `hsms/connection_lifecycle.go` | current epoch, generation counter, reconnect fence, pending closes | `Open`, `Close`, rollback, `react`, `connectLoop` and its barrier, the TCP-up and select gates | supervisor, transport `Start`/`Stop` |
| `hsms/connection_send.go`, `reply_registry.go` | reply registry, write lock, async queue | `sendWaitReply`, `writeFrame`, `route`, `failS9`, `SendAsync`, `drainSendCh` | receive path, teardown |
| state notifications | drop-oldest ring, subscription list | `emit`, the notifier of each open cycle, subscribe, cancel | the application's callbacks |
| `hsmsss`: the HSMS-SS transport | socket record, T7 and linktest timers, open control transactions | select, deselect, separate, linktest, reject, receive loop, disconnect reports | core runtime callbacks |
| `secs1`: the SECS-I transport | line engine, hand-off channels, assembler | `Start`, `Stop`, `Write`, `sendBlock`, `receiveBlock`, `accept` | core runtime callbacks |
| `secs2`, `gem` | none (values) | build, encode, decode, look up, accept, abort | applications |
| `tracepack/segment_writer.go`, `writer.go`, `dir_sink.go`: recording | the open segment, its block, the seq counter, the clock anchor; files and directories | `NewSegmentWriter`, append, `Tick`, `Rotate`, `Close`; `Create`, `Commit`, `Abort` | the file system |
| the rest of `tracepack`, `sml`, `tools/gemgen` | files, text | merge, find, verify; parse, print; generate | applications, builds |

What makes it hard:

- several goroutines of several generations of a link act on one connection,
  and a goroutine of an old generation may act late;
- the state word is moved by synchronous compare-and-swap commits as well as by
  the supervisor's own queue, so an event is judged by a state that may be stale;
- `Open` and `Close` overlap, `Start` may fail after its link came up, a bounded
  join may abandon goroutines;
- replies race timeouts, cancellations and teardowns;
- five goroutines may decide that an HSMS-SS link is over, and the one close of
  its socket must be reported once, last, and with the cause that ended it;
- the SECS-I line loses and garbles characters, both ends may claim it, blocks
  are repeated, and one goroutine both reads the line and serves the senders;
- a segment of a trace must be durable before its writer goes on, through calls
  that fail and a machine that crashes between any two of them;
- the GEM library has several hundred builders and decoders that must agree with
  each other, with the item codec and with the catalog.

## Modules

| Module | Models | Checked by |
|---|---|---|
| `Connection` | `supervisor.go`, `epoch.go`, `connection_lifecycle.go` and the runtime methods a transport calls | `MCConnection`, three configurations |
| `ConnectionInv` | the inductive invariant of `Connection` | the proofs |
| `ConnectionStepProofs`, `ConnectionProofs` | lemmas and theorems about `Connection` | TLAPS |
| `Transaction` | `connection_send.go`, `reply_registry.go` and the receive path's routing | `MCTransaction` |
| `TransactionSpec` | what one send promises; `Transaction` implements it | the property `PromiseKept` |
| `TransactionProofs` | lemmas and theorems about `Transaction`, the refinement included | TLAPS |
| `Notify` | `supervisor.emit`, the notifier goroutine, the subscription list, the bounded join | `MCNotify` |
| `SocketRecord` | `hsmsss/transport_socket.go`: the close gate and the report scopes | through `HsmsSession` |
| `HsmsSession` | one generation of `hsmsss` on its socket, composed with `SocketRecord` and a peer | `MCHsmsSession` |
| `HsmsSessionProofs`, `HsmsSelectProofs`, `HsmsDataProofs` | lemmas and theorems about `HsmsSession` | TLAPS |
| `Secs1Message` | `secs1/message.go`, `block.go`: splitting and assembling | through `Secs1Assembler` |
| `Secs1Assembler` | `secs1/assembler.go` and the peers that feed it | `MCSecs1Assembler` |
| `Secs1Line` | `secs1/line.go` at both ends of a line | `MCSecs1Line` |
| `Secs1Engine` | `secs1/transport.go`, `SendAsync` and its drain | `MCSecs1Engine`, two configurations |
| `Secs1EngineProofs` | lemmas and theorems about `Secs1Engine` | TLAPS |
| `Secs2` | `secs2`: items, their errors, encoder, decoder, cursor reads | through `GemExchange` |
| `Gem`, `GemItems`, `GemGroups`, `GemBuilders1to5`, `GemBuilders6to13`, `GemBuilders14to19`, `GemDecoders1to5`, `GemDecoders6to13`, `GemDecoders14to19`, `GemCatalog` | `gem`: the vocabulary of builders and decoders, coded items, groups, every builder, every decoder, the catalog | through `GemExchange` |
| `GemSamples` | the arguments each builder is called with | through `GemExchange` |
| `GemExchange` | a message from its builder to its decoder, and the reply | `MCGem` |
| `DirSink` | `tracepack/dir_sink.go` on a file system with crashes | through `SegmentWriter` |
| `SegmentWriter` | `tracepack/segment_writer.go` and the appending half of `writer.go`, composed with `DirSink` and converters that share it | `MCSegmentWriter` |
| `SegmentRecords` | the records a reader finds in a capture's segments, and what holds of them | `MCSegmentWriter` |
| `SegmentWriterProofs` | lemmas and theorems about `SegmentWriter` and `DirSink` | TLAPS |

### Connection

The variables are the supervisor's (`state`, `lastReacted`, `closed`, `events`,
`sup` for the step in progress, `runDone`), the connection's (`cur`, `genSeq`,
`shutdown`, `reconnectGen`, `cancelled`, `closeEpoch`), those of the epochs as
sets of generations (`ended`, `torn`, `done`, `conn`, `startReturned`,
`upAdmitted`, `upCommitted`), one reconnect loop per dropped generation (`loop`),
the application's call that holds `lifeMu` (`app`, `abort`, `pendingCloses`) and
the transport's goroutines (`start`, `up`, `t7`, `pend`). One action is one
section of code between two points at which another goroutine can act: the
state load of a step, its generation match and its store are three actions;
the fence check of `connectLoop` and its second check under `publishMu` are two.
The transport is external to the core and appears as the callbacks it may make:
`Named` says whether it names its generation (HSMS-SS does, SECS-I does not),
`Active` whether it dials; `OpenModes` has the modes `Open` may be called in,
returning at once or waiting for a selection.
Simplified: `Open` publishes its epoch and its supervisor in one step. Left out: the farewell `Separate` and the communications-failure timer, which
change no lifecycle state.

### Transaction, TransactionSpec

A sender is one transaction with its own System Bytes. It registers, passes the
write lock, resolves the socket, writes, and waits on five arms (reply, timer,
caller, generation, aborted by S9). The peer answers with a conforming reply, a
mismatched one, a reject, a control response or an S9 error, in any number and
order. `TransactionSpec` keeps of each send its status and the answers the peer
gave it; the refinement says that a send completes once, and with an answer only
if the peer gave that answer to this very request and it may complete it.

### Notify

A transition is its number. `emit` drops the oldest entry of a full ring in a
step of its own and then sends; each open cycle has a notifier that reads the
ring, snapshots the subscription list and calls back; a callback returns, panics,
ends the goroutine or hangs. Subscribing and cancelling are a load, a copy and a
compare-and-swap of the list. `Close` closes the ring and joins for a bounded
time, so the notifier of one cycle may still run in the next.

### SocketRecord, HsmsSession

`SocketRecord` is a component without a next-state relation of its own: closers
race for the close gate of a socket while reporters hold report scopes open, and
whoever finishes last delivers the close to the observer. `HsmsSession` composes
it with the goroutines of one generation, active or passive: the receive loop
(read, stamp, report, dispatch, the straggler guard), the Select procedure, the
auto-linktest, the T7 dwell, the teardown, and a peer that selects, deselects,
separates, probes, answers, rejects, sends data or falls silent. Of the core it
keeps the FSM state and the queue of down reports; the supersession of the events
of its commits is in `Connection`. Time is the order of things: a timer may
expire whenever it is armed, and "a frame was read since the probe was sent" is
what the code's comparison of two stamps decides. Whether the linktest suppresses
probes on a live link is read from the configuration when it starts, and both modes
are explored: with suppression every frame read is a sign of life and open data holds
the drop back, without it only the answer to a probe counts.

Simplified: the peer is not followed once the close is decided (nothing it does
then changes the session); an old linktest goroutine that outlives its
cancellation is merged with its successor; a suppressed tick is a stutter. Left
out: the farewell `Separate`, the writers' report scopes (the receive loop's is the
one that holds a close report back), the length prefix and
T8 (a read succeeds or fails).

### Secs1Message, Secs1Assembler

A body is its length and a block the chunk it carries, so that what `splitBody`
and `assembleFrame` do to offsets, numbers and E-bits is computed, and the bytes
are not. The assembler's peer repeats blocks, gives messages up and numbers a
lone block zero; a wild one sends any block at all.

### Secs1Line

Two stations run `sendBlock`, `receiveBlock` and the engine's poll over two
character streams. A timer expires when the answer cannot come any more, or, a
bounded number of times on a line without noise, while the answer is still to
come (a handler slower than T2). A handshake character that arrives garbled is
one that was lost; a garbled block keeps its place and fails its checksum. That an acknowledged block was received holds as
long as that has not happened (`Prompt`): it is a statement about handlers that are
faster than T2.

### Secs1Engine

Start, accept, Stop and ArmStart of several generations, the line engine's
select, the writers' hand-off and the asynchronous queue with its drain. What
happens on the line is one step here (it is `Secs1Line`), and so is what the sink
does with a block (`Secs1Assembler`). An engine whose socket is closed sends no
notice of a bad block any more, so none goes to the epoch of its successor.

### Secs2, Gem and GemExchange

An item is a tree of formats and values. `Secs2` gives its encoding as bytes, with
the length bytes of each header, and the decoder with its depth, length and
multiple-of-width limits. A builder of `gem` is an expression over named
arguments, a decoder a tree of reads. They are kept in records, one per stretch of
the source: `BuildersS1F1to12.S1F3` is the builder `S1F3`, `DecodersS1F2to4.DecodeS1F3`
its decoder, `ErrorInfo.Item` and `ErrorInfo.decode` the two directions of a group.
`Build` and `Read` in `Gem` evaluate them as the Go code does, with the presence
checks, arity checks, code validation and error items of the helpers. The catalog is
a table of rows as in the source, which name their decoder and builders. `GemExchange` sends one message: it is built and
validated by `NewDataMessage`, encoded, decoded, looked up by stream, function
and sender, read without and with `AllowTrailing`, and answered with
`AcceptReply` or `Abort`. A peer may also send a body that departs in one place
from its shape, in a direction E5 may not allow, or bytes that are cut, padded
or announce more than they carry.

### DirSink, SegmentWriter, SegmentRecords

`DirSink` is a component without a next-state relation of its own. Its file system
is external: an entry of a directory is visible once made and sure to survive a
crash once the directory was synced, and a file keeps what was synced of it. A crash
keeps any set of entries and directories between the sure and the possible ones. Of
a key's directories the model has three: the capture's, one above it, and the root.
`Commit` is one action for each call it makes (sync, mkdir, rename or link, refuse,
remove, three directory syncs); each may fail, and so may the check of the context
before it. `Close` waits for commits in progress, as its lock does.

`SegmentWriter` appends records, cuts segments by period, hour and length, numbers
records up to the last seq, inserts clock steps, and stops for good at the first
failure. A record is its period, whether it has a monotonic reading, its skew (the
distance of its two clocks, in tolerances) and whether it is itself a clock step.
When a block is full is left open, so blocks end wherever the sizes could make them
end. A recorder's `pack_id` is fresh for each segment; the runs of a converter write
one segment with one name, so they meet at its key and at its temporary file; a
converter may leave the sync of its file to `Commit`. One
consequence shows in the model: a temporary file left by a crash makes every later
`Create` with that `pack_id` fail until it is removed. `SegmentRecords` adds what a
reader of the capture's keys finds, segment after segment.

## Runs

| Run | Question | Bounds |
|---|---|---|
| `conn_live` | A dialling transport that names its generations, in both modes of Open, with drops, reconnects, failing Starts, cold retries and a Close at any point: one live generation, whose state it is, one Start in flight, nothing and no socket left behind, a link is dropped only by its own events and by T7 only if not selected; every Close returns and a lost link is followed up by a retrying loop, the next generation or a shutdown | two generations, one Open, one Close, queue of one, one parked report; fair |
| `conn_superseded` | *violated*: an abandoned select-lost was really superseded | one generation, queue of two |
| `conn_closed` | *violated*: a closed connection reports NotConnected | one generation |
| `transaction` | A data and a control transaction over a teardown and a reconnect, strict or not, named or not: frames stay on their socket, a ready reply wins, nothing is left behind, no genuine reply is lost, `TransactionSpec` is implemented, every send returns | two generations, three frames; fair |
| `notify` | Only superseded transitions are lost, the rest are heard in order, cancel keeps its contract, the latest is heard, Close returns | ring of two, three transitions, two cycles, two subscriptions; fair |
| `session` | No data of a selected peer is refused, a simultaneous Select is not dropped, nor a link that showed the linktest a sign of life, with suppression or without; an unselected link ends, the one close is reported last and with the right cause | two failed linktests drop the link, three pieces of traffic, one unread frame each way; fair |
| `assembler` | Every message without a T4 gap reaches the core once, in order and whole; the partial message is a prefix of one message whatever arrives | five messages of one to three blocks, one of them too large, blocks of two bytes, six frames, two wild ones |
| `line` | An acknowledged block was received, blocks stay in order, all are sent | one block one way and two the other, two retries, one garbled or lost character or one slow handler; fair |
| `engine` | Blocks reach only the engine of their own socket, Stop leaves nothing behind, only a peer's drop is reported, an ended generation rests with no one parked in it | two generations of either role, one sender, queue of one, two frames, one bad block |
| `engine_stuck` | *violated*: an asynchronous send never blocks for good | one generation; fair |
| `gem` | What was built is what is decoded, what is decoded is what arrived, `AllowTrailing` only relaxes, an accepting reply answers its primary | every builder, with plain arguments and with each boundary value of each field; one departure per message |
| `trace` | What is stored of a capture is its beginning in whole segments, a committed segment stays, a failure tells whether its segment was published, clock steps are stored before what they explain, nothing is refused late | a recorder alone with varying clocks, a recorder beside a converter, two runs of a converter; three seqs, three periods in two hours, skews up to two tolerances, one failing call, one crash |

Two generations are enough for the hazards of the lifecycle, the senders and the
engine: each is a race of one generation with its successor, and three would
repeat the pair. A queue of one makes every reporter block. Two retries
outlast one error of the line, so that every block must get through. Three transitions overflow a ring of two. Two probes separate the first
failure, which must not drop the link, from the one that must.

In `gem` the list depth at which the decoder gives up is 8, not the code's 64:
it is above the depth of every message, and the deepest edit exceeds it. TLC's
integers have 32 bits, so wide integer values are sampled below 2^31 and floats
are bit patterns. Bodies are small; that a length needs two or three length bytes
is covered by an edit that announces more than is there.

`conn_live` opens the connection once. Several Open/Close cycles and a transport
that names no generation are covered by the theorems, which hold for any number of
calls and either kind of transport.

In `trace` three seqs are enough for a segment before, at and after a clock step,
and the last of them is the end of the seq space. Three periods in two hours make a
record leave its segment by its period and by its hour, in both directions. One
failure stops a writer, so a second could only hit what it leaves behind: a failed
removal in `Abort` therefore costs nothing. Only the recorder alone meets drifting
clocks; its sharing of the sink does not depend on them.

Deadlock checking is off where a bound on opens, frames, seqs or traffic ends every
behaviour. `gem` has no such bound: its exchange starts over.

Fairness: every goroutine of the core keeps running (weak fairness of its
steps); a dial, a listen and a write are bounded by their timeouts and return;
Go serves the blocked senders of a channel in order, so a parked injection gets
its slot in the end (strong fairness), and a `select` does not starve a ready
case. In `HsmsSession` the receive loop steps, its read fails once the socket is
closed, an armed T7 dwell expires, the supervisor applies reports and a closer
finishes its close. In `Notify` the emitter, `Close` and each notifier step, but a
callback may hang for ever. Peers and applications owe nothing.

## Findings

Three runs end with a counterexample to what a comment or doc says; the quotes
and lines are in `PROJECT.json`.

1. `conn_superseded`: after an accepted Deselect, a queued select event of the
   earlier selection restores Selected and the deselect's own event is then
   abandoned as superseded.
2. `conn_closed`: a TCP-up commit behind the state load of the close step leaves
   a closed connection in NotSelected.
3. `engine_stuck`: with a full queue, the line engine's own notice waits for the
   drain, which waits for the line engine, until the generation is torn down.

## Proofs

Every theorem is of the form `Spec => ...` and holds for every value of the
constants that the named assumptions allow: `BoundsAssumption` and `ModeAssumption`
for `Connection`, `TransactionAssumption` for `Transaction`, `SessionAssumption`,
`SocketAssumption` and `NoOneAssumption` for `HsmsSession`, `EngineAssumption` for
`Secs1Engine` and `SinkAssumption` for `SegmentWriter`. They say that bounds and thresholds are natural
numbers, most of them positive, that modes are Boolean, which goroutines close and
report, and that captures, converter runs and directories have different names; TLC
evaluates them on every run.

| Module | Theorem | Property |
|---|---|---|
| `ConnectionProofs` | `TypeCorrect`, `OneLive`, `StateIsCurrent`, `OneStart`, `OneOwner`, `SpawnedOnce`, `NothingLeft`, `RollbackPinned` | `TypeOK`, `OneLiveGeneration`, `StateBelongsToCurrent`, `OneStartInFlight`, `OneGaugeOwner`, `LoopSpawnedOnce`, `CloseLeavesNothing`, `RollbackPinsOwnGeneration` |
| | `NoSocketKept` | `SocketsReleased`, for a transport that names its generations |
| | `DropDue` | `DropIsDue`, an action property |
| `TransactionProofs` | `ReadyKept`, `OwnSocket`, `NothingLeft` | `ReadyReplyKept`, `WriteOnOwnSocket`, `NothingLeftBehind` |
| | `ReplyNotLost` | `GenuineReplyNotLost`, an action property |
| | `Implements` | `PromiseKept`: `Transaction` implements `TransactionSpec` |
| `HsmsSessionProofs` | `ReportedLast`, `CauseIsWinner` | `CloseReportedLast`, `CauseAgrees` |
| | `SilenceDrops` | `SilentBeforeDrop`, an action property |
| `HsmsSelectProofs` | `CrossedSelectKept` | `OnlyDeclinedDrops`, an action property |
| `HsmsDataProofs` | `DataNotRejected` | `SelectedBeforeData` |
| `Secs1EngineProofs` | `HandedOwn`, `StopClean` | `HandedToOwnEngine`, `StopIsClean` |
| | `OneWriter` | at most one writer of a generation is inside `Write` |
| `SegmentWriterProofs` | `CommittedStays`, `FailureTells`, `NoneRefusedLate` | `CommittedKept`, `FailureTold`, `NothingRefusedLate` |

None of these is inductive. Each component has an inductive invariant that says what
each goroutine knows at each of its program points, and a theorem that it holds
(`Invariance`, `SessionInvariance`, `WireInvariance`, `DataInvariance`,
`EngineInvariance`, `SegmentInvariance`).

### Connection

- `SupInv`, `AppInv`: which epoch the step in progress and the call that holds
  `lifeMu` work on, and what has happened to it;
- `GenOrder`, `EpochInv`: generations are published in the order they are
  minted, and go through admitted, ended, torn, joined in that order;
- `StarterInv`: a published generation whose start barrier is closed has a
  caller of `Start` that will open it;
- `BarrierInv`, `RetryInv`, `StartInv`, `OneDriver`: a loop at its barrier waits
  for the current generation, a loop between two attempts finds it over, a loop
  in an attempt owns it, and at most one loop is past its barrier;
- `StateInv`: outside NotConnected the current generation was committed up and
  no loop exists for it, so the drop reaction may start one; a step that saw such
  a state and matched the generation of its event still matches it when it stores.

The core of the argument is `BarrierInv` with `OneDriver`: a second loop can only
be spawned for the current generation after it came up; at that time the first
loop still holds its start barrier or is gone, and the second does not pass
before the barrier is opened.

`ConnectionStepProofs` begins with the facts about generations, loops and the queue,
and for each part of the invariant a lemma that it holds as long as the variables it
reads keep their values. Then there is one lemma per action, with a step for the parts
the action leaves alone and one for each part it can disturb: the supervisor's steps,
the reconnect loop, the application's calls and the transport's Start and TCP-up; the
other reports are in `ConnectionProofs`, which combines them. `DropIsDue` follows from `StateInv`,
because `SupApply` is the only step that can drop a link of an open connection.

### Transaction

- `SenderInv`: a sender has a generation from its first step on, captures no other
  generation's socket, and is in a registry or behind a write lock only of that
  generation and only at points from which it still leaves it;
- `ReadyInv`: a sender that saw a result has it in its channel or has returned it;
- `AnswerInv`: a receive goroutine past the lookup holds a frame of the peer that may
  complete its transaction, and so is every result in a channel.

`Implements` maps a send to its status and the answers given to it. It takes the
initial state to the initial state and each step to a step of `TransactionSpec` or a
stutter: a send that completes with an answer took it from its channel, where
`AnswerInv` says it is an answer to this very request.

### HsmsSession

- `SockInv`: one closer holds the gate and closes the conn before it arms the report;
  the close is reported by whoever comes last of the closer and the open scope;
- `CauseInv`: a report is owed or queued only by the winner of the gate, or by a
  goroutine that lost it to the teardown of a generation that is over;
- `StageInv`: the frame that each stage of the receive loop has in hand;
- `LinktestInv`: every failure in the run that is counted is a probe since the last
  sign of life (a frame read with suppression, an answered probe without), and so is
  the one that waits; besides our Select only the waiting probe is an open
  transaction;
- `WireTypes`, `SelectInv`: what is on the wire, and that a peer that finds our Select
  already done is one that we selected before;
- `AnswerInv`: until our Select is given up it is with the peer, or its answer is on
  the wire or in hand with the transaction still open;
- `RequestInv`: the request that the peer awaits an answer of is on the wire, or in
  hand, or its answer is on the wire;
- `DataInv`: every data frame on the wire will find us selected: we are, or a frame
  read before it makes us so, and nothing between deselects us.

`DataInv` is the heart of `DataNotRejected` and needs all the others: what is about
to be read decides the state, so the invariant speaks of positions in the queue.
`HsmsSelectProofs` first shows that each step of the session is one of eighteen
effects on the exchange (`ExchangeSteps`: a frame is read, routed, answered, the peer
hears, speaks, replies, ...), and the later lemmas have a case per effect, not per
action.

### Secs1Engine

- `OrderInv`: the generations before the current one are stopped and those after it
  not begun; from Stop's seal on nothing of the generation is published any more, and
  past the join of the accept goroutine none is left that could publish;
- `SocketInv`: every open socket and listener is published or in the hands of a Start
  or accept that will publish or close it, and a socket is closed under its engine
  only after the engine was cancelled;
- `DownInv`: an engine reports down only a line the peer dropped;
- `WriterInv`: a writer holds `writeMu` of its epoch alone from the lock to its return,
  and hands its block to the engine of that epoch.

`StopIsClean` needs the first two together: a Start that overlaps Stop finds either
the seal, and closes what it dialled, or has published it in time for Stop to take.

### SegmentWriter

- `Placed`, `Counted` (of each writer): the record on its way passed `preflight` with
  the seq and the clock anchor of the segment it will be added to, wherever the writer
  is in closing one segment and opening the next; every segment holds a record, so the
  seqs bound the segments;
- `KeyInv`: what is at a key, or may be there after a crash, is one whole file, all of
  it on the disk, and with `NoReplace` a crash brings back nothing that was not visible there;
- `CommitInv`: for each call of `Commit` that has returned, which entry or directory
  it made or made durable;
- `ToldInv`: before a crash, the result of `Commit` tells whether the segment is at its
  key;
- `OpenOf`, `LastOf` (of each writer): its open segment and all later ones are untouched
  by `Commit`, and how the `Commit` of its last segment ended.

A crash keeps `CommitInv` because a crash keeps every sure entry or a replacement of it
by the same name, in directories that were all synced before `Commit` returned nil.

### Only model-checked

The liveness properties (`CloseReturns`, `ReconnectReached`, `SendReturns`,
`LatestHeard`, `CloseCompletes`, `CloseReported`, `UnselectedEnds`, `AllSent`): fairness
is out of the prover's reach, as is the `ENABLED` of `RestsReleased`. `StoredIsPrefix`
and `StepsStored` of `SegmentRecords`, which fold over sequences of segments. The
properties of `Notify`, `Secs1Assembler` and `Secs1Line`, for which no proof has been
written. The properties of `GemExchange`: what a recursive definition (the item codec,
the builders, the decoders) computes for every input needs an induction that the
provers cannot instantiate.

## Not modelled

- Of `tracepack`: the byte format, readers, recovery, merge, search, verification,
  conversion and corpus, which are sequential and change no state that recording
  uses; of its recording: the encoding of blocks, footers and metadata, the
  classifier, the checks of a record's own fields, key names, symbolic links.
- `sml`: a sequential parser and printer of text; `tools/gemgen`: a build-time
  generator whose output, `gem`, is modelled.
- HSMS-SS accept, the refusal of a second connection, and the bounded join of its
  Stop; `Secs1Engine` has the same protocol for SECS-I and `Connection` the join.
- The communications-failure timer and the farewell `Separate`: they change no
  lifecycle state.
- Byte layouts of fixed headers, configuration, sessions, metrics and logging:
  sequential code that unit tests reach.
- Of `secs2` and `gem`: text forms, equality, the conversions of loosely typed
  constructor arguments, slab allocation, the texts of E5 times and the bits of
  `ALCD`.
