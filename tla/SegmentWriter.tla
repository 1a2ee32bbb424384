--------------------------- MODULE SegmentWriter ---------------------------
(***************************************************************************)
(* tracepack/segment_writer.go and writer.go: a recorder appends records to *)
(* a capture, the SegmentWriter cuts them into segments and commits each to *)
(* a DirSink.  It numbers the records, starts a segment for each period of  *)
(* an hour, inserts a clock-step record wherever the wall clock has left    *)
(* the monotonic clock, and stops for good at the first failure.  Runs of a *)
(* converter write one segment to the same sink, with the name and, if they *)
(* read the same log, the bytes of each other.                              *)
(*                                                                          *)
(* A record is its period, and its skew: how far its wall clock is from its *)
(* monotonic clock, in steps as large as the tolerance.  The capture is of  *)
(* the capture clock, so steps are detected; a record its own fields refuse *)
(* and a call whose context is done at the start change nothing.            *)
(***************************************************************************)
EXTENDS DirSink, Integers

CONSTANTS
    Periods,       \* the periods records fall in, two to the hour
    Skews,         \* the skews of their clocks
    MaxBytes,      \* the length, in records written, a segment is closed at
    Casts,         \* the sets of writers that run together
    Drifting       \* bound: the casts whose clocks vary and drift

VARIABLES w,       \* the SegmentWriter of each capture
          cast     \* the writers of this behaviour

vars == <<sinkVars, w, cast>>

hourOf(t) == t \div 2
StartRecord == [at |-> 0, mono |-> TRUE, skew |-> 0, step |-> FALSE]
Record ==
    IF cast \notin Drifting THEN {StartRecord}
    ELSE {r \in [at : Periods, mono : BOOLEAN, skew : Skews, step : BOOLEAN] :
             ~r.mono => r.skew = 0}
\* A boundary is no clock-step record.
Boundary == {r \in Record : ~r.step}
Stored(r, seq) == [seq |-> seq, mono |-> r.mono, skew |-> r.skew, step |-> r.step]

\* seg is the number of the open segment, 0 without one; block, next and drift
\* are its Writer's block, nextSeq and anchor; goal is the call in progress.
NewWriter == [pc |-> "new", goal |-> "none", todo |-> StartRecord, nextSeq |-> 0,
              anchor |-> 0, seg |-> 0, last |-> 0, at |-> 0, block |-> <<>>,
              next |-> 0, drift |-> 0, failure |-> "none"]

Init ==
    /\ SinkInit
    /\ w = [c \in Capture |-> NewWriter]
    /\ cast \in Casts

Seg(c) == <<c, w[c].seg>>
In(c, pc) == c \in cast /\ w[c].pc = pc
Set(c, r) == w' = [w EXCEPT ![c] = r] /\ UNCHANGED cast
Failing(me, cause) == [me EXCEPT !.pc = "fail", !.failure = cause]

(***************************************************************************)
(* The calls                                                                *)
(***************************************************************************)
clockDrift(r, anchor) ==
    r.mono /\ ~r.step /\ (r.skew - anchor > 1 \/ anchor - r.skew > 1)
anchorInForce(me) == IF me.seg # 0 THEN me.drift ELSE me.anchor

\* The seqs left must do for the record and a clock-step record before it.
\* Faulty variant: for the record alone.
preflightOne(me, r) == me.nextSeq <= MaxSeq
preflight(me, r) ==
    me.nextSeq + (IF clockDrift(r, anchorInForce(me)) THEN 2 ELSE 1) <= MaxSeq + 1

\* Whether the record at t goes into another segment than the open one.
leaves(c, t, caller) ==
    \/ hourOf(t) # hourOf(w[c].at) \/ t > w[c].at
    \/ caller /\ Len(data[Seg(c)].recs) >= MaxBytes

place(c, r, caller) ==
    IF w[c].seg = 0 THEN "open" ELSE IF leaves(c, r.at, caller) THEN "close" ELSE "add"

NewSegmentWriter(c) ==
    /\ In(c, "new")
    /\ Set(c, [w[c] EXCEPT !.pc = "open", !.goal = "append"])
    /\ UNCHANGED sinkVars

AppendRecord(c) ==
    /\ In(c, "idle")
    /\ \E r \in Record :
        /\ preflight(w[c], r)
        /\ Set(c, [w[c] EXCEPT !.pc = place(c, r, TRUE), !.goal = "append", !.todo = r])
    /\ UNCHANGED sinkVars

\* Tick after the period's end, and Rotate.
roll(c) ==
    /\ In(c, "idle") /\ w[c].seg # 0
    /\ Set(c, [w[c] EXCEPT !.pc = "close", !.goal = "roll"])
    /\ UNCHANGED sinkVars

\* Close appends the stop boundary, or closes the capture without it when too
\* few seqs are left.  It fails when the clock is out of range.
closeCapture(c) ==
    /\ In(c, "idle")
    /\ \/ /\ \E r \in Boundary :
              LET pc == IF w[c].seg = 0 THEN "failed" ELSE "close"
                  none == IF w[c].seg = 0 THEN "seqs" ELSE "none"
              IN  IF preflight(w[c], r)
                  THEN Set(c, [w[c] EXCEPT !.pc = place(c, r, FALSE), !.goal = "stop", !.todo = r])
                  ELSE Set(c, [w[c] EXCEPT !.pc = pc, !.goal = "last", !.failure = none])
          /\ UNCHANGED sinkVars
       \/ /\ Fault /\ Set(c, Failing(w[c], "failed"))
          /\ UNCHANGED <<noReplace, closed, state, call, crashes, fsVars>>

(***************************************************************************)
(* The segment: open, add a record, finalize, fail                          *)
(***************************************************************************)
open(c) ==
    LET n == w[c].last + 1
        opened == [w[c] EXCEPT !.pc = "add", !.seg = n, !.last = n, !.at = w[c].todo.at,
                               !.block = <<>>, !.next = w[c].nextSeq, !.drift = w[c].anchor]
    IN  /\ In(c, "open")
        /\ \/ /\ Create(<<c, n>>) /\ UNCHANGED <<data, synced>>
              /\ \/ Set(c, opened) /\ UNCHANGED faults
                 \/ Set(c, Failing(opened, "failed")) /\ Fault
           \/ /\ \/ closed /\ UNCHANGED faults
                 \/ Fault
              /\ Set(c, Failing(w[c], "failed"))
              /\ UNCHANGED <<noReplace, closed, state, call, crashes, fsVars>>

\* Writer.addRecord.  A clock-step record ends the block it is in and is written
\* before anything follows it; another record ends the block when the block is
\* long enough, before or after it.
StepBefore(me, r) ==
    IF clockDrift(r, me.drift) THEN <<Stored([r EXCEPT !.step = TRUE], me.next)>> ELSE <<>>
\* Faulty variant: the anchor follows every record.
adoptAlways(me, r) == IF r.mono THEN r.skew ELSE me.drift
adoptClockStep(me, r) ==
    IF r.mono /\ (r.step \/ clockDrift(r, me.drift)) THEN r.skew ELSE me.drift
LastSeq(me, r) == me.next + Len(StepBefore(me, r))
Refuses(me, r) == hourOf(r.at) # hourOf(me.at) \/ LastSeq(me, r) > MaxSeq

Added(c, me, r) ==
    LET old == data[Seg(c)].recs
        all == old \o me.block \o StepBefore(me, r) \o <<Stored(r, LastSeq(me, r))>>
        k == Len(all)
    IN  \E n \in {Len(old), k - 1, k} :
          /\ StepBefore(me, r) # <<>> => n >= k - 1
          /\ r.step /\ r.mono => n = k
          /\ data' = [data EXCEPT ![Seg(c)].recs = SubSeq(all, 1, n)]
          /\ synced' = [synced EXCEPT ![Seg(c)] = data'[Seg(c)]]
          /\ Set(c, [me EXCEPT !.block = SubSeq(all, n + 1, k),
                               !.next = LastSeq(me, r) + 1,
                               !.drift = adoptClockStep(me, r), !.todo = StartRecord,
                               !.nextSeq = IF me.goal = "append" THEN LastSeq(me, r) + 1 ELSE @,
                               !.pc = IF me.goal = "append" THEN "idle" ELSE "close",
                               !.goal = IF me.goal = "append" THEN "none" ELSE "stopped"])

addRecord(c) ==
    /\ In(c, "add")
    /\ LET refused == Refuses(w[c], w[c].todo) IN
       \/ /\ IF refused THEN UNCHANGED faults ELSE Fault
          /\ Set(c, Failing(w[c], IF refused THEN "refused" ELSE "failed"))
          /\ UNCHANGED <<data, synced>>
       \/ ~refused /\ Added(c, w[c], w[c].todo) /\ UNCHANGED faults
    /\ UNCHANGED <<noReplace, closed, state, call, crashes, temp, key, made, disk, maybe>>

\* The Writer flushes its block and writes the footer and the trailer.
\* Faulty variant: the block is not flushed.
unflushed(me) == <<>>
flushBlock(me) == me.block
closePack(c) ==
    /\ In(c, "close")
    /\ \/ /\ data' = [data EXCEPT ![Seg(c)] = [recs |-> @.recs \o flushBlock(w[c]), final |-> TRUE]]
          /\ synced' = [synced EXCEPT ![Seg(c)] = data'[Seg(c)]]
          /\ Set(c, [w[c] EXCEPT !.pc = "commit", !.block = <<>>])
          /\ UNCHANGED faults
       \/ Fault /\ Set(c, Failing(w[c], "failed")) /\ UNCHANGED <<data, synced>>
    /\ UNCHANGED <<noReplace, closed, state, call, crashes, temp, key, made, disk, maybe>>

commitSegment(c) ==
    /\ In(c, "commit") /\ CommitCall(Seg(c))
    /\ Set(c, [w[c] EXCEPT !.pc = "committing"])

\* The rest of finalize, then of the call that wanted it.
Detached(me) == [me EXCEPT !.seg = 0, !.nextSeq = me.next, !.anchor = me.drift,
                           !.at = 0, !.next = 0, !.drift = 0]
Succeeded(o) == o = "ok"

finalize(c) ==
    LET me == Detached(w[c]) IN
    /\ In(c, "committing") /\ Succeeded(call[Seg(c)])
    /\ \/ /\ Set(c, CASE me.goal = "roll" -> [me EXCEPT !.pc = "idle", !.goal = "none"]
                      [] me.goal \in {"append", "stop"} -> [me EXCEPT !.pc = "open"]
                      [] me.goal = "stopped" -> [me EXCEPT !.pc = "closed"]
                      [] me.goal = "last" -> [me EXCEPT !.pc = "failed", !.failure = "seqs"])
          /\ UNCHANGED faults
       \/ me.goal \in {"append", "stop"} /\ Fault /\ Set(c, Failing(me, "failed"))
    /\ UNCHANGED <<noReplace, closed, state, call, crashes, fsVars>>

commitFailed(c) ==
    /\ In(c, "committing")
    /\ call[Seg(c)] \in Outcomes /\ ~Succeeded(call[Seg(c)])
    /\ Set(c, Failing(w[c], call[Seg(c)]))
    /\ UNCHANGED sinkVars

fail(c) ==
    /\ In(c, "fail")
    /\ IF w[c].seg = 0 THEN UNCHANGED sinkVars ELSE Abort(Seg(c))
    /\ Set(c, [NewWriter EXCEPT !.pc = "failed", !.last = w[c].last, !.failure = w[c].failure])

(***************************************************************************)
(* The converter: each run writes the segment, which it may leave to Commit *)
(* to sync, commits it, and aborts it after an error.                       *)
(***************************************************************************)
Convert(v) ==
    LET f == <<v, 0>> IN
    /\ v \in cast /\ state[f] = "none" /\ Create(f)
    /\ \E r \in {StartRecord, [StartRecord EXCEPT !.mono = FALSE]} :
        /\ data' = [data EXCEPT ![f] = [recs |-> <<Stored(r, 0)>>, final |-> TRUE]]
        /\ synced' \in {synced, [synced EXCEPT ![f] = data'[f]]}
    /\ UNCHANGED <<faults, w, cast>>
ConverterCommits(v) == v \in cast /\ CommitCall(<<v, 0>>) /\ UNCHANGED <<w, cast>>
ConverterAborts(v) ==
    /\ v \in cast /\ call[<<v, 0>>] \in Outcomes \ {"ok"}
    /\ Abort(<<v, 0>>) /\ UNCHANGED <<w, cast>>

CommitStep == \E f \in File : Commit(f) /\ UNCHANGED <<w, cast>>
CloseSink == Close /\ UNCHANGED <<w, cast>>

\* The writers in progress die with the machine.
Crash ==
    /\ CrashFS
    /\ w' = [c \in Capture |-> IF w[c].pc \in {"new", "closed", "failed"} THEN w[c]
                               ELSE [NewWriter EXCEPT !.pc = "dead"]]
    /\ UNCHANGED cast

Next ==
    \/ \E c \in Capture :
        \/ NewSegmentWriter(c) \/ AppendRecord(c) \/ roll(c) \/ closeCapture(c)
        \/ open(c) \/ addRecord(c) \/ closePack(c) \/ commitSegment(c)
        \/ finalize(c) \/ commitFailed(c) \/ fail(c)
    \/ \E v \in Converter : Convert(v) \/ ConverterCommits(v) \/ ConverterAborts(v)
    \/ CommitStep \/ CloseSink \/ Crash

Spec == Init /\ [][Next]_vars

(***************************************************************************)
(* What the sink and the writer promise                                     *)
(***************************************************************************)
\* Commit and syncDirs: a segment whose Commit returned nil is at its key for good, with
\* all its records, unless a sink that replaces files was given another of that name.
CommittedKept ==
    \A f \in File : call[f] = "ok" =>
        \E g \in Same(f) \cap key : (noReplace => g = f) /\ data[g].final

\* ErrPublishUncertain: a recorder that failed can tell whether its last segment was
\* published: the failure wraps ErrPublishUncertain exactly when the segment is at its key.
FailureTold ==
    \A c \in Capture : w[c].pc = "failed" /\ crashes = 0 =>
        LET f == <<c, w[c].last>>
        IN  w[c].failure = "uncertain" <=> w[c].last # 0 /\ f \in key /\ call[f] # "ok"

\* The Writer refuses no record that preflight and place let through, so no capture
\* fails for want of a seq or for the hour of a record.
NothingRefusedLate == \A c \in Capture : w[c].failure # "refused"
=============================================================================
