------------------------ MODULE SegmentWriterProofs ------------------------
(***************************************************************************)
(* Proofs about SegmentWriter and the DirSink it commits to: a committed   *)
(* segment survives every crash, a failed recorder is told whether its     *)
(* last segment was published, and no record is refused after preflight.   *)
(***************************************************************************)
EXTENDS SegmentWriter, TLAPS

-----------------------------------------------------------------------------
(* The inductive invariant: the writer of a capture.                         *)

Fields == {"pc", "goal", "todo", "nextSeq", "anchor", "seg", "last", "at", "block", "next",
           "drift", "failure"}
Busy == {"close", "commit", "committing"}

Typed(me) == /\ DOMAIN me = Fields
             /\ me.nextSeq \in Nat /\ me.next \in Nat
             /\ me.seg \in Nat /\ me.last \in 0 .. MaxSeq + 1
Shape == DOMAIN w = Capture /\ \A c \in Capture : Typed(w[c])

\* The record on its way was let through by preflight, with the number and the
\* clock of the segment it will be added to, and place chose its hour.
Placed(me) ==
  /\ me.pc \in {"open", "add"} \/ (me.pc \in Busy /\ me.goal \in {"append", "stop"})
       => preflight(me, me.todo)
  /\ me.seg # 0 /\ me.pc \in {"idle", "add"} \cup Busy /\ me.goal # "stopped"
       => me.next = me.nextSeq
  /\ me.pc = "add" => hourOf(me.todo.at) = hourOf(me.at)
  /\ me.pc = "idle" => me.goal = "none"
  /\ me.pc \in {"open", "add"} => me.goal \in {"append", "stop"}
  /\ me.pc \in Busy => me.goal \in {"append", "stop", "stopped", "roll", "last"}
  /\ me.failure # "refused"

\* Segments are numbered in turn, and each holds at least one record, so that the
\* numbers of records bound those of segments.
Counted(me) ==
  /\ me.pc \in {"add"} \cup Busy => me.seg # 0
  /\ me.pc \in {"new", "open"} => me.seg = 0
  /\ me.pc = "new" => me = NewWriter
  /\ me.seg # 0 => me.seg = me.last
  /\ me.seg = 0 /\ me.pc \in {"new", "idle", "open"} => me.last <= me.nextSeq
  /\ me.pc = "add" => me.last <= me.next + 1
  /\ me.seg # 0 /\ me.pc \in {"idle"} \cup Busy => me.last <= me.next

WriterInv == \A c \in Capture : Placed(w[c]) /\ Counted(w[c])

-----------------------------------------------------------------------------
(* The inductive invariant: the sink.                                        *)

Published == {"remove", "keydir", "area", "root", "ok"}

SinkShape ==
  /\ DOMAIN state = File /\ DOMAIN call = File
  /\ data = [f \in File |-> data[f]] /\ synced = [f \in File |-> synced[f]]
  /\ disk = [key |-> disk.key, made |-> disk.made]
  /\ key \subseteq maybe /\ maybe \subseteq File /\ crashes \in Nat

\* What is at a key, or may be there after a crash, is whole and on the disk, and one
\* file only.
KeyInv ==
  /\ noReplace => maybe = key
  /\ \A f \in key : Same(f) \cap key = {f}
  /\ \A f \in maybe : data[f].final /\ synced[f] = data[f]

\* How far Commit has come with making its segment durable.
CommitInv ==
  \A f \in File :
    /\ call[f] \in Steps => data[f].final
    /\ call[f] \in Steps \ {"sync"} => synced[f] = data[f]
    /\ call[f] \in {"publish", "refuse"} \cup Published => {Area, DirOf(f)} \subseteq made
    /\ call[f] \in Published => Same(f) \cap key # {} /\ (noReplace => f \in key)
    /\ call[f] \in {"area", "root", "ok"} => Same(f) \cap disk.key # {}
    /\ call[f] \in {"root", "ok"} => DirOf(f) \in disk.made
    /\ call[f] = "ok" => Area \in disk.made

\* Without a crash the result of Commit tells what is at the key of a capture's segment.
ToldInv ==
  crashes = 0 => \A f \in File : f[1] \in Capture =>
    /\ f \in key <=> call[f] \in Published \cup {"uncertain"}
    /\ call[f] # "refuse"

\* A file is written to before its Commit only, and whole when it is committed.
OpenOf(c) ==
  /\ w[c].pc # "dead" => \A n \in 1 .. MaxSeq + 1 :
       n > w[c].last => call[<<c, n>>] = "none" /\ <<c, n>> \notin maybe
  /\ w[c].pc \in {"idle", "add", "close", "commit"} /\ w[c].seg # 0 =>
       call[Seg(c)] = "none" /\ Seg(c) \notin maybe
  /\ w[c].pc = "commit" => data[Seg(c)].final
ConverterInv ==
  \A v \in Converter :
    /\ state[<<v, 0>>] = "none" => call[<<v, 0>>] = "none" /\ <<v, 0>> \notin maybe
    /\ state[<<v, 0>>] = "open" => data[<<v, 0>>].final

\* What a writer knows of the Commit of its last segment.
LastOf(c) ==
  /\ w[c].seg = 0 /\ w[c].pc \in {"idle", "open"} =>
       w[c].last = 0 \/ call[<<c, w[c].last>>] = "ok"
  /\ w[c].pc \in {"fail", "failed"} =>
       /\ w[c].failure = "uncertain" <=>
            w[c].last # 0 /\ call[<<c, w[c].last>>] = "uncertain"
       /\ w[c].last # 0 => call[<<c, w[c].last>>] \notin Steps

SinkInv == SinkShape /\ KeyInv /\ CommitInv /\ ToldInv

FileInv == ConverterInv /\ \A c \in Capture : OpenOf(c) /\ LastOf(c)

SegmentInv == Shape /\ WriterInv /\ SinkInv /\ FileInv

-----------------------------------------------------------------------------
(* The sink.                                                                 *)

\* The files of one name share a directory, and a capture's segment has a name of
\* its own.
LEMMA FileFacts ==
  /\ \A c \in Capture, n \in 1 .. MaxSeq + 1 : <<c, n>> \in File
  /\ \A v \in Converter : <<v, 0>> \in File
  /\ \A f \in File :
       /\ f \in Same(f) /\ Same(f) \subseteq File /\ DirOf(f) # Area
       /\ f[1] \in Capture => Same(f) = {f}
       /\ \A g \in Same(f) : Same(g) = Same(f) /\ DirOf(g) = DirOf(f)
<1>1. \A c \in Capture, n \in 1 .. MaxSeq + 1 : <<c, n>> \in File BY DEF File
<1>2. \A v \in Converter : <<v, 0>> \in File BY DEF File
<1>3. ASSUME NEW f \in Capture \X (1 .. MaxSeq + 1)
      PROVE  /\ f[1] \in Capture /\ Same(f) = {f} /\ f \in File /\ DirOf(f) # Area
  BY SinkAssumption DEF Same, File, DirOf
<1>4. ASSUME NEW f \in Converter \X {0}
      PROVE  /\ f[1] \notin Capture /\ Same(f) = Converter \X {0} /\ f \in File
             /\ DirOf(f) = Imported /\ DirOf(f) # Area
  BY SinkAssumption DEF Same, File, DirOf
<1>. QED BY <1>1, <1>2, <1>3, <1>4 DEF File

\* A call of Commit that fails leaves the files alone.
LEMMA FailsSink ==
  ASSUME SinkInv, NEW f \in File, NEW pc \in Steps, NEW o \in {"failed", "uncertain"},
         (o = "uncertain" <=> pc \in {"keydir", "area", "root"}), pc # "remove",
         Fails(f, pc, o)
  PROVE  SinkInv'
<1>1. /\ call[f] = pc /\ call' = [call EXCEPT ![f] = o]
      /\ UNCHANGED <<state, temp, key, made, disk, maybe, data, synced, noReplace, crashes>>
  BY DEF Fails, At, Goto, Quiet, fsVars
<1>2. SinkShape' BY <1>1 DEF SinkInv, SinkShape
<1>3. KeyInv' BY <1>1 DEF SinkInv, KeyInv
<1>4. call'[f] = o /\ \A g \in File : g # f => call'[g] = call[g]
  BY <1>1 DEF SinkInv, SinkShape
<1>5. CommitInv' BY <1>1, <1>4 DEF SinkInv, CommitInv, Steps, Published
<1>6. ToldInv' BY <1>1, <1>4 DEF SinkInv, ToldInv, Published, Steps
<1>. QED BY <1>2, <1>3, <1>5, <1>6 DEF SinkInv

\* Commit syncs the file and makes its directories.
LEMMA PrepareSink ==
  ASSUME SinkInv, NEW f \in File, CommitSync(f) \/ CommitMkdir(f) PROVE SinkInv'
<1>1. CASE Fails(f, "sync", "failed") \/ Fails(f, "mkdir", "failed")
  BY <1>1, FailsSink DEF Steps
<1>2. CASE ~(Fails(f, "sync", "failed") \/ Fails(f, "mkdir", "failed"))
  <2>1. /\ UNCHANGED <<key, disk, maybe, data, noReplace, crashes, state>>
        /\ \/ /\ call[f] = "sync" /\ call' = [call EXCEPT ![f] = "mkdir"] /\ made' = made
              /\ synced' = [synced EXCEPT ![f] = data[f]]
           \/ /\ call[f] = "mkdir" /\ call' = [call EXCEPT ![f] = "publish"]
              /\ made' = made \cup {Area, DirOf(f)} /\ synced' = synced
    BY <1>2 DEF CommitSync, CommitMkdir, At, Goto, Quiet
  <2>a. /\ synced' = [g \in File |-> synced'[g]]
        /\ call[f] = "sync" => synced'[f] = data[f]
        /\ \A g \in File : synced'[g] = synced[g] \/ synced'[g] = data[g]
        /\ \A g \in File : g # f \/ call[f] = "mkdir" => synced'[g] = synced[g]
    BY <2>1 DEF SinkInv, SinkShape
  <2>2. SinkShape' /\ KeyInv' BY <2>1, <2>a DEF SinkInv, SinkShape, KeyInv
  <2>3. \A g \in File : g # f => call'[g] = call[g] BY <2>1 DEF SinkInv, SinkShape
  <2>4. \/ call[f] = "sync" /\ call'[f] = "mkdir"
        \/ call[f] = "mkdir" /\ call'[f] = "publish" /\ made' = made \cup {Area, DirOf(f)}
    BY <2>1 DEF SinkInv, SinkShape
  <2>5. CommitInv' BY <2>1, <2>a, <2>3, <2>4 DEF SinkInv, CommitInv, Steps, Published
  <2>6. ToldInv' BY <2>1, <2>3, <2>4 DEF SinkInv, ToldInv, Published
  <2>. QED BY <2>2, <2>5, <2>6 DEF SinkInv
<1>. QED BY <1>1, <1>2

\* The rename, and the link: the file is at its key, and no other of its name.
LEMMA PublishSink == ASSUME SinkInv, NEW f \in File, CommitPublish(f) PROVE SinkInv'
<1>1. CASE Fails(f, "publish", "failed") BY <1>1, FailsSink DEF Steps
<1>2. CASE ~Fails(f, "publish", "failed")
  <2>1. /\ call[f] = "publish" /\ UNCHANGED <<made, disk, data, synced, noReplace, crashes>>
        /\ IF noReplace THEN Link(f) ELSE Rename(f)
    BY <1>2 DEF CommitPublish, At, Quiet
  <2>2. CASE noReplace /\ Same(f) \cap key # {}
    <3>1. call' = [call EXCEPT ![f] = "refuse"] /\ UNCHANGED <<key, maybe, state>>
      BY <2>1, <2>2 DEF Link, Goto
    <3>2. SinkShape' /\ KeyInv' BY <2>1, <3>1 DEF SinkInv, SinkShape, KeyInv
    <3>3. call'[f] = "refuse" /\ \A g \in File : g # f => call'[g] = call[g]
      BY <3>1 DEF SinkInv, SinkShape
    <3>4. CommitInv' BY <2>1, <3>1, <3>3 DEF SinkInv, CommitInv, Steps, Published
    <3>5. crashes # 0 \/ f[1] \notin Capture
      BY <2>1, <2>2, FileFacts DEF SinkInv, ToldInv, Published
    <3>6. ToldInv' BY <2>1, <3>1, <3>3, <3>5 DEF SinkInv, ToldInv, Published
    <3>. QED BY <3>2, <3>4, <3>6 DEF SinkInv
  <2>3. CASE ~noReplace \/ Same(f) \cap key = {}
    <3>1. PICK x \in {"remove", "keydir"} :
            /\ call' = [call EXCEPT ![f] = x] /\ state' = [state EXCEPT ![f] = "published"]
            /\ key' = (key \ Same(f)) \cup {f} /\ maybe' = maybe \cup {f}
      BY <2>1, <2>3 DEF Link, Rename, Goto
    <3>2. SinkShape' BY <2>1, <3>1 DEF SinkInv, SinkShape
    <3>3. call'[f] = x /\ \A g \in File : g # f => call'[g] = call[g]
      BY <3>1 DEF SinkInv, SinkShape
    <3>4. data[f].final /\ synced[f] = data[f] /\ {Area, DirOf(f)} \subseteq made
      BY <2>1 DEF SinkInv, CommitInv, Steps
    <3>5. \A g \in File : g \in key' => g = f \/ (g \in key /\ g \notin Same(f))
      BY <3>1
    <3>6. \A g \in key' : Same(g) \cap key' = {g}
      BY <3>1, <3>5, FileFacts DEF SinkInv, SinkShape, KeyInv
    <3>7. KeyInv' BY <2>1, <2>3, <3>1, <3>4, <3>6 DEF SinkInv, KeyInv
    <3>8. \A g \in File : Same(g) \cap key # {} => Same(g) \cap key' # {}
      BY <3>1, FileFacts DEF SinkInv, SinkShape
    <3>9. CommitInv'
      <4>1. f \in Same(f) \cap key' BY <3>1, FileFacts
      <4>2. noReplace => key \subseteq key' BY <2>3, <3>1
      <4>. QED BY <2>1, <3>1, <3>3, <3>4, <3>8, <4>1, <4>2
              DEF SinkInv, CommitInv, Published, Steps
    <3>10. ToldInv'
      <4>1. \A g \in File : g[1] \in Capture /\ g # f => (g \in key' <=> g \in key)
        BY <3>1, FileFacts
      <4>. QED BY <2>1, <3>1, <3>3, <4>1 DEF SinkInv, ToldInv, Published
    <3>. QED BY <3>2, <3>7, <3>9, <3>10 DEF SinkInv
  <2>. QED BY <2>2, <2>3
<1>. QED BY <1>1, <1>2

\* The refusal of a key that exists, and the removal of the linked temporary file.
LEMMA RefuseSink ==
  ASSUME SinkInv, NEW f \in File, CommitRefuse(f) \/ CommitRemove(f) PROVE SinkInv'
<1>1. CASE Fails(f, "refuse", "failed") BY <1>1, FailsSink DEF Steps
<1>2. CASE ~Fails(f, "refuse", "failed")
  <2>1. /\ UNCHANGED <<key, made, disk, maybe, data, synced, noReplace, crashes>>
        /\ DOMAIN state' = File
        /\ \/ /\ call[f] = "refuse"
              /\ \E x \in {"exists", "conflict"} : call' = [call EXCEPT ![f] = x]
           \/ call[f] = "remove" /\ call' = [call EXCEPT ![f] = "keydir"]
    <3>1. CASE CommitRefuse(f)
      BY <1>2, <3>1 DEF CommitRefuse, At, Goto, Quiet, SinkInv, SinkShape
    <3>2. CASE CommitRemove(f) BY <3>2 DEF CommitRemove, At, Goto, Quiet, SinkInv, SinkShape
    <3>. QED BY <3>1, <3>2
  <2>2. SinkShape' /\ KeyInv' BY <2>1 DEF SinkInv, SinkShape, KeyInv
  <2>3. \A g \in File : g # f => call'[g] = call[g] BY <2>1 DEF SinkInv, SinkShape
  <2>4. \/ call[f] = "refuse" /\ call'[f] \in {"exists", "conflict"}
        \/ call[f] = "remove" /\ call'[f] = "keydir"
    BY <2>1 DEF SinkInv, SinkShape
  <2>5. CommitInv' BY <2>1, <2>3, <2>4 DEF SinkInv, CommitInv, Steps, Published
  <2>6. ToldInv' BY <2>1, <2>3, <2>4 DEF SinkInv, ToldInv, Published
  <2>. QED BY <2>2, <2>5, <2>6 DEF SinkInv
<1>. QED BY <1>1, <1>2

\* The sync of the key's directory makes the entry sure, and forgets what it replaced.
LEMMA KeyDirSink == ASSUME SinkInv, NEW f \in File, SyncKeyDir(f) PROVE SinkInv'
<1>1. CASE Fails(f, "keydir", "uncertain") BY <1>1, FailsSink DEF Steps
<1>2. CASE ~Fails(f, "keydir", "uncertain")
  <2> DEFINE d == DirOf(f)
  <2>1. /\ call[f] = "keydir" /\ call' = [call EXCEPT ![f] = "area"]
        /\ UNCHANGED <<state, key, made, data, synced, noReplace, crashes>>
        /\ disk' = [disk EXCEPT !.key = (@ \ InDir(@, d)) \cup InDir(key, d)]
        /\ maybe' = (maybe \ InDir(maybe, d)) \cup InDir(key, d)
    BY <1>2 DEF SyncKeyDir, At, Goto, Quiet
  <2>2. /\ disk'.key = (disk.key \ InDir(disk.key, d)) \cup InDir(key, d)
        /\ disk'.made = disk.made /\ disk' = [key |-> disk'.key, made |-> disk'.made]
    BY <2>1 DEF SinkInv, SinkShape
  <2>3. /\ key \subseteq maybe' /\ maybe' \subseteq maybe
    BY <2>1 DEF SinkInv, SinkShape, InDir
  <2>4. SinkShape' BY <2>1, <2>2, <2>3 DEF SinkInv, SinkShape
  <2>5. KeyInv' BY <2>1, <2>3 DEF SinkInv, KeyInv, SinkShape
  <2>6. call'[f] = "area" /\ \A g \in File : g # f => call'[g] = call[g]
    BY <2>1 DEF SinkInv, SinkShape
  <2>7. Same(f) \cap disk'.key # {}
    <3>1. PICK g \in Same(f) : g \in key
      BY <2>1 DEF SinkInv, CommitInv, Published
    <3>2. g \in disk'.key BY <2>2, <3>1, FileFacts DEF InDir
    <3>. QED BY <3>1, <3>2
  <2>8. ASSUME NEW g \in File, Same(g) \cap disk.key # {}, Same(g) \cap key # {}
        PROVE  Same(g) \cap disk'.key # {}
    <3>1. PICK h \in Same(g) : h \in disk.key BY <2>8
    <3>2. PICK k \in Same(g) : k \in key BY <2>8
    <3>3. DirOf(h) = DirOf(g) /\ DirOf(k) = DirOf(g) BY FileFacts
    <3>4. h \in disk'.key \/ k \in disk'.key BY <2>2, <3>1, <3>2, <3>3 DEF InDir
    <3>. QED BY <3>4
  <2>9. CommitInv'
    BY <2>1, <2>2, <2>6, <2>7, <2>8 DEF SinkInv, CommitInv, Published, Steps
  <2>10. ToldInv' BY <2>1, <2>6 DEF SinkInv, ToldInv, Published
  <2>. QED BY <2>4, <2>5, <2>9, <2>10 DEF SinkInv
<1>. QED BY <1>1, <1>2

\* The syncs of the directories above make the key's directory sure.
LEMMA DirsSink ==
  ASSUME SinkInv, NEW f \in File, SyncArea(f) \/ SyncRoot(f) PROVE SinkInv'
<1>1. CASE Fails(f, "area", "uncertain") \/ Fails(f, "root", "uncertain")
  BY <1>1, FailsSink DEF Steps
<1>2. CASE ~(Fails(f, "area", "uncertain") \/ Fails(f, "root", "uncertain"))
  <2>1. /\ UNCHANGED <<state, key, made, maybe, data, synced, noReplace, crashes>>
        /\ \/ /\ call[f] = "area" /\ call' = [call EXCEPT ![f] = "root"]
              /\ disk' = [disk EXCEPT !.made = @ \cup (made \ {Area})]
           \/ /\ call[f] = "root"
              /\ \E x \in {"uncertain", "ok"} : call' = [call EXCEPT ![f] = x]
              /\ disk' = [disk EXCEPT !.made = @ \cup (made \cap {Area})]
    <3>1. CASE SyncArea(f) BY <1>2, <3>1 DEF SyncArea, At, Goto, Quiet
    <3>2. CASE SyncRoot(f) BY <1>2, <3>2 DEF SyncRoot, At, Goto, Quiet
    <3>. QED BY <3>1, <3>2
  <2>2. /\ disk'.key = disk.key /\ disk.made \subseteq disk'.made
        /\ disk' = [key |-> disk'.key, made |-> disk'.made]
    BY <2>1 DEF SinkInv, SinkShape
  <2>3. SinkShape' /\ KeyInv' BY <2>1, <2>2 DEF SinkInv, SinkShape, KeyInv
  <2>4. \A g \in File : g # f => call'[g] = call[g] BY <2>1 DEF SinkInv, SinkShape
  <2>5. {Area, DirOf(f)} \subseteq made /\ DirOf(f) # Area
    BY <2>1, FileFacts DEF SinkInv, CommitInv, Published
  <2>6. \/ call[f] = "area" /\ call'[f] = "root" /\ DirOf(f) \in disk'.made
        \/ call[f] = "root" /\ call'[f] \in {"uncertain", "ok"} /\ Area \in disk'.made
    <3>1. CASE call[f] = "area"
      BY <2>1, <2>5, <3>1 DEF SinkInv, SinkShape
    <3>2. CASE call[f] = "root"
      BY <2>1, <2>5, <3>2 DEF SinkInv, SinkShape
    <3>. QED BY <2>1, <3>1, <3>2
  <2>7. CommitInv'
    BY <2>1, <2>2, <2>4, <2>6 DEF SinkInv, CommitInv, Published, Steps
  <2>8. ToldInv' BY <2>1, <2>4, <2>6 DEF SinkInv, ToldInv, Published
  <2>. QED BY <2>3, <2>7, <2>8 DEF SinkInv
<1>. QED BY <1>1, <1>2

\* The start of Commit: the segment is whole, and not at its key.
LEMMA CallSink ==
  ASSUME SinkInv, NEW f \in File, data[f].final, f[1] \in Capture => f \notin maybe,
         CommitCall(f)
  PROVE  /\ SinkInv' /\ UNCHANGED <<maybe, data>>
         /\ state'[f] \notin {"none", "open"} /\ \A g \in File : g # f => state'[g] = state[g]
         /\ call'[f] \in {"failed", "sync"} /\ \A g \in File : g # f => call'[g] = call[g]
<1>1. /\ UNCHANGED <<key, made, disk, maybe, data, synced, noReplace, crashes>>
      /\ state' = [state EXCEPT ![f] = "committing"]
      /\ \E x \in {"failed", "sync"} : call' = [call EXCEPT ![f] = x]
  BY DEF CommitCall, Goto, Quiet, fsVars
<1>2. SinkShape' /\ KeyInv' BY <1>1 DEF SinkInv, SinkShape, KeyInv
<1>3. /\ call'[f] \in {"failed", "sync"} /\ \A g \in File : g # f => call'[g] = call[g]
      /\ state'[f] \notin {"none", "open"} /\ \A g \in File : g # f => state'[g] = state[g]
  BY <1>1 DEF SinkInv, SinkShape
<1>4. CommitInv' BY <1>1, <1>3 DEF SinkInv, CommitInv, Steps, Published
<1>5. f[1] \in Capture => f \notin key BY DEF SinkInv, SinkShape
<1>6. ToldInv' BY <1>1, <1>3, <1>5 DEF SinkInv, ToldInv, Published
<1>. QED BY <1>1, <1>2, <1>3, <1>4, <1>6 DEF SinkInv

\* At most this file is synced.
SyncsOnly(f) == synced' = [synced EXCEPT ![f] = synced'[f]]

\* A file that is neither at a key nor being committed is written to.
LEMMA WriteSink ==
  ASSUME SinkInv, NEW f \in File, NEW x, call[f] \notin Steps, f \notin maybe,
         data' = [data EXCEPT ![f] = x], SyncsOnly(f), DOMAIN state' = File,
         UNCHANGED <<call, key, made, disk, maybe, noReplace, crashes>>
  PROVE  SinkInv' /\ data'[f] = x /\ \A g \in File : g # f => data'[g] = data[g]
<1>1. /\ data'[f] = x
      /\ \A g \in File : g # f => data'[g] = data[g] /\ synced'[g] = synced[g]
  BY DEF SinkInv, SinkShape, SyncsOnly
<1>2. SinkShape' BY DEF SinkInv, SinkShape, SyncsOnly
<1>3. KeyInv' BY <1>1 DEF SinkInv, KeyInv, SinkShape
<1>4. CommitInv' BY <1>1 DEF SinkInv, CommitInv
<1>5. ToldInv' BY DEF SinkInv, ToldInv
<1>. QED BY <1>1, <1>2, <1>3, <1>4, <1>5 DEF SinkInv

\* A step that leaves the files alone, but for their temporary entries.
LEMMA KeepSink ==
  ASSUME SinkInv, DOMAIN state' = File,
         UNCHANGED <<call, key, made, disk, maybe, data, synced, noReplace, crashes>>
  PROVE  SinkInv'
<1>1. SinkShape' /\ KeyInv' BY DEF SinkInv, SinkShape, KeyInv
<1>2. CommitInv' /\ ToldInv' BY DEF SinkInv, CommitInv, ToldInv
<1>. QED BY <1>1, <1>2 DEF SinkInv

\* A step of Commit is on a segment whose Commit is in progress, and may put that one
\* at its key.
LEMMA CommitEffect ==
  ASSUME SinkInv, NEW f \in File, Commit(f)
  PROVE  /\ call[f] \in Steps /\ \A g \in File : g # f => call'[g] = call[g]
         /\ data' = data /\ maybe' \subseteq maybe \cup {f}
         /\ \A g \in File : state'[g] \in {"none", "open"} => state'[g] = state[g]
<1>1. ASSUME NEW pc \in Steps, NEW o, Fails(f, pc, o)
      PROVE  /\ call[f] \in Steps /\ call' = [call EXCEPT ![f] = o]
             /\ UNCHANGED <<data, maybe, state>>
  BY <1>1 DEF Fails, At, Goto, fsVars
<1>2. /\ call[f] \in Steps /\ \E o : call' = [call EXCEPT ![f] = o]
      /\ data' = data /\ maybe' \subseteq maybe \cup {f}
      /\ state' = state \/ \E x \in {"published", "refused"} : state' = [state EXCEPT ![f] = x]
  <2>1. CASE CommitSync(f) BY <2>1, <1>1 DEF CommitSync, Steps, At, Goto
  <2>2. CASE CommitMkdir(f) BY <2>2, <1>1 DEF CommitMkdir, Steps, At, Goto
  <2>3. CASE CommitPublish(f)
    BY <2>3, <1>1 DEF CommitPublish, Link, Rename, Steps, At, Goto
  <2>4. CASE CommitRefuse(f) BY <2>4, <1>1 DEF CommitRefuse, Steps, At, Goto
  <2>5. CASE CommitRemove(f) BY <2>5, Zenon DEF CommitRemove, Steps, At, Goto
  <2>6. CASE SyncKeyDir(f)
    BY <2>6, <1>1 DEF SyncKeyDir, Steps, At, Goto, InDir, SinkInv, SinkShape
  <2>7. CASE SyncArea(f) BY <2>7, <1>1 DEF SyncArea, Steps, At, Goto
  <2>8. CASE SyncRoot(f) BY <2>8, <1>1 DEF SyncRoot, Steps, At, Goto
  <2>. QED BY <2>1, <2>2, <2>3, <2>4, <2>5, <2>6, <2>7, <2>8 DEF Commit, syncDirs
<1>. QED BY <1>2 DEF SinkInv, SinkShape

\* Every step of Commit keeps the invariant of the sink.
LEMMA CommitSink == ASSUME SinkInv, NEW f \in File, Commit(f) PROVE SinkInv'
BY PrepareSink, PublishSink, RefuseSink, KeyDirSink, DirsSink DEF Commit, syncDirs

\* What a crash leaves of a sink: whole segments, and every one whose Commit was done.
LEMMA CrashSink ==
  ASSUME SinkInv, CrashFS
  PROVE  /\ SinkInv' /\ maybe' \subseteq maybe
         /\ \A f \in File : /\ state'[f] # "open" /\ (state'[f] = "none" => state[f] = "none")
                            /\ call[f] \notin Steps => call'[f] = call[f]
<1>1. PICK M \in SUBSET made, K \in SUBSET maybe :
        /\ disk.made \subseteq M
        /\ \A f \in disk.key : Same(f) \cap K # {}
        /\ \A f \in K : Same(f) \cap K = {f}
        /\ made' = (IF Area \in M THEN M ELSE {})
        /\ key' = Reached(K, M)
  BY DEF CrashFS
<1>2. /\ crashes' = crashes + 1 /\ maybe' = key' /\ disk' = [key |-> key', made |-> made']
      /\ synced' = data' /\ noReplace' = noReplace
      /\ state' = [f \in File |-> IF state[f] = "none" THEN "none" ELSE "lost"]
      /\ call' = [f \in File |-> IF call[f] \in Steps THEN "none" ELSE call[f]]
  BY DEF CrashFS
<1>3. data' = [f \in File |-> IF f \in key' THEN data[f] ELSE NoBytes]
  <2>1. PICK c \in {data, synced} :
          data' = [f \in File |-> IF f \in key' THEN c[f] ELSE NoBytes]
    BY DEF CrashFS
  <2>2. \A f \in key' : c[f] = data[f]
    BY <1>1 DEF Reached, SinkInv, KeyInv
  <2>. QED BY <2>1, <2>2
<1>4. key' \subseteq K /\ K \subseteq File /\ K \subseteq maybe
  BY <1>1 DEF Reached, SinkInv, SinkShape
<1>5. SinkShape'
  <2>1. \A f \in File : data'[f] = IF f \in key' THEN data[f] ELSE NoBytes BY <1>3
  <2>2. data' = [f \in File |-> data'[f]] BY <1>3, <2>1
  <2>3. crashes' \in Nat BY <1>2 DEF SinkInv, SinkShape
  <2>. QED BY <1>2, <1>4, <2>2, <2>3 DEF SinkShape
<1>6. KeyInv'
  <2>1. \A f \in key' : Same(f) \cap key' = {f} BY <1>1, <1>4, FileFacts
  <2>2. \A f \in key' : data'[f].final BY <1>3, <1>4 DEF SinkInv, KeyInv
  <2>. QED BY <1>2, <2>1, <2>2 DEF KeyInv
<1>7. \A f \in File : call'[f] = IF call[f] \in Steps THEN "none" ELSE call[f] BY <1>2
<1>8. CommitInv'
  <2>1. SUFFICES ASSUME NEW f \in File, call[f] = "ok"
                 PROVE  /\ {Area, DirOf(f)} \subseteq made'
                        /\ Same(f) \cap key' # {} /\ (noReplace => f \in key')
    BY <1>2, <1>7 DEF CommitInv, Published, Steps
  <2>2. /\ {Area, DirOf(f)} \subseteq disk.made /\ Same(f) \cap disk.key # {}
        /\ noReplace => f \in key
    BY <2>1 DEF SinkInv, CommitInv, Published
  <2>3. {Area, DirOf(f)} \subseteq M /\ made' = M BY <1>1, <2>2
  <2>4. PICK h \in Same(f) : h \in K BY <1>1, <2>2, FileFacts
  <2>5. h \in key' BY <1>1, <2>3, <2>4, FileFacts DEF Reached
  <2>6. noReplace => h = f
    BY <1>4, <2>2, <2>4 DEF SinkInv, KeyInv
  <2>. QED BY <2>3, <2>5, <2>6
<1>9. ToldInv' BY <1>2 DEF SinkInv, SinkShape, ToldInv
<1>. QED BY <1>2, <1>4, <1>5, <1>6, <1>7, <1>8, <1>9 DEF SinkInv

-----------------------------------------------------------------------------
(* Steps that are of no writer.                                              *)

\* The segments of a capture's writer are files of the sink.
LEMMA SegFacts ==
  ASSUME Shape, WriterInv, NEW c \in Capture
  PROVE  /\ w[c].last # 0 => <<c, w[c].last>> \in File
         /\ w[c].seg # 0 => Seg(c) \in File /\ Seg(c) = <<c, w[c].last>>
<1>1. w[c].last # 0 => w[c].last \in 1 .. MaxSeq + 1 BY SinkAssumption DEF Shape, Typed
<1>2. w[c].seg # 0 => w[c].seg = w[c].last BY DEF WriterInv, Counted
<1>. QED BY <1>1, <1>2, FileFacts DEF Seg

\* A step of a Commit in progress.
LEMMA CommitStepInv == ASSUME SegmentInv, CommitStep PROVE SegmentInv'
<1>1. PICK f \in File : Commit(f) /\ w' = w BY DEF CommitStep
<1>2. SinkInv' BY <1>1, CommitSink DEF SegmentInv
<1>3. /\ call[f] \in Steps /\ \A g \in File : g # f => call'[g] = call[g]
      /\ data' = data /\ maybe' \subseteq maybe \cup {f}
      /\ \A g \in File : state'[g] \in {"none", "open"} => state'[g] = state[g]
  BY <1>1, CommitEffect DEF SegmentInv
<1>4. ConverterInv' BY <1>3, FileFacts DEF SegmentInv, FileInv, ConverterInv, Steps
<1>5. ASSUME NEW c \in Capture PROVE OpenOf(c)' /\ LastOf(c)'
  <2>1. OpenOf(c) /\ LastOf(c) BY DEF SegmentInv, FileInv
  <2>2. \A g \in File : call[g] = "none" /\ g \notin maybe =>
                         call'[g] = "none" /\ g \notin maybe'
    BY <1>3 DEF Steps
  <2>3. \A g \in File : call[g] \notin Steps => call'[g] = call[g] BY <1>3
  <2>4. Seg(c)' = Seg(c) BY <1>1 DEF Seg
  <2>5. /\ w[c].last # 0 => <<c, w[c].last>> \in File
        /\ w[c].seg # 0 => Seg(c) \in File
    BY SegFacts DEF SegmentInv
  <2>6. OpenOf(c)' BY <1>1, <1>3, <2>1, <2>2, <2>4, <2>5, FileFacts DEF OpenOf
  <2>7. LastOf(c)' BY <1>1, <2>1, <2>3, <2>5 DEF LastOf, Steps
  <2>. QED BY <2>6, <2>7
<1>6. Shape' /\ WriterInv' BY <1>1 DEF SegmentInv, Shape, WriterInv
<1>. QED BY <1>2, <1>4, <1>5, <1>6 DEF SegmentInv, FileInv

\* A crash: the writers in progress are gone.
LEMMA CrashInv == ASSUME SegmentInv, Crash PROVE SegmentInv'
<1>1. /\ SinkInv' /\ maybe' \subseteq maybe
      /\ \A f \in File : /\ state'[f] # "open" /\ (state'[f] = "none" => state[f] = "none")
                         /\ call[f] \notin Steps => call'[f] = call[f]
  BY CrashSink DEF SegmentInv, Crash
<1>2. DOMAIN w' = Capture BY DEF Crash
<1>3. ASSUME NEW c \in Capture
      PROVE  \/ w[c].pc \in {"new", "closed", "failed"} /\ w'[c] = w[c]
             \/ w'[c] = [NewWriter EXCEPT !.pc = "dead"]
  BY DEF Crash
<1>4. ConverterInv' BY <1>1, FileFacts DEF SegmentInv, FileInv, ConverterInv, Steps
<1>5. ASSUME NEW c \in Capture, w'[c] = [NewWriter EXCEPT !.pc = "dead"]
      PROVE  /\ DOMAIN w'[c] = Fields /\ w'[c].nextSeq = 0 /\ w'[c].next = 0 /\ w'[c].seg = 0
             /\ w'[c].last = 0 /\ w'[c].pc = "dead" /\ w'[c].failure = "none"
  BY <1>5 DEF NewWriter, Fields
<1>6. Shape' BY <1>2, <1>3, <1>5, SinkAssumption DEF SegmentInv, Shape, Typed
<1>7. WriterInv'
  <2>1. ASSUME NEW c \in Capture, w'[c] = [NewWriter EXCEPT !.pc = "dead"]
        PROVE  Placed(w'[c]) /\ Counted(w'[c])
    BY <1>5, <2>1, Zenon DEF Placed, Counted, Busy
  <2>. QED BY <1>3, <2>1 DEF SegmentInv, WriterInv
<1>8. ASSUME NEW c \in Capture PROVE OpenOf(c)' /\ LastOf(c)'
  <2>1. CASE w'[c] = [NewWriter EXCEPT !.pc = "dead"]
    <3>1. w'[c].pc = "dead" BY <1>5, <2>1
    <3>. QED BY <3>1 DEF OpenOf, LastOf
  <2>2. CASE w[c].pc \in {"new", "closed", "failed"} /\ w'[c] = w[c]
    <3>1. OpenOf(c) /\ LastOf(c) BY DEF SegmentInv, FileInv
    <3>2. w[c].last # 0 => <<c, w[c].last>> \in File BY SegFacts DEF SegmentInv
    <3>3. OpenOf(c)' BY <1>1, <2>2, <3>1, FileFacts DEF OpenOf, Steps
    <3>4. LastOf(c)' BY <1>1, <2>2, <3>1, <3>2 DEF LastOf, Steps
    <3>. QED BY <3>3, <3>4
  <2>. QED BY <1>3, <2>1, <2>2
<1>. QED BY <1>1, <1>4, <1>6, <1>7, <1>8 DEF SegmentInv, FileInv

\* The files of the converter are not those of a capture.
LEMMA ConverterFile ==
  ASSUME NEW v \in Converter
  PROVE  /\ <<v, 0>> \in File /\ <<v, 0>>[1] \notin Capture
         /\ \A c \in Capture : \A n : <<c, n>> # <<v, 0>>
BY FileFacts, SinkAssumption

\* A step that is of no writer and touches no file of a capture.
LEMMA NotWriter ==
  ASSUME SegmentInv, SinkInv', ConverterInv', w' = w, maybe' = maybe,
         \A g \in File : g[1] \in Capture => call'[g] = call[g] /\ data'[g] = data[g]
  PROVE  SegmentInv'
<1>1. ASSUME NEW c \in Capture PROVE OpenOf(c)' /\ LastOf(c)'
  <2>1. OpenOf(c) /\ LastOf(c) BY DEF SegmentInv, FileInv
  <2>2. Seg(c)' = Seg(c) BY DEF Seg
  <2>3. /\ w[c].last # 0 => /\ call'[<<c, w[c].last>>] = call[<<c, w[c].last>>]
        /\ w[c].seg # 0 => call'[Seg(c)] = call[Seg(c)] /\ data'[Seg(c)] = data[Seg(c)]
    BY SegFacts DEF SegmentInv
  <2>4. \A n \in 1 .. MaxSeq + 1 : call'[<<c, n>>] = call[<<c, n>>] BY FileFacts
  <2>5. w[c].pc = "commit" => w[c].seg # 0 BY DEF SegmentInv, WriterInv, Counted, Busy
  <2>6. OpenOf(c)' BY <2>1, <2>2, <2>3, <2>4, <2>5 DEF OpenOf
  <2>7. LastOf(c)' BY <2>1, <2>3 DEF LastOf
  <2>. QED BY <2>6, <2>7
<1>2. Shape' /\ WriterInv' BY DEF SegmentInv, Shape, WriterInv
<1>. QED BY <1>1, <1>2 DEF SegmentInv, FileInv

\* The runs of the converter, and Close of the sink.
LEMMA ConverterStep ==
  ASSUME SegmentInv, NEW v \in Converter,
         Convert(v) \/ ConverterCommits(v) \/ ConverterAborts(v)
  PROVE  SegmentInv'
<1> DEFINE f == <<v, 0>>
<1>0. /\ f \in File /\ f[1] \notin Capture /\ \A u \in Converter : <<u, 0>> \in File
      /\ SinkInv /\ DOMAIN state = File /\ ConverterInv
  BY ConverterFile, FileFacts DEF SegmentInv, SinkInv, SinkShape, FileInv
<1>1. CASE Convert(v)
  <2>1. PICK x : /\ data' = [data EXCEPT ![f] = x] /\ x.final /\ SyncsOnly(f)
    <3>1. PICK r \in {StartRecord, [StartRecord EXCEPT !.mono = FALSE]} :
            /\ data' = [data EXCEPT ![f] = [recs |-> <<Stored(r, 0)>>, final |-> TRUE]]
            /\ synced' \in {synced, [synced EXCEPT ![f] = data'[f]]}
      BY <1>1, Zenon DEF Convert
    <3>2. [recs |-> <<Stored(r, 0)>>, final |-> TRUE].final OBVIOUS
    <3>3. synced = [g \in File |-> synced[g]] BY <1>0 DEF SinkInv, SinkShape
    <3>4. SyncsOnly(f) BY <1>0, <3>1, <3>3 DEF SyncsOnly
    <3>. QED BY <3>1, <3>2, <3>4, Zenon
  <2>2. /\ UNCHANGED <<call, key, made, disk, maybe, noReplace, crashes, w>>
        /\ state[f] = "none" /\ state' = [state EXCEPT ![f] = "open"]
    BY <1>1 DEF Convert, Create
  <2>3. call[f] \notin Steps /\ f \notin maybe BY <1>0, <2>2 DEF ConverterInv, Steps
  <2>4. SinkInv' /\ data'[f] = x /\ \A g \in File : g # f => data'[g] = data[g]
    BY <1>0, <2>1, <2>2, <2>3, WriteSink, Zenon
  <2>5. ConverterInv' BY <1>0, <2>1, <2>2, <2>4 DEF ConverterInv
  <2>. QED BY <1>0, <2>2, <2>4, <2>5, NotWriter
<1>2. CASE ConverterCommits(v)
  <2>1. CommitCall(f) /\ w' = w BY <1>2 DEF ConverterCommits
  <2>2. data[f].final BY <1>0, <2>1 DEF CommitCall, ConverterInv
  <2>3. /\ SinkInv' /\ UNCHANGED <<maybe, data>>
        /\ state'[f] \notin {"none", "open"} /\ \A g \in File : g # f => state'[g] = state[g]
        /\ \A g \in File : g # f => call'[g] = call[g]
    BY <1>0, <2>1, <2>2, CallSink
  <2>4. ConverterInv' BY <1>0, <2>3 DEF ConverterInv
  <2>. QED BY <1>0, <2>1, <2>3, <2>4, NotWriter
<1>3. CASE ConverterAborts(v)
  <2>1. /\ UNCHANGED <<call, key, made, disk, maybe, data, synced, noReplace, crashes, w>>
        /\ state' = state \/ state' = [state EXCEPT ![f] = "aborted"]
    BY <1>3 DEF ConverterAborts, Abort
  <2>2. SinkInv' BY <1>0, <2>1, KeepSink
  <2>3. ConverterInv' BY <1>0, <2>1 DEF ConverterInv
  <2>. QED BY <2>1, <2>2, <2>3, NotWriter
<1>. QED BY <1>1, <1>2, <1>3

LEMMA CloseStep == ASSUME SegmentInv, CloseSink PROVE SegmentInv'
<1>1. UNCHANGED <<state, call, key, made, disk, maybe, data, synced, noReplace, crashes, w>>
  BY DEF CloseSink, Close, fsVars
<1>2. SinkInv' BY <1>1, KeepSink DEF SegmentInv, SinkInv, SinkShape
<1>3. ConverterInv' BY <1>1 DEF SegmentInv, FileInv, ConverterInv
<1>. QED BY <1>1, <1>2, <1>3, NotWriter

-----------------------------------------------------------------------------
(* Steps of a writer.                                                        *)

\* A step of the writer of c leaves the others' state, and their files, as they are.
LEMMA WriterMoves ==
  ASSUME SegmentInv, NEW c \in Capture, NEW r, w' = [w EXCEPT ![c] = r],
         Typed(r), Placed(r), Counted(r), SinkInv',
         \A g \in File : g[1] # c => /\ call'[g] = call[g] /\ data'[g] = data[g]
                                     /\ g \in maybe' => g \in maybe
                                     /\ state'[g] \in {"none", "open"} => state'[g] = state[g],
         OpenOf(c)', LastOf(c)'
  PROVE  SegmentInv'
<1>1. /\ DOMAIN w' = Capture /\ w'[c] = r /\ \A d \in Capture : d # c => w'[d] = w[d]
  BY DEF SegmentInv, Shape
<1>2. Shape' BY <1>1 DEF SegmentInv, Shape
<1>3. WriterInv' BY <1>1, Zenon DEF SegmentInv, WriterInv
<1>4. ConverterInv'
  BY ConverterFile, SinkAssumption DEF SegmentInv, FileInv, ConverterInv
<1>5. ASSUME NEW d \in Capture, d # c PROVE OpenOf(d)' /\ LastOf(d)'
  <2>1. OpenOf(d) /\ LastOf(d) /\ w'[d] = w[d] BY <1>1, <1>5 DEF SegmentInv, FileInv
  <2>2. Seg(d)' = Seg(d) /\ Seg(d)[1] = d BY <2>1 DEF Seg
  <2>3. \A n : <<d, n>>[1] # c BY <1>5
  <2>4. w[d].last # 0 => call'[<<d, w[d].last>>] = call[<<d, w[d].last>>]
    BY <2>3, SegFacts DEF SegmentInv
  <2>5. w[d].seg # 0 => /\ call'[Seg(d)] = call[Seg(d)] /\ data'[Seg(d)] = data[Seg(d)]
                        /\ Seg(d) \in maybe' => Seg(d) \in maybe
    BY <1>5, <2>2, SegFacts, ZenonT(30) DEF SegmentInv
  <2>6. \A n \in 1 .. MaxSeq + 1 : /\ call'[<<d, n>>] = call[<<d, n>>]
                                   /\ <<d, n>> \in maybe' => <<d, n>> \in maybe
    BY <2>3, FileFacts
  <2>7. w[d].pc = "commit" => w[d].seg # 0 BY DEF SegmentInv, WriterInv, Counted, Busy
  <2>8. OpenOf(d)' BY <2>1, <2>2, <2>5, <2>6, <2>7, ZenonT(30) DEF OpenOf
  <2>9. LastOf(d)' BY <2>1, <2>4, Zenon DEF LastOf
  <2>. QED BY <2>8, <2>9
<1>. QED BY <1>2, <1>3, <1>4, <1>5 DEF SegmentInv, FileInv

\* What the invariant says of the writer of c.
LEMMA Mine ==
  ASSUME SegmentInv, NEW c \in Capture
  PROVE  /\ DOMAIN w = Capture /\ MaxSeq \in Nat
         /\ Typed(w[c]) /\ Placed(w[c]) /\ Counted(w[c]) /\ OpenOf(c) /\ LastOf(c)
         /\ SinkInv /\ DOMAIN state = File
         /\ w[c].last # 0 => <<c, w[c].last>> \in File
         /\ w[c].seg # 0 => Seg(c) \in File /\ Seg(c) = <<c, w[c].last>>
BY SegFacts, SinkAssumption, ZenonT(30)
   DEF SegmentInv, Shape, WriterInv, FileInv, SinkInv, SinkShape

\* A step of the writer of c that leaves the sink as it is.
LEMMA QuietWriter ==
  ASSUME SegmentInv, NEW c \in Capture, NEW r, w' = [w EXCEPT ![c] = r],
         Typed(r), Placed(r), Counted(r),
         UNCHANGED <<state, call, key, made, disk, maybe, data, synced, noReplace, crashes>>,
         OpenOf(c)', LastOf(c)'
  PROVE  SegmentInv'
<1>1. SinkInv' BY KeepSink, Mine, Zenon
<1>2. \A g \in File : g[1] # c => /\ call'[g] = call[g] /\ data'[g] = data[g]
                                  /\ g \in maybe' => g \in maybe
                                  /\ state'[g] \in {"none", "open"} => state'[g] = state[g]
  OBVIOUS
<1>. QED BY <1>1, <1>2, WriterMoves, Zenon

\* A step of the writer of c that opens, closes and commits nothing.
LEMMA OpenKept ==
  ASSUME NEW c \in Capture, OpenOf(c), w[c].pc # "dead", w'[c].last = w[c].last,
         w'[c].seg = w[c].seg, UNCHANGED <<call, maybe>>, w'[c].pc # "commit",
         w'[c].pc \in {"idle", "add", "close", "commit"} /\ w[c].seg # 0 =>
           w[c].pc \in {"idle", "add", "close", "commit"}
  PROVE  OpenOf(c)'
<1>1. Seg(c)' = Seg(c) BY DEF Seg
<1>. QED BY <1>1, Zenon DEF OpenOf

\* fail remembers what the Commit of the last segment told.
LEMMA FailStep ==
  ASSUME SegmentInv, NEW c \in Capture, NEW cause, cause # "refused", w[c].pc # "dead",
         w' = [w EXCEPT ![c] = Failing(w[c], cause)],
         UNCHANGED <<state, call, key, made, disk, maybe, data, synced, noReplace, crashes>>,
         cause = "uncertain" <=> w[c].last # 0 /\ call[<<c, w[c].last>>] = "uncertain",
         w[c].last # 0 => call[<<c, w[c].last>>] \notin Steps
  PROVE  SegmentInv'
<1> DEFINE me == w[c]
           r == Failing(w[c], cause)
<1>1. DOMAIN w = Capture /\ Typed(me) /\ Counted(me) /\ OpenOf(c) BY Mine, Zenon
<1>2. /\ DOMAIN r = Fields /\ r.pc = "fail" /\ r.failure = cause /\ r.last = me.last
      /\ r.seg = me.seg /\ r.nextSeq = me.nextSeq /\ r.next = me.next
  BY <1>1 DEF Failing, Typed, Fields
<1>3. w'[c] = r BY <1>1
<1> HIDE DEF me, r
<1>4. Typed(r) /\ Placed(r) BY <1>1, <1>2, Zenon DEF Placed, Busy, Typed
<1>5. Counted(r) BY <1>1, <1>2, Zenon DEF Counted, Busy
<1>6. /\ w'[c].pc = "fail" /\ w'[c].seg = w[c].seg /\ w'[c].last = w[c].last
      /\ w'[c].failure = cause
  BY <1>2, <1>3, Zenon DEF me
<1>7. OpenOf(c)' /\ LastOf(c)' BY <1>1, <1>6, OpenKept, Zenon DEF LastOf
<1>. QED BY <1>4, <1>5, <1>7, QuietWriter, Zenon DEF r

\* The start of a capture.
LEMMA NewStep == ASSUME SegmentInv, NEW c \in Capture, NewSegmentWriter(c) PROVE SegmentInv'
<1> DEFINE me == w[c]
           r == [w[c] EXCEPT !.pc = "open", !.goal = "append"]
<1>1. /\ me.pc = "new" /\ w' = [w EXCEPT ![c] = r]
      /\ UNCHANGED <<state, call, key, made, disk, maybe, data, synced, noReplace, crashes>>
  BY DEF NewSegmentWriter, In, Set, sinkVars, fsVars
<1>2. DOMAIN w = Capture /\ Counted(me) /\ OpenOf(c) /\ MaxSeq \in Nat BY Mine, Zenon
<1>3. me = NewWriter BY <1>1, <1>2 DEF Counted
<1>4. /\ DOMAIN r = Fields /\ r.pc = "open" /\ r.goal = "append" /\ r.failure = "none"
      /\ r.last = 0 /\ r.seg = 0 /\ r.nextSeq = 0 /\ r.next = 0 /\ r.anchor = 0
      /\ r.todo = StartRecord
  <2>1. r = [NewWriter EXCEPT !.pc = "open", !.goal = "append"] BY <1>3, Zenon
  <2> HIDE DEF r, me
  <2>. QED BY <2>1 DEF NewWriter, Fields
<1>5. me.last = 0 BY <1>3 DEF NewWriter
<1> HIDE DEF me, r
<1>6. w'[c] = r BY <1>1, <1>2
<1>7. preflight(r, r.todo)
  BY <1>2, <1>4 DEF preflight, clockDrift, anchorInForce, StartRecord
<1>8. Placed(r) BY <1>4, <1>7, Zenon DEF Placed, Busy
<1>9. Typed(r) /\ Counted(r) BY <1>2, <1>4 DEF Counted, Busy, Typed
<1>10. w'[c].pc = "open" /\ w'[c].seg = 0 /\ w'[c].last = 0
  BY <1>4, <1>6, Zenon
<1>11. OpenOf(c)' /\ LastOf(c)' BY <1>1, <1>2, <1>5, <1>10, Zenon DEF OpenOf, LastOf, me
<1>. QED BY <1>1, <1>8, <1>9, <1>11, QuietWriter, Zenon

\* A record is let through by preflight, and place chooses its segment.
LEMMA PlacedStep ==
  ASSUME SegmentInv, NEW c \in Capture, NEW x, NEW caller \in BOOLEAN,
         NEW goal \in {"append", "stop"}, w[c].pc = "idle", preflight(w[c], x),
         w' = [w EXCEPT ![c] = [w[c] EXCEPT !.pc = place(c, x, caller), !.goal = goal,
                                            !.todo = x]],
         UNCHANGED <<state, call, key, made, disk, maybe, data, synced, noReplace, crashes>>
  PROVE  SegmentInv'
<1> DEFINE me == w[c]
           p == place(c, x, caller)
           r == [w[c] EXCEPT !.pc = p, !.goal = goal, !.todo = x]
<1>1. /\ DOMAIN w = Capture /\ Typed(me) /\ Counted(me) /\ Placed(me) /\ OpenOf(c) /\ LastOf(c)
      /\ MaxSeq \in Nat
  BY Mine, Zenon
<1>2. \/ p = "open" /\ me.seg = 0
      \/ p = "close" /\ me.seg # 0
      \/ p = "add" /\ me.seg # 0 /\ hourOf(x.at) = hourOf(me.at)
  BY DEF place, leaves
<1> HIDE DEF p
<1>3. /\ DOMAIN r = Fields /\ r.pc = p /\ r.goal = goal /\ r.failure = me.failure
      /\ r.last = me.last /\ r.seg = me.seg /\ r.nextSeq = me.nextSeq /\ r.next = me.next
      /\ r.anchor = me.anchor /\ r.drift = me.drift /\ r.todo = x /\ r.at = me.at
  BY <1>1 DEF Typed, Fields
<1>4. w'[c] = r BY <1>1 DEF p
<1> HIDE DEF me, r
<1>5. preflight(r, x) BY <1>3 DEF preflight, anchorInForce, me
<1>6. Typed(r) BY <1>1, <1>3, Zenon DEF Typed
<1>7. Placed(r)
  <2>1. me.seg # 0 => me.next = me.nextSeq
    BY <1>1 DEF Placed, me
  <2>. QED BY <1>1, <1>2, <1>3, <1>5, <2>1 DEF Placed, Busy
<1>8. Counted(r)
  <2>1. /\ me.seg # 0 => me.seg = me.last /\ me.last <= me.next /\ me.last <= me.next + 1
        /\ me.seg = 0 => me.last <= me.nextSeq
    BY <1>1 DEF Counted, me, Typed
  <2>. QED BY <1>2, <1>3, <2>1, Zenon DEF Counted, Busy
<1>9. w'[c].pc = p /\ w'[c].seg = w[c].seg /\ w'[c].last = w[c].last
  BY <1>3, <1>4, Zenon DEF me
<1>10. OpenOf(c)' BY <1>1, <1>2, <1>9, OpenKept, Zenon DEF me
<1>11. LastOf(c)' BY <1>1, <1>2, <1>9, Zenon DEF LastOf, me
<1>. QED BY <1>6, <1>7, <1>8, <1>10, <1>11, QuietWriter, Zenon DEF r, p

\* roll, and Close without the seqs for its boundary: the open segment is closed.
LEMMA RollStep ==
  ASSUME SegmentInv, NEW c \in Capture, NEW goal \in {"roll", "last"}, NEW x,
         x = [w[c] EXCEPT !.pc = "close", !.goal = goal] \/
         x = [w[c] EXCEPT !.pc = "close", !.goal = goal, !.failure = "none"],
         w[c].pc = "idle", w[c].seg # 0, w' = [w EXCEPT ![c] = x],
         UNCHANGED <<state, call, key, made, disk, maybe, data, synced, noReplace, crashes>>
  PROVE  SegmentInv'
<1>1. DOMAIN w = Capture /\ Typed(w[c]) /\ Counted(w[c]) /\ Placed(w[c]) /\ OpenOf(c)
  BY Mine, Zenon
<1>2. /\ DOMAIN x = Fields /\ x.pc = "close" /\ x.goal = goal /\ x.last = w[c].last
      /\ x.seg = w[c].seg /\ x.nextSeq = w[c].nextSeq /\ x.next = w[c].next
      /\ x.failure \in {w[c].failure, "none"}
  BY <1>1, Zenon DEF Typed, Fields
<1>3. w'[c] = x BY <1>1
<1>4. Typed(x) /\ Placed(x) BY <1>1, <1>2, Zenon DEF Placed, Busy, Typed
<1>5. Counted(x) BY <1>1, <1>2, Zenon DEF Counted, Busy
<1>6. w'[c].pc = "close" /\ w'[c].seg = w[c].seg /\ w'[c].last = w[c].last
  BY <1>2, <1>3, Zenon
<1>7. OpenOf(c)' /\ LastOf(c)' BY <1>1, <1>6, OpenKept, Zenon DEF LastOf
<1>. QED BY <1>4, <1>5, <1>7, QuietWriter, Zenon

\* Close without an open segment and without seqs for its boundary.
LEMMA SeqsStep ==
  ASSUME SegmentInv, NEW c \in Capture, NEW x,
         x = [w[c] EXCEPT !.pc = "failed", !.goal = "last", !.failure = "seqs"],
         w[c].pc = "idle", w[c].seg = 0, w' = [w EXCEPT ![c] = x],
         UNCHANGED <<state, call, key, made, disk, maybe, data, synced, noReplace, crashes>>
  PROVE  SegmentInv'
<1>1. DOMAIN w = Capture /\ Typed(w[c]) /\ OpenOf(c) /\ LastOf(c) BY Mine, Zenon
<1>2. /\ DOMAIN x = Fields /\ x.pc = "failed" /\ x.last = w[c].last
      /\ x.seg = 0 /\ x.nextSeq = w[c].nextSeq /\ x.next = w[c].next /\ x.failure = "seqs"
  BY <1>1 DEF Typed, Fields
<1>3. w'[c] = x BY <1>1
<1>4. Typed(x) /\ Placed(x) BY <1>1, <1>2, Zenon DEF Placed, Busy, Typed
<1>5. Counted(x) BY <1>2, Zenon DEF Counted, Busy
<1>6. /\ w'[c].pc = "failed" /\ w'[c].seg = w[c].seg /\ w'[c].last = w[c].last
      /\ w'[c].failure = "seqs"
  BY <1>2, <1>3, Zenon
<1>7. OpenOf(c)' BY <1>1, <1>6, OpenKept, Zenon
<1>8. w[c].last = 0 \/ call[<<c, w[c].last>>] = "ok" BY <1>1 DEF LastOf
<1>9. LastOf(c)' BY <1>6, <1>8 DEF LastOf, Steps
<1>. QED BY <1>4, <1>5, <1>7, <1>9, QuietWriter, Zenon

\* The calls of an idle writer.
LEMMA IdleStep ==
  ASSUME SegmentInv, NEW c \in Capture, AppendRecord(c) \/ roll(c) \/ closeCapture(c)
  PROVE  SegmentInv'
<1>1. /\ w[c].pc = "idle"
      /\ UNCHANGED <<state, call, key, made, disk, maybe, data, synced, noReplace, crashes>>
  BY Zenon DEF AppendRecord, roll, closeCapture, In, sinkVars, fsVars
<1>2. CASE AppendRecord(c)
  BY <1>1, <1>2, PlacedStep, Zenon DEF AppendRecord, Set
<1>3. CASE roll(c) BY <1>1, <1>3, RollStep, Zenon DEF roll, Set
<1>4. CASE closeCapture(c)
  <2>1. CASE Set(c, Failing(w[c], "failed"))
    <3>1. LastOf(c) /\ OpenOf(c) /\ (w[c].seg # 0 => Seg(c) = <<c, w[c].last>>) BY Mine, Zenon
    <3>2. w[c].last # 0 => call[<<c, w[c].last>>] \in {"ok", "none"}
      BY <1>1, <3>1 DEF LastOf, OpenOf
    <3>3. w[c].last # 0 => /\ call[<<c, w[c].last>>] # "uncertain"
                           /\ call[<<c, w[c].last>>] \notin Steps
      BY <3>2 DEF Steps
    <3>. QED BY <1>1, <2>1, <3>3, FailStep, Zenon DEF Set
  <2>2. CASE ~Set(c, Failing(w[c], "failed"))
    <3>1. PICK r \in Boundary :
            LET pc == IF w[c].seg = 0 THEN "failed" ELSE "close"
                none == IF w[c].seg = 0 THEN "seqs" ELSE "none"
            IN  IF preflight(w[c], r)
                THEN Set(c, [w[c] EXCEPT !.pc = place(c, r, FALSE), !.goal = "stop",
                                         !.todo = r])
                ELSE Set(c, [w[c] EXCEPT !.pc = pc, !.goal = "last", !.failure = none])
      BY <1>4, <2>2, Zenon DEF closeCapture
    <3>2. CASE preflight(w[c], r) BY <1>1, <3>1, <3>2, PlacedStep, Zenon DEF Set
    <3>3. CASE ~preflight(w[c], r) /\ w[c].seg = 0
      BY <1>1, <3>1, <3>3, SeqsStep, Zenon DEF Set
    <3>4. CASE ~preflight(w[c], r) /\ w[c].seg # 0
      BY <1>1, <3>1, <3>4, RollStep, Zenon DEF Set
    <3>. QED BY <3>2, <3>3, <3>4
  <2>. QED BY <2>1, <2>2
<1>. QED BY <1>2, <1>3, <1>4

\* The writer opens its next segment, or fails.
LEMMA OpenStep == ASSUME SegmentInv, NEW c \in Capture, open(c) PROVE SegmentInv'
<1> DEFINE n == w[c].last + 1
           r == [w[c] EXCEPT !.pc = "add", !.seg = n, !.last = n, !.at = w[c].todo.at,
                             !.block = <<>>, !.next = w[c].nextSeq, !.drift = w[c].anchor]
<1>1. /\ DOMAIN w = Capture /\ Typed(w[c]) /\ Counted(w[c]) /\ Placed(w[c]) /\ OpenOf(c)
      /\ LastOf(c) /\ MaxSeq \in Nat /\ SinkInv /\ DOMAIN state = File
  BY Mine, Zenon
<1>2. w[c].pc = "open" BY DEF open, In
<1>3. w[c].seg = 0 /\ preflight(w[c], w[c].todo) /\ w[c].last <= w[c].nextSeq
      /\ w[c].goal \in {"append", "stop"}
  BY <1>1, <1>2, Zenon DEF Counted, Placed
<1>4. CASE /\ Set(c, Failing(w[c], "failed"))
           /\ UNCHANGED <<noReplace, closed, state, call, crashes, fsVars>>
  <2>1. w[c].last = 0 \/ call[<<c, w[c].last>>] = "ok" BY <1>1, <1>2, <1>3 DEF LastOf
  <2>2. w[c].last # 0 => /\ call[<<c, w[c].last>>] # "uncertain"
                         /\ call[<<c, w[c].last>>] \notin Steps
    BY <2>1 DEF Steps
  <2>. QED BY <1>2, <1>4, <2>2, FailStep, Zenon DEF Set, fsVars
<1>5. CASE /\ Create(<<c, n>>) /\ UNCHANGED <<data, synced>>
           /\ Set(c, r) \/ Set(c, Failing(r, "failed"))
  <2>1. n \in 1 .. MaxSeq + 1 /\ n > w[c].last /\ n \in Nat /\ n # 0 /\ n <= w[c].nextSeq + 1
        /\ w[c].nextSeq \in Nat
    BY <1>1, <1>3 DEF Typed, preflight
  <2>2. PICK x : w' = [w EXCEPT ![c] = x] /\ (x = r \/ x = Failing(r, "failed"))
    BY <1>5, Zenon DEF Set
  <2> HIDE DEF n
  <2>3. /\ DOMAIN x = Fields /\ x.nextSeq = w[c].nextSeq /\ x.next = w[c].nextSeq
        /\ x.seg = n /\ x.last = n /\ x.todo = w[c].todo /\ x.at = w[c].todo.at
        /\ x.drift = w[c].anchor /\ x.goal = w[c].goal
        /\ \/ x.pc = "add" /\ x.failure = w[c].failure
           \/ x.pc = "fail" /\ x.failure = "failed"
    BY <1>1, <2>2, Zenon DEF Typed, Fields, Failing
  <2> HIDE DEF r
  <2>4. preflight(x, x.todo)
    BY <1>3, <2>1, <2>3 DEF preflight, anchorInForce
  <2>5. Typed(x) BY <2>1, <2>3 DEF Typed
  <2>6. Placed(x) BY <1>1, <1>3, <2>3, <2>4, Zenon DEF Placed, Busy
  <2>7. Counted(x)
    BY <2>1, <2>3, Zenon DEF Counted, Busy
  <2>8. /\ UNCHANGED <<call, key, made, disk, maybe, data, synced, noReplace, crashes>>
        /\ state' = [state EXCEPT ![<<c, n>>] = "open"]
    BY <1>5 DEF Create
  <2>9. SinkInv' BY <1>1, <2>8, KeepSink
  <2>10. w'[c] = x BY <1>1, <2>2
  <2>11. call[<<c, n>>] = "none" /\ <<c, n>> \notin maybe
    BY <1>1, <1>2, <2>1 DEF OpenOf
  <2>12. OpenOf(c)'
    <3>1. Seg(c)' = <<c, n>> BY <2>3, <2>10 DEF Seg
    <3>2. \A m \in 1 .. MaxSeq + 1 : m > n => m > w[c].last
      BY <1>1, <2>1 DEF Typed
    <3>. QED BY <1>1, <1>2, <2>3, <2>8, <2>10, <2>11, <3>1, <3>2, Zenon DEF OpenOf
  <2>13. LastOf(c)'
    BY <2>1, <2>3, <2>8, <2>10, <2>11 DEF LastOf, Steps
  <2>14. \A g \in File : g[1] # c => /\ call'[g] = call[g] /\ data'[g] = data[g]
                                     /\ g \in maybe' => g \in maybe
                                     /\ state'[g] \in {"none", "open"} => state'[g] = state[g]
    BY <1>1, <2>8
  <2>. QED BY <2>2, <2>5, <2>6, <2>7, <2>9, <2>12, <2>13, <2>14, WriterMoves, Zenon
<1>. QED BY <1>4, <1>5, Zenon DEF open

\* The Writer refuses no record that preflight and place let through.
LEMMA Accepted ==
  ASSUME SegmentInv, NEW c \in Capture, w[c].pc = "add"
  PROVE  /\ ~Refuses(w[c], w[c].todo) /\ w[c].seg # 0
         /\ LastSeq(w[c], w[c].todo) \in {w[c].next, w[c].next + 1}
<1>1. /\ Typed(w[c]) /\ Counted(w[c]) /\ Placed(w[c]) /\ MaxSeq \in Nat BY Mine, Zenon
<1>2. /\ w[c].seg # 0 /\ preflight(w[c], w[c].todo) /\ w[c].next = w[c].nextSeq
      /\ hourOf(w[c].todo.at) = hourOf(w[c].at)
  BY <1>1 DEF Counted, Placed
<1> DEFINE drifts == clockDrift(w[c].todo, w[c].drift)
<1>3. Len(StepBefore(w[c], w[c].todo)) = IF drifts THEN 1 ELSE 0 BY DEF StepBefore
<1>4. w[c].next + (IF drifts THEN 2 ELSE 1) <= MaxSeq + 1
  BY <1>2 DEF preflight, anchorInForce
<1> HIDE DEF drifts
<1>. QED BY <1>1, <1>2, <1>3, <1>4 DEF Typed, LastSeq, Refuses

\* A step in which the writer of c writes to its open segment.
LEMMA WritingWriter ==
  ASSUME SegmentInv, NEW c \in Capture, NEW r, w' = [w EXCEPT ![c] = r],
         Typed(r), Placed(r), Counted(r), w[c].seg # 0, r.seg = w[c].seg, r.last = w[c].last,
         w[c].pc \in {"add", "close"}, r.pc \in {"idle", "close", "commit"},
         NEW x, data' = [data EXCEPT ![Seg(c)] = x], r.pc = "commit" => x.final,
         synced' = [synced EXCEPT ![Seg(c)] = data'[Seg(c)]],
         UNCHANGED <<state, call, key, made, disk, maybe, noReplace, crashes>>
  PROVE  SegmentInv'
<1> DEFINE f == Seg(c)
<1>1. /\ DOMAIN w = Capture /\ OpenOf(c) /\ SinkInv /\ DOMAIN state = File /\ f \in File
  BY Mine, Zenon
<1>2. call[f] = "none" /\ f \notin maybe BY <1>1, Zenon DEF OpenOf
<1>3. f[1] = c BY DEF Seg
<1>4. w'[c] = r /\ Seg(c)' = f BY <1>1 DEF Seg
<1> HIDE DEF f
<1>5. SyncsOnly(f) BY <1>1 DEF f, SyncsOnly, SinkInv, SinkShape
<1>6. call[f] \notin Steps BY <1>2 DEF Steps
<1>7. SinkInv' /\ data'[f] = x /\ \A g \in File : g # f => data'[g] = data[g]
  BY <1>1, <1>2, <1>5, <1>6, WriteSink, Zenon DEF f
<1>8. w'[c].pc \in {"idle", "close", "commit"} /\ w'[c].last = w[c].last /\ w'[c].seg # 0
      /\ (w'[c].pc = "commit" => data'[f].final)
  BY <1>4, <1>7, Zenon
<1>9. OpenOf(c)' BY <1>1, <1>2, <1>4, <1>8, Zenon DEF OpenOf
<1>10. LastOf(c)' BY <1>8, Zenon DEF LastOf
<1>11. \A g \in File : g[1] # c => /\ call'[g] = call[g] /\ data'[g] = data[g]
                                   /\ g \in maybe' => g \in maybe
                                   /\ state'[g] \in {"none", "open"} => state'[g] = state[g]
  BY <1>3, <1>7, Zenon
<1>. QED BY <1>7, <1>9, <1>10, <1>11, WriterMoves, Zenon

\* A call to the Writer fails: the segment was not committed.
LEMMA FailOpen ==
  ASSUME SegmentInv, NEW c \in Capture, w[c].pc \in {"add", "close"},
         w' = [w EXCEPT ![c] = Failing(w[c], "failed")],
         UNCHANGED <<state, call, key, made, disk, maybe, data, synced, noReplace, crashes>>
  PROVE  SegmentInv'
<1>1. OpenOf(c) /\ Counted(w[c]) /\ (w[c].seg # 0 => Seg(c) = <<c, w[c].last>>)
  BY Mine, Zenon
<1>2. w[c].seg # 0 BY <1>1, Zenon DEF Counted, Busy
<1>3. call[<<c, w[c].last>>] = "none" BY <1>1, <1>2, Zenon DEF OpenOf
<1>4. call[<<c, w[c].last>>] # "uncertain" /\ call[<<c, w[c].last>>] \notin Steps
  BY <1>3 DEF Steps
<1>. QED BY <1>4, FailStep, Zenon

\* addRecord adds the record, after a clock-step record where one is due.
LEMMA AddStep == ASSUME SegmentInv, NEW c \in Capture, addRecord(c) PROVE SegmentInv'
<1>1. /\ w[c].pc = "add" /\ ~Refuses(w[c], w[c].todo) /\ w[c].seg # 0
      /\ LastSeq(w[c], w[c].todo) \in {w[c].next, w[c].next + 1}
  BY Accepted, Zenon DEF addRecord, In
<1>2. UNCHANGED <<state, call, key, made, disk, maybe, noReplace, crashes>>
  BY Zenon DEF addRecord
<1>3. CASE Set(c, Failing(w[c], "failed")) /\ UNCHANGED <<data, synced>>
  BY <1>1, <1>2, <1>3, FailOpen, Zenon DEF Set
<1>4. CASE Added(c, w[c], w[c].todo)
  <2> DEFINE me == w[c]
             k == LastSeq(me, me.todo) + 1
             goes == me.goal = "append"
  <2>1. PICK b, rs, d :
          /\ data' = [data EXCEPT ![Seg(c)].recs = rs]
          /\ synced' = [synced EXCEPT ![Seg(c)] = data'[Seg(c)]]
          /\ w' = [w EXCEPT ![c] = [me EXCEPT !.block = b, !.next = k, !.drift = d,
                                     !.todo = StartRecord,
                                     !.nextSeq = IF goes THEN k ELSE @,
                                     !.pc = IF goes THEN "idle" ELSE "close",
                                     !.goal = IF goes THEN "none" ELSE "stopped"]]
    <3> DEFINE old == data[Seg(c)].recs
               all == old \o me.block \o StepBefore(me, me.todo)
                          \o <<Stored(me.todo, LastSeq(me, me.todo))>>
    <3>1. PICK n \in {Len(old), Len(all) - 1, Len(all)} :
            /\ StepBefore(me, me.todo) # <<>> => n >= Len(all) - 1
            /\ me.todo.step /\ me.todo.mono => n = Len(all)
            /\ data' = [data EXCEPT ![Seg(c)].recs = SubSeq(all, 1, n)]
            /\ synced' = [synced EXCEPT ![Seg(c)] = data'[Seg(c)]]
            /\ Set(c, [me EXCEPT !.block = SubSeq(all, n + 1, Len(all)),
                                 !.next = k, !.drift = adoptClockStep(me, me.todo),
                                 !.todo = StartRecord,
                                 !.nextSeq = IF goes THEN k ELSE @,
                                 !.pc = IF goes THEN "idle" ELSE "close",
                                 !.goal = IF goes THEN "none" ELSE "stopped"])
      BY <1>4, Zenon DEF Added
    <3> DEFINE rs0 == SubSeq(all, 1, n)
               b0 == SubSeq(all, n + 1, Len(all))
               d0 == adoptClockStep(me, me.todo)
    <3>2. /\ data' = [data EXCEPT ![Seg(c)].recs = rs0]
          /\ synced' = [synced EXCEPT ![Seg(c)] = data'[Seg(c)]]
          /\ w' = [w EXCEPT ![c] = [me EXCEPT !.block = b0, !.next = k, !.drift = d0,
                                     !.todo = StartRecord,
                                     !.nextSeq = IF goes THEN k ELSE @,
                                     !.pc = IF goes THEN "idle" ELSE "close",
                                     !.goal = IF goes THEN "none" ELSE "stopped"]]
      BY <3>1, Zenon DEF Set
    <3> HIDE DEF rs0, b0, d0, me, k, goes
    <3>. QED BY <3>2, ZenonT(30)
  <2> DEFINE r == [me EXCEPT !.block = b, !.next = k, !.drift = d, !.todo = StartRecord,
                             !.nextSeq = IF goes THEN k ELSE @,
                             !.pc = IF goes THEN "idle" ELSE "close",
                             !.goal = IF goes THEN "none" ELSE "stopped"]
  <2>2. Typed(me) /\ Counted(me) /\ Placed(me) BY Mine, Zenon
  <2>3. k \in Nat /\ me.last <= k
    <3>1. me.last <= me.next + 1 /\ me.next \in Nat /\ me.last \in Nat
      BY <1>1, <2>2 DEF Counted, Typed
    <3>. QED BY <1>1, <3>1
  <2> HIDE DEF k
  <2>4. /\ DOMAIN r = Fields /\ r.next = k /\ r.seg = me.seg /\ r.last = me.last
        /\ r.failure = me.failure
        /\ \/ r.pc = "idle" /\ r.goal = "none" /\ r.nextSeq = k
           \/ r.pc = "close" /\ r.goal = "stopped" /\ r.nextSeq = me.nextSeq
    BY <2>2 DEF Typed, Fields
  <2>5. w' = [w EXCEPT ![c] = r] BY <2>1, Zenon
  <2>6. data' = [data EXCEPT ![Seg(c)] = [data[Seg(c)] EXCEPT !.recs = rs]] BY <2>1
  <2> HIDE DEF me, r
  <2>7. Typed(r) BY <2>2, <2>3, <2>4, Zenon DEF Typed
  <2>8. Placed(r) BY <2>2, <2>4, Zenon DEF Placed, Busy
  <2>9. Counted(r) BY <1>1, <2>2, <2>3, <2>4, Zenon DEF Counted, Busy, me
  <2>10. /\ r.pc \in {"idle", "close", "commit"} /\ r.pc # "commit"
         /\ r.seg = w[c].seg /\ r.last = w[c].last
    BY <2>4 DEF me
  <2>. QED BY <1>1, <1>2, <2>1, <2>5, <2>6, <2>7, <2>8, <2>9, <2>10, WritingWriter, Zenon
<1>5. \/ Set(c, Failing(w[c], "failed")) /\ UNCHANGED <<data, synced>>
      \/ Added(c, w[c], w[c].todo)
  BY <1>1, Zenon DEF addRecord
<1>. QED BY <1>3, <1>4, <1>5

\* closePack writes the rest of the segment.
LEMMA ClosePackStep == ASSUME SegmentInv, NEW c \in Capture, closePack(c) PROVE SegmentInv'
<1>1. /\ w[c].pc = "close"
      /\ UNCHANGED <<state, call, key, made, disk, maybe, noReplace, crashes>>
  BY Zenon DEF closePack, In
<1>2. CASE Set(c, Failing(w[c], "failed")) /\ UNCHANGED <<data, synced>>
  BY <1>1, <1>2, FailOpen, Zenon DEF Set
<1>3. CASE ~(Set(c, Failing(w[c], "failed")) /\ UNCHANGED <<data, synced>>)
  <2> DEFINE r == [w[c] EXCEPT !.pc = "commit", !.block = <<>>]
             x == [recs |-> data[Seg(c)].recs \o flushBlock(w[c]), final |-> TRUE]
  <2>1. /\ data' = [data EXCEPT ![Seg(c)] = x]
        /\ synced' = [synced EXCEPT ![Seg(c)] = data'[Seg(c)]]
        /\ w' = [w EXCEPT ![c] = r]
    BY <1>3, Zenon DEF closePack, Set
  <2>2. Typed(w[c]) /\ Counted(w[c]) /\ Placed(w[c]) BY Mine, Zenon
  <2>3. /\ DOMAIN r = Fields /\ r.pc = "commit" /\ r.goal = w[c].goal /\ r.last = w[c].last
        /\ r.seg = w[c].seg /\ r.nextSeq = w[c].nextSeq /\ r.next = w[c].next
        /\ r.failure = w[c].failure /\ r.todo = w[c].todo /\ r.drift = w[c].drift
        /\ r.anchor = w[c].anchor
    BY <2>2, Zenon DEF Typed, Fields
  <2>4. x.final OBVIOUS
  <2> HIDE DEF r, x
  <2>5. w[c].seg # 0 BY <1>1, <2>2, Zenon DEF Counted, Busy
  <2>6. preflight(w[c], w[c].todo) => preflight(r, r.todo)
    BY <2>3 DEF preflight, anchorInForce
  <2>7. Typed(r) BY <2>2, <2>3, Zenon DEF Typed
  <2>8. Placed(r) BY <1>1, <2>2, <2>3, <2>6, Zenon DEF Placed, Busy
  <2>9. Counted(r) BY <1>1, <2>2, <2>3, Zenon DEF Counted, Busy
  <2>. QED BY <1>1, <2>1, <2>3, <2>4, <2>5, <2>7, <2>8, <2>9, WritingWriter, Zenon
<1>. QED BY <1>2, <1>3

\* The writer calls Commit.
LEMMA CommitCallStep ==
  ASSUME SegmentInv, NEW c \in Capture, commitSegment(c) PROVE SegmentInv'
<1> DEFINE r == [w[c] EXCEPT !.pc = "committing"]
           f == Seg(c)
<1>1. w[c].pc = "commit" /\ CommitCall(f) /\ w' = [w EXCEPT ![c] = r]
  BY Zenon DEF commitSegment, In, Set
<1>2. /\ DOMAIN w = Capture /\ Typed(w[c]) /\ Counted(w[c]) /\ Placed(w[c]) /\ OpenOf(c)
      /\ SinkInv /\ (w[c].seg # 0 => f \in File /\ f = <<c, w[c].last>>)
  BY Mine, Zenon
<1>3. /\ DOMAIN r = Fields /\ r.pc = "committing" /\ r.goal = w[c].goal /\ r.last = w[c].last
      /\ r.seg = w[c].seg /\ r.nextSeq = w[c].nextSeq /\ r.next = w[c].next
      /\ r.failure = w[c].failure /\ r.todo = w[c].todo /\ r.drift = w[c].drift
      /\ r.anchor = w[c].anchor
  BY <1>2, Zenon DEF Typed, Fields
<1>4. w'[c] = r BY <1>1, <1>2
<1>5. w[c].seg # 0 BY <1>1, <1>2, Zenon DEF Counted, Busy
<1>6. f[1] = c BY DEF Seg
<1>7. data[f].final /\ f \notin maybe BY <1>1, <1>2, <1>5, Zenon DEF OpenOf
<1> HIDE DEF r, f
<1>8. /\ SinkInv' /\ UNCHANGED <<maybe, data>>
      /\ state'[f] # "open" /\ \A g \in File : g # f => state'[g] = state[g]
      /\ call'[f] \in {"failed", "sync"} /\ \A g \in File : g # f => call'[g] = call[g]
  BY <1>1, <1>2, <1>5, <1>7, CallSink, Zenon
<1>9. preflight(w[c], w[c].todo) => preflight(r, r.todo)
  BY <1>3 DEF preflight, anchorInForce
<1>10. Typed(r) BY <1>2, <1>3, Zenon DEF Typed
<1>11. Placed(r) BY <1>1, <1>2, <1>3, <1>9, Zenon DEF Placed, Busy
<1>12. Counted(r) BY <1>1, <1>2, <1>3, Zenon DEF Counted, Busy
<1>13. w'[c].pc = "committing" /\ w'[c].last = w[c].last BY <1>3, <1>4, Zenon
<1>14. OpenOf(c)'
  <2>1. ASSUME NEW n \in 1 .. MaxSeq + 1, n > w[c].last
        PROVE  call'[<<c, n>>] = "none" /\ <<c, n>> \notin maybe'
    <3>1. n # w[c].last BY <1>2, <2>1 DEF Typed
    <3>2. <<c, n>> # f BY <1>2, <1>5, <3>1
    <3>3. <<c, n>> \in File BY FileFacts
    <3>. QED BY <1>1, <1>2, <1>8, <2>1, <3>2, <3>3, Zenon DEF OpenOf
  <2>. QED BY <1>13, <2>1, Zenon DEF OpenOf
<1>15. LastOf(c)' BY <1>13, Zenon DEF LastOf
<1>16. \A g \in File : g[1] # c => /\ call'[g] = call[g] /\ data'[g] = data[g]
                                   /\ g \in maybe' => g \in maybe
                                   /\ state'[g] \in {"none", "open"} => state'[g] = state[g]
  BY <1>6, <1>8, Zenon
<1>. QED BY <1>1, <1>8, <1>10, <1>11, <1>12, <1>14, <1>15, <1>16, WriterMoves, Zenon

\* Commit returned nil: the rest of finalize, and the call that wanted it goes on.
LEMMA FinalizeStep == ASSUME SegmentInv, NEW c \in Capture, finalize(c) PROVE SegmentInv'
<1> DEFINE me == Detached(w[c])
<1>1. /\ w[c].pc = "committing" /\ call[Seg(c)] = "ok"
      /\ UNCHANGED <<state, call, key, made, disk, maybe, data, synced, noReplace, crashes>>
  BY Zenon DEF finalize, In, Succeeded, fsVars
<1>2. /\ DOMAIN w = Capture /\ Typed(w[c]) /\ Counted(w[c]) /\ Placed(w[c]) /\ OpenOf(c)
      /\ (w[c].seg # 0 => Seg(c) = <<c, w[c].last>>)
  BY Mine, Zenon
<1>3. /\ w[c].seg # 0 /\ w[c].last <= w[c].next
      /\ w[c].goal \in {"append", "stop", "stopped", "roll", "last"}
      /\ w[c].failure # "refused"
      /\ w[c].goal \in {"append", "stop"} => /\ preflight(w[c], w[c].todo)
                                             /\ w[c].next = w[c].nextSeq
  BY <1>1, <1>2 DEF Counted, Placed, Busy
<1>4. /\ DOMAIN me = Fields /\ me.goal = w[c].goal /\ me.last = w[c].last
      /\ me.seg = 0 /\ me.nextSeq = w[c].next /\ me.next = 0
      /\ me.failure = w[c].failure /\ me.todo = w[c].todo /\ me.anchor = w[c].drift
  BY <1>2, Zenon DEF Detached, Typed, Fields
<1> HIDE DEF me
<1>5. PICK r :
        /\ w' = [w EXCEPT ![c] = r]
        /\ \/ me.goal = "roll" /\ r = [me EXCEPT !.pc = "idle", !.goal = "none"]
           \/ me.goal \in {"append", "stop"} /\ r = [me EXCEPT !.pc = "open"]
           \/ r = [me EXCEPT !.pc = "closed"]
           \/ r = [me EXCEPT !.pc = "failed", !.failure = "seqs"]
           \/ r = Failing(me, "failed")
  <2>1. CASE Set(c, Failing(me, "failed")) BY <2>1, Zenon DEF Set
  <2>2. CASE ~Set(c, Failing(me, "failed"))
    <3>1. Set(c, CASE me.goal = "roll" -> [me EXCEPT !.pc = "idle", !.goal = "none"]
                   [] me.goal \in {"append", "stop"} -> [me EXCEPT !.pc = "open"]
                   [] me.goal = "stopped" -> [me EXCEPT !.pc = "closed"]
                   [] me.goal = "last" -> [me EXCEPT !.pc = "failed", !.failure = "seqs"])
      BY <2>2, Zenon DEF finalize, me
    <3>2. CASE me.goal = "roll" BY <3>1, <3>2, Zenon DEF Set
    <3>3. CASE me.goal \in {"append", "stop"} BY <3>1, <3>3, Zenon DEF Set
    <3>4. CASE me.goal = "stopped" BY <3>1, <3>4, Zenon DEF Set
    <3>5. CASE me.goal = "last" BY <3>1, <3>5, Zenon DEF Set
    <3>. QED BY <1>3, <1>4, <3>2, <3>3, <3>4, <3>5, Zenon
  <2>. QED BY <2>1, <2>2
<1>6. /\ DOMAIN r = Fields /\ r.last = w[c].last /\ r.seg = 0 /\ r.nextSeq = w[c].next
      /\ r.next = 0 /\ r.todo = w[c].todo /\ r.anchor = w[c].drift
      /\ \/ r.pc = "idle" /\ r.goal = "none" /\ r.failure = w[c].failure
         \/ /\ r.pc = "open" /\ r.goal = w[c].goal /\ r.goal \in {"append", "stop"}
            /\ r.failure = w[c].failure
         \/ r.pc = "closed" /\ r.failure = w[c].failure
         \/ r.pc = "failed" /\ r.failure = "seqs"
         \/ r.pc = "fail" /\ r.failure = "failed"
  BY <1>4, <1>5, ZenonT(30) DEF Failing, Fields
<1>7. w'[c] = r BY <1>2, <1>5
<1>8. r.pc = "open" => preflight(r, r.todo)
  <2>1. r.pc = "open" => w[c].goal \in {"append", "stop"} BY <1>6, Zenon
  <2>2. anchorInForce(w[c]) = w[c].drift /\ anchorInForce(r) = w[c].drift
    BY <1>3, <1>6, Zenon DEF anchorInForce
  <2>. QED BY <1>3, <1>6, <2>1, <2>2, Zenon DEF preflight
<1>9. Typed(r)
  <2>1. w[c].next \in Nat /\ w[c].last \in 0 .. MaxSeq + 1 BY <1>2, Zenon DEF Typed
  <2>2. 0 \in Nat OBVIOUS
  <2>. QED BY <1>6, <2>1, <2>2, Zenon DEF Typed
<1>10. Placed(r) BY <1>3, <1>6, <1>8, ZenonT(30) DEF Placed, Busy
<1>11. Counted(r) BY <1>3, <1>6, ZenonT(30) DEF Counted, Busy
<1>12. /\ w'[c].seg = 0 /\ w'[c].last = w[c].last /\ call[<<c, w[c].last>>] = "ok"
       /\ \/ w'[c].pc \in {"idle", "open", "closed"}
          \/ w'[c].pc \in {"fail", "failed"} /\ w'[c].failure # "uncertain"
  BY <1>1, <1>2, <1>3, <1>6, <1>7
<1>13. OpenOf(c)' BY <1>1, <1>2, <1>12, Zenon DEF OpenOf
<1>14. LastOf(c)'
  <2>1. call'[<<c, w'[c].last>>] = "ok" BY <1>1, <1>12, Zenon
  <2>. QED BY <1>12, <2>1 DEF LastOf, Steps
<1>. QED BY <1>1, <1>5, <1>9, <1>10, <1>11, <1>13, <1>14, QuietWriter, Zenon

\* Commit returned an error, which the writer keeps.
LEMMA CommitFailedStep ==
  ASSUME SegmentInv, NEW c \in Capture, commitFailed(c) PROVE SegmentInv'
<1>1. /\ w[c].pc = "committing" /\ call[Seg(c)] \in Outcomes
      /\ w' = [w EXCEPT ![c] = Failing(w[c], call[Seg(c)])]
      /\ UNCHANGED <<state, call, key, made, disk, maybe, data, synced, noReplace, crashes>>
  BY Zenon DEF commitFailed, In, Set, sinkVars, fsVars
<1>2. Counted(w[c]) /\ (w[c].seg # 0 => Seg(c) = <<c, w[c].last>>) /\ Typed(w[c])
  BY Mine, Zenon
<1>3. w[c].seg # 0 /\ w[c].last # 0 BY <1>1, <1>2, Zenon DEF Counted, Busy
<1>4. /\ call[Seg(c)] # "refused" /\ call[<<c, w[c].last>>] = call[Seg(c)]
      /\ call[Seg(c)] \notin Steps
  BY <1>1, <1>2, <1>3 DEF Outcomes, Steps
<1>. QED BY <1>1, <1>3, <1>4, FailStep, Zenon

\* fail aborts the open segment and ends the capture.
LEMMA FailedStep == ASSUME SegmentInv, NEW c \in Capture, fail(c) PROVE SegmentInv'
<1> DEFINE r == [NewWriter EXCEPT !.pc = "failed", !.last = w[c].last,
                                  !.failure = w[c].failure]
<1>1. /\ w[c].pc = "fail" /\ w' = [w EXCEPT ![c] = r]
      /\ IF w[c].seg = 0 THEN UNCHANGED sinkVars ELSE Abort(Seg(c))
  BY Zenon DEF fail, In, Set
<1>2. /\ DOMAIN w = Capture /\ Typed(w[c]) /\ Placed(w[c]) /\ OpenOf(c) /\ LastOf(c)
      /\ SinkInv /\ DOMAIN state = File
  BY Mine, Zenon
<1>3. /\ DOMAIN r = Fields /\ r.pc = "failed" /\ r.last = w[c].last /\ r.seg = 0
      /\ r.nextSeq = 0 /\ r.next = 0 /\ r.failure = w[c].failure
  BY Zenon DEF NewWriter, Fields
<1> HIDE DEF r
<1>4. w'[c] = r BY <1>1, <1>2
<1>5. /\ UNCHANGED <<call, key, made, disk, maybe, data, synced, noReplace, crashes>>
      /\ state' = state \/ state' = [state EXCEPT ![Seg(c)] = "aborted"]
  BY <1>1, Zenon DEF Abort, sinkVars, fsVars
<1>6. SinkInv' BY <1>2, <1>5, KeepSink
<1>7. Typed(r) BY <1>2, <1>3 DEF Typed
<1>8. Placed(r) /\ Counted(r) BY <1>2, <1>3, Zenon DEF Placed, Counted, Busy
<1>9. w'[c].pc = "failed" /\ w'[c].last = w[c].last /\ w'[c].failure = w[c].failure
  BY <1>3, <1>4, Zenon
<1>10. OpenOf(c)' BY <1>1, <1>2, <1>5, <1>9, Zenon DEF OpenOf
<1>11. LastOf(c)' BY <1>1, <1>2, <1>5, <1>9, Zenon DEF LastOf
<1>12. \A g \in File : g[1] # c => /\ call'[g] = call[g] /\ data'[g] = data[g]
                                   /\ g \in maybe' => g \in maybe
                                   /\ state'[g] \in {"none", "open"} => state'[g] = state[g]
  BY <1>2, <1>5
<1>. QED BY <1>1, <1>6, <1>7, <1>8, <1>10, <1>11, <1>12, WriterMoves, Zenon

-----------------------------------------------------------------------------
(* The theorems.                                                             *)

\* The writers and the sink start with nothing.
LEMMA InitInv == ASSUME Init PROVE SegmentInv
<1>1. /\ state = [f \in File |-> "none"] /\ call = [f \in File |-> "none"]
      /\ key = {} /\ made = {} /\ maybe = {} /\ disk = [key |-> {}, made |-> {}]
      /\ data = [f \in File |-> NoBytes] /\ synced = [f \in File |-> NoBytes] /\ crashes = 0
      /\ w = [c \in Capture |-> NewWriter]
  BY DEF Init, SinkInit
<1>2. SinkShape BY <1>1 DEF SinkShape
<1>3. KeyInv BY <1>1 DEF KeyInv
<1>4. CommitInv /\ ToldInv BY <1>1 DEF CommitInv, ToldInv, Steps, Published
<1>5. /\ DOMAIN NewWriter = Fields /\ NewWriter.pc = "new" /\ NewWriter.last = 0
      /\ NewWriter.seg = 0 /\ NewWriter.nextSeq = 0 /\ NewWriter.next = 0
      /\ NewWriter.failure = "none"
  BY DEF NewWriter, Fields
<1>6. Typed(NewWriter) BY <1>5, SinkAssumption DEF Typed
<1>7. Placed(NewWriter) /\ Counted(NewWriter) BY <1>5 DEF Placed, Counted, Busy
<1>8. \A c \in Capture : w[c] = NewWriter BY <1>1
<1>9. Shape /\ WriterInv BY <1>1, <1>6, <1>7, <1>8, Zenon DEF Shape, WriterInv
<1>10. \A f \in File : call[f] = "none" /\ state[f] = "none" BY <1>1
<1>11. ConverterInv BY <1>1, <1>10, FileFacts DEF ConverterInv
<1>12. ASSUME NEW c \in Capture PROVE OpenOf(c) /\ LastOf(c)
  <2>1. w[c].pc = "new" BY <1>5, <1>8
  <2>. QED BY <1>1, <1>10, <2>1, FileFacts DEF OpenOf, LastOf
<1>. QED BY <1>2, <1>3, <1>4, <1>9, <1>11, <1>12 DEF SegmentInv, SinkInv, FileInv

\* Every step of a writer, of the converter, of the sink and of the machine keeps it.
LEMMA StepInv == ASSUME SegmentInv, [Next]_vars PROVE SegmentInv'
<1>1. ASSUME NEW c \in Capture,
             \/ NewSegmentWriter(c) \/ AppendRecord(c) \/ roll(c) \/ closeCapture(c)
             \/ open(c) \/ addRecord(c) \/ closePack(c) \/ commitSegment(c)
             \/ finalize(c) \/ commitFailed(c) \/ fail(c)
      PROVE  SegmentInv'
  BY <1>1, NewStep, IdleStep, OpenStep, AddStep, ClosePackStep, CommitCallStep, FinalizeStep,
     CommitFailedStep, FailedStep, Zenon
<1>2. CASE UNCHANGED vars
  <2>1. UNCHANGED <<state, call, key, made, disk, maybe, data, synced, noReplace, crashes, w>>
    BY <1>2 DEF vars, sinkVars, fsVars
  <2>2. SinkInv' BY <2>1, KeepSink DEF SegmentInv, SinkInv, SinkShape
  <2>3. ConverterInv' BY <2>1 DEF SegmentInv, FileInv, ConverterInv
  <2>. QED BY <2>1, <2>2, <2>3, NotWriter
<1>. QED BY <1>1, <1>2, ConverterStep, CommitStepInv, CloseStep, CrashInv, Zenon DEF Next

\* tracepack: in every reachable state the invariant holds, for any number of
\* captures, converter runs, seqs, faults and crashes.
THEOREM SegmentInvariance == Spec => []SegmentInv
<1>1. Init => SegmentInv BY InitInv
<1>2. SegmentInv /\ [Next]_vars => SegmentInv' BY StepInv
<1>. QED BY <1>1, <1>2, PTL DEF Spec

\* Commit and syncDirs: a segment whose Commit returned nil stays at its key, whole,
\* through every later step and every crash, unless a sink that replaces files was given
\* another of its name.
THEOREM CommittedStays == Spec => []CommittedKept
<1>1. ASSUME SegmentInv PROVE CommittedKept
  <2>1. SUFFICES ASSUME NEW f \in File, call[f] = "ok"
                 PROVE  \E g \in Same(f) \cap key : (noReplace => g = f) /\ data[g].final
    BY DEF CommittedKept
  <2>2. SinkShape /\ KeyInv /\ CommitInv BY <1>1 DEF SegmentInv, SinkInv
  <2>3. /\ Same(f) \cap key # {} /\ (noReplace => f \in key) /\ key \subseteq maybe
        /\ f \in Same(f)
    BY <2>1, <2>2, FileFacts DEF CommitInv, Published, SinkShape
  <2>. QED BY <2>2, <2>3 DEF KeyInv
<1>. QED BY <1>1, SegmentInvariance, PTL

\* ErrPublishUncertain: as long as the machine has not crashed, the failure of a recorder
\* wraps ErrPublishUncertain exactly when its last segment was published by a Commit that
\* did not return nil.
THEOREM FailureTells == Spec => []FailureTold
<1>1. ASSUME SegmentInv PROVE FailureTold
  <2>1. SUFFICES ASSUME NEW c \in Capture, w[c].pc = "failed", crashes = 0,
                        w[c].last # 0 \/ w[c].failure = "uncertain"
                 PROVE  w[c].failure = "uncertain" <=>
                          /\ w[c].last # 0 /\ <<c, w[c].last>> \in key
                          /\ call[<<c, w[c].last>>] # "ok"
    BY DEF FailureTold
  <2>2. LastOf(c) /\ (w[c].last # 0 => <<c, w[c].last>> \in File) BY <1>1, Mine, Zenon
  <2>3. /\ w[c].failure = "uncertain" <=>
             w[c].last # 0 /\ call[<<c, w[c].last>>] = "uncertain"
        /\ w[c].last # 0 => call[<<c, w[c].last>>] \notin Steps
    BY <2>1, <2>2, Zenon DEF LastOf
  <2>4. w[c].last # 0 =>
          (<<c, w[c].last>> \in key <=>
             call[<<c, w[c].last>>] \in Published \cup {"uncertain"})
    BY <1>1, <2>1, <2>2 DEF SegmentInv, SinkInv, ToldInv
  <2>. QED BY <2>1, <2>3, <2>4 DEF Published, Steps
<1>. QED BY <1>1, SegmentInvariance, PTL

\* preflight and place: the Writer refuses no record that they let through.
THEOREM NoneRefusedLate == Spec => []NothingRefusedLate
<1>1. ASSUME SegmentInv PROVE NothingRefusedLate
  BY <1>1, Zenon DEF SegmentInv, WriterInv, Placed, NothingRefusedLate
<1>. QED BY <1>1, SegmentInvariance, PTL
=============================================================================
