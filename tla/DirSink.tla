------------------------------ MODULE DirSink ------------------------------
(***************************************************************************)
(* tracepack/dir_sink.go: the directory that stores the segments of trace   *)
(* captures.  A segment is written to a temporary file under .partial, and  *)
(* Commit publishes it at its key: sync, rename (or, with NoReplace, link   *)
(* and remove), then a sync of every directory from the key's up to the     *)
(* root.  Every call may fail, the context may end between two of them, and *)
(* the machine may crash anywhere.                                          *)
(*                                                                          *)
(* The file system is external.  A file is known by its segment.  An entry  *)
(* of a directory is visible as soon as it is made, and sure to survive a   *)
(* crash only once its directory was synced; of a file's content, what was  *)
(* synced survives.  A key's directories are the capture's, the one above   *)
(* it (standing for the prefix, the area and the equipment) and the root.   *)
(***************************************************************************)
EXTENDS Naturals, Sequences, FiniteSets

CONSTANTS
    Capture,       \* the captures recorded, each the name of its directory
    Converter,     \* runs of a converter that writes one segment, with one pack_id
    Imported,      \* the directory of that segment
    Area,          \* the directory above these
    MaxSeq,        \* the last seq of a capture (2^63 - 1), so a bound on its segments
    MaxFaults,     \* bound: failing calls and ended contexts
    MaxCrashes     \* bound: crashes of the machine

ASSUME SinkAssumption ==
    /\ Capture \cap Converter = {} /\ Area \notin Capture \cup {Imported}
    /\ MaxSeq \in Nat /\ MaxFaults \in Nat /\ MaxCrashes \in Nat

\* A segment, by its writer and its number.
File == (Capture \X (1 .. MaxSeq + 1)) \cup (Converter \X {0})
DirOf(f) == IF f[1] \in Capture THEN f[1] ELSE Imported
\* The segments with one name: every run of the converter writes the same.
Same(f) == IF f[1] \in Capture THEN {f} ELSE Converter \X {0}

VARIABLES
    noReplace,     \* DirSinkOptions.NoReplace
    closed,        \* DirSink.closed
    state,         \* dirSegment.state of each segment, "none" before Create
    call,          \* where each segment's Commit is, or how it ended (kept over a crash)
    temp,          \* the segments with an entry in .partial
    key,           \* the segments with an entry at their key
    made,          \* the directories below the root
    disk,          \* [key, made]: the entries sure to be on the disk
    maybe,         \* the entries at keys that may be on the disk
    data,          \* the content of each file
    synced,        \* the content of each file that is on the disk
    faults, crashes

fsVars == <<temp, key, made, disk, maybe, data, synced>>
sinkVars == <<noReplace, closed, state, call, faults, crashes, fsVars>>

Finished == {"published", "refused", "aborted"}
\* The calls of Commit.
Steps == {"sync", "mkdir", "publish", "refuse", "remove", "keydir", "area", "root"}
\* How Commit ended: nil, an error with nothing published, an error that wraps
\* ErrPublishUncertain, ErrSegmentExists or ErrSegmentConflict.
Outcomes == {"ok", "failed", "uncertain", "exists", "conflict"}
NoBytes == [recs |-> <<>>, final |-> FALSE]

SinkInit ==
    /\ noReplace \in BOOLEAN /\ closed = FALSE
    /\ state = [f \in File |-> "none"] /\ call = [f \in File |-> "none"]
    /\ temp = {} /\ key = {} /\ made = {} /\ maybe = {}
    /\ disk = [key |-> {}, made |-> {}]
    /\ data = [f \in File |-> NoBytes] /\ synced = [f \in File |-> NoBytes]
    /\ faults = 0 /\ crashes = 0

\* A call returns an error, or the context is found done.
Fault == faults < MaxFaults /\ faults' = faults + 1
InDir(S, d) == {f \in S : DirOf(f) = d}

(***************************************************************************)
(* Create, Abort and Close                                                  *)
(***************************************************************************)
CanCreate(f) == ~closed /\ Same(f) \cap temp = {}

Create(f) ==
    /\ CanCreate(f)
    /\ state' = [state EXCEPT ![f] = "open"]
    /\ temp' = temp \cup {f}
    /\ UNCHANGED <<noReplace, closed, call, key, made, disk, maybe, crashes>>

\* Abort does nothing to a finished segment; of another it removes the
\* temporary file, unless the sink is closed or the removal fails.
Abort(f) ==
    /\ \/ state[f] \in Finished /\ UNCHANGED <<state, temp>>
       \/ /\ state[f] \notin Finished
          /\ state' = [state EXCEPT ![f] = "aborted"]
          /\ \/ UNCHANGED temp
             \/ ~closed /\ temp' = temp \ {f}
    /\ UNCHANGED <<noReplace, closed, call, key, made, disk, maybe, data, synced, faults, crashes>>

\* Close takes the lock every Create, Commit and Abort in progress shares.
Close ==
    /\ ~closed /\ \A f \in File : call[f] \notin Steps
    /\ closed' = TRUE
    /\ UNCHANGED <<noReplace, state, call, faults, crashes, fsVars>>

(***************************************************************************)
(* Commit, one action for each call it makes                                *)
(***************************************************************************)
At(f, pc) == call[f] = pc
Goto(f, pc) == call' = [call EXCEPT ![f] = pc]
Quiet == UNCHANGED <<noReplace, closed, crashes>>

\* A step ends Commit with an error and changes nothing else.
Fails(f, pc, outcome) ==
    /\ At(f, pc) /\ Fault /\ Goto(f, outcome)
    /\ UNCHANGED <<state, fsVars>> /\ Quiet

CommitCall(f) ==
    /\ state[f] = "open"
    /\ state' = [state EXCEPT ![f] = "committing"]
    /\ \/ closed /\ Goto(f, "failed") /\ UNCHANGED faults
       \/ Fault /\ Goto(f, "failed")
       \/ ~closed /\ Goto(f, "sync") /\ UNCHANGED faults
    /\ UNCHANGED fsVars /\ Quiet

CommitSync(f) ==
    \/ /\ At(f, "sync") /\ Goto(f, "mkdir")
       /\ synced' = [synced EXCEPT ![f] = data[f]]
       /\ UNCHANGED <<state, faults, temp, key, made, disk, maybe, data>> /\ Quiet
    \/ Fails(f, "sync", "failed")

CommitMkdir(f) ==
    \/ /\ At(f, "mkdir") /\ Goto(f, "publish")
       /\ made' = made \cup {Area, DirOf(f)}
       /\ UNCHANGED <<state, faults, temp, key, disk, maybe, data, synced>> /\ Quiet
    \/ Fails(f, "mkdir", "failed")

\* The rename moves the entry and replaces a file at the key.
Rename(f) ==
    /\ key' = (key \ Same(f)) \cup {f} /\ temp' = temp \ {f} /\ maybe' = maybe \cup {f}
    /\ state' = [state EXCEPT ![f] = "published"]
    /\ Goto(f, "keydir")

\* commitLink: the link fails on a key that exists.
Link(f) ==
    IF Same(f) \cap key = {}
    THEN /\ key' = key \cup {f} /\ maybe' = maybe \cup {f} /\ UNCHANGED temp
         /\ state' = [state EXCEPT ![f] = "published"]
         /\ Goto(f, "remove")
    ELSE Goto(f, "refuse") /\ UNCHANGED <<key, maybe, temp, state>>

CommitPublish(f) ==
    \/ /\ At(f, "publish")
       /\ IF noReplace THEN Link(f) ELSE Rename(f)
       /\ UNCHANGED <<faults, made, disk, data, synced>> /\ Quiet
    \/ Fails(f, "publish", "failed")

\* refuse: compares the two files and removes the temporary one.  When the
\* removal fails the segment stays abortable.
CommitRefuse(f) ==
    \/ /\ At(f, "refuse")
       /\ LET g == CHOOSE g \in Same(f) \cap key : TRUE
          IN  Goto(f, IF data[g] = data[f] THEN "exists" ELSE "conflict")
       /\ \/ temp' = temp \ {f} /\ state' = [state EXCEPT ![f] = "refused"] /\ UNCHANGED faults
          \/ Fault /\ UNCHANGED <<temp, state>>
       /\ UNCHANGED <<key, made, disk, maybe, data, synced>> /\ Quiet
    \/ Fails(f, "refuse", "failed")

\* A failed removal is remembered, by the entry it leaves, until the
\* directories are synced.
CommitRemove(f) ==
    /\ At(f, "remove") /\ Goto(f, "keydir")
    /\ \/ temp' = temp \ {f} /\ UNCHANGED faults
       \/ Fault /\ UNCHANGED temp
    /\ UNCHANGED <<state, key, made, disk, maybe, data, synced>> /\ Quiet

\* syncDirs, deepest directory first.
\* Faulty variant: a failed sync is an error like any other.
SyncKeyDirPlain(f) ==
    LET d == DirOf(f) IN
    \/ /\ At(f, "keydir") /\ Goto(f, "area")
       /\ disk' = [disk EXCEPT !.key = (@ \ InDir(@, d)) \cup InDir(key, d)]
       /\ maybe' = (maybe \ InDir(maybe, d)) \cup InDir(key, d)
       /\ UNCHANGED <<state, faults, temp, key, made, data, synced>> /\ Quiet
    \/ Fails(f, "keydir", "failed")
SyncKeyDir(f) ==
    LET d == DirOf(f) IN
    \/ /\ At(f, "keydir") /\ Goto(f, "area")
       /\ disk' = [disk EXCEPT !.key = (@ \ InDir(@, d)) \cup InDir(key, d)]
       /\ maybe' = (maybe \ InDir(maybe, d)) \cup InDir(key, d)
       /\ UNCHANGED <<state, faults, temp, key, made, data, synced>> /\ Quiet
    \/ Fails(f, "keydir", "uncertain")

\* Faulty variant: only the key's own directory and the root are synced.
SyncAreaSkipped(f) ==
    /\ At(f, "area") /\ Goto(f, "root")
    /\ UNCHANGED <<state, faults, fsVars>> /\ Quiet

SyncArea(f) ==
    \/ /\ At(f, "area") /\ Goto(f, "root")
       /\ disk' = [disk EXCEPT !.made = @ \cup (made \ {Area})]
       /\ UNCHANGED <<state, faults, temp, key, made, maybe, data, synced>> /\ Quiet
    \/ Fails(f, "area", "uncertain")

SyncRoot(f) ==
    \/ /\ At(f, "root")
       /\ Goto(f, IF f \in temp THEN "uncertain" ELSE "ok")
       /\ disk' = [disk EXCEPT !.made = @ \cup (made \cap {Area})]
       /\ UNCHANGED <<state, faults, temp, key, made, maybe, data, synced>> /\ Quiet
    \/ Fails(f, "root", "uncertain")

syncDirs(f) == SyncKeyDir(f) \/ SyncArea(f) \/ SyncRoot(f)

Commit(f) ==
    CommitSync(f) \/ CommitMkdir(f) \/ CommitPublish(f) \/ CommitRefuse(f)
    \/ CommitRemove(f) \/ syncDirs(f)

(***************************************************************************)
(* A crash keeps what is on the disk and any part of the rest.  What lies   *)
(* below a lost directory is lost.  The next process opens the sink anew.   *)
(* A temporary file may be left; one of a recorder, whose pack_id was its   *)
(* own, is never met again and is forgotten.                                *)
(***************************************************************************)
Reached(K, M) == {f \in K : {Area, DirOf(f)} \subseteq M}

CrashFS ==
    /\ crashes < MaxCrashes /\ crashes' = crashes + 1
    /\ \E M \in SUBSET made, K \in SUBSET maybe :
        /\ disk.made \subseteq M
        /\ \A f \in disk.key : Same(f) \cap K # {}
        /\ \A f \in K : Same(f) \cap K = {f}
        /\ made' = (IF Area \in M THEN M ELSE {})
        /\ key' = Reached(K, M)
    /\ maybe' = key' /\ disk' = [key |-> key', made |-> made']
    /\ temp' \in SUBSET {f \in Converter \X {0} : state[f] # "none"}
    /\ data' \in {[f \in File |-> IF f \in key' THEN c[f] ELSE NoBytes] : c \in {data, synced}}
    /\ synced' = data'
    /\ state' = [f \in File |-> IF state[f] = "none" THEN "none" ELSE "lost"]
    /\ call' = [f \in File |-> IF call[f] \in Steps THEN "none" ELSE call[f]]
    /\ closed' = FALSE
    /\ UNCHANGED <<noReplace, faults>>
=============================================================================
