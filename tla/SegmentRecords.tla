-------------------------- MODULE SegmentRecords ---------------------------
(***************************************************************************)
(* What a reader of a SegmentWriter's capture finds: the records of the     *)
(* segments at their keys, one segment after another.                       *)
(***************************************************************************)
EXTENDS SegmentWriter, SequencesExt

SegmentsOf(c) == SetToSortSeq({n \in 1 .. MaxSeq + 1 : <<c, n>> \in key}, <)
RecordsOf(c) ==
    FlattenSeq([i \in DOMAIN SegmentsOf(c) |-> data[<<c, SegmentsOf(c)[i]>>].recs])

\* finalize commits a segment before the next is opened, and fail ends the capture:
\* what is stored of a capture is its beginning, in whole segments; no record is missing
\* before one that is there and none is there twice, whatever failed and whenever the
\* machine crashed.
StoredIsPrefix ==
    \A c \in Capture :
        /\ \A f \in key : DirOf(f) = c => data[f].final
        /\ \A i \in DOMAIN RecordsOf(c) : RecordsOf(c)[i].seq = i - 1

\* The clock that explains record i of rs: that of the last clock-step record before it.
AnchorAt(rs, i) ==
    LET steps == {j \in 1 .. i - 1 : rs[j].step /\ rs[j].mono}
    IN  IF steps = {} THEN 0 ELSE rs[CHOOSE j \in steps : \A k \in steps : k <= j].skew

\* writeClockStep, adoptClockStep and the anchor that finalize hands on: every stored
\* record with a monotonic reading is within the tolerance of the last
\* clock-step record stored before it, in its segment or in an earlier one.
StepsStored ==
    \A c \in Capture : \A i \in DOMAIN RecordsOf(c) :
        ~clockDrift(RecordsOf(c)[i], AnchorAt(RecordsOf(c), i))
=============================================================================
