--------------------------- MODULE Secs1Assembler ---------------------------
(***************************************************************************)
(* secs1/assembler.go: the inbound block accumulator of one generation, fed *)
(* by a peer that splits its messages with splitBody, repeats a block whose *)
(* ACK it missed, and may give a message up half way; or by a wild peer     *)
(* that sends any block at all.                                             *)
(***************************************************************************)
EXTENDS Secs1Message

CONSTANTS
  Order,      \* the messages the peer sends, in order
  Equip,      \* our role: only equipment answers a violation (S9F1, S9F7)
  MaxFrames,  \* bound: frames delivered to the core
  MaxWild     \* bound: frames of a wild peer

ASSUME AssemblerAssumption ==
  /\ Order \in Seq(Msg) /\ Len(Order) > 0
  /\ Equip \in BOOLEAN /\ MaxFrames \in Nat \ {0} /\ MaxWild \in Nat

VARIABLES
  open, header, blocks, expected,   \* the partial message
  lastHeader,                       \* duplicate detection; <<>> is !haveLast
  late,                             \* more than T4 since the last block
  frames,                           \* frames handed to deliverFrame
  asmErr,                           \* assembleFrame refused a completed message
  notices,                          \* violations reported for the last block
  wild,                             \* the peer sends any block
  at, next, prev,                   \* the peer: message, block, last block sent
  clean,                            \* no T4 gap in the message being sent
  due                               \* messages the peer got through cleanly

asmVars == <<open, header, blocks, expected, lastHeader, late, frames, asmErr, notices>>
vars == <<asmVars, wild, at, next, prev, clean, due>>

\* Every variable of the assembler and its peer has its type.
TypeOK ==
  /\ open \in BOOLEAN /\ header \in {<<>>} \cup ({"ours", "other"} \X {"toUs", "away"} \X Msg)
  /\ blocks \in Seq(Block) /\ expected \in 0 .. NumMax + 1
  /\ lastHeader \in Header \cup {<<>>} /\ late \in BOOLEAN
  /\ Len(frames) <= MaxFrames /\ asmErr \in BOOLEAN /\ notices \in Nat
  /\ wild \in BOOLEAN /\ at \in 1 .. Len(Order) + 1 /\ next \in 1 .. NumMax + 1
  /\ prev \in {<<>>} \cup Block /\ clean \in BOOLEAN
  /\ \A i \in 1 .. Len(due) : due[i] \in Msg

Init ==
  /\ open = FALSE /\ header = <<>> /\ blocks = <<>> /\ expected = 0
  /\ lastHeader = <<>> /\ late = FALSE /\ frames = <<>> /\ asmErr = FALSE
  /\ notices = 0 /\ wild \in BOOLEAN
  /\ at = 1 /\ next = 1 /\ prev = <<>> /\ clean = TRUE /\ due = <<>>

-----------------------------------------------------------------------------
(* accept and its parts. *)

\* notifyAssemblerViolation: equipment answers, a host stays silent.
Report == IF Equip THEN 1 ELSE 0

Reset == open' = FALSE /\ header' = <<>> /\ blocks' = <<>> /\ expected' = 0
\* startMessage and appendBlock both record the block, and on the E-bit
\* complete: assemble, reset, deliver.
Take(b, bs) ==
  /\ lastHeader' = b.hdr
  /\ IF b.hdr.last
     THEN /\ Reset
          /\ asmErr' = (asmErr \/ ~Assembles(bs))
          /\ frames' = IF Assembles(bs) THEN Append(frames, Frame(bs)) ELSE frames
     ELSE /\ open' = TRUE /\ header' = MessageHeader(b) /\ blocks' = bs
          /\ expected' = b.hdr.num + 1
          /\ UNCHANGED <<asmErr, frames>>

ValidFirst(b) == b.hdr.num = 1 \/ (b.hdr.num = 0 /\ b.hdr.last)

StartMessage(b, reported) ==
  IF ValidFirst(b)
  THEN Take(b, <<b>>) /\ notices' = reported
  ELSE /\ Reset
       /\ notices' = IF reported > 0 THEN reported ELSE Report
       /\ UNCHANGED <<lastHeader, frames, asmErr>>

\* Faulty variants: only a block of the open message can be a duplicate; the
\* number alone decides that a block continues it.
DuplicateOpen(b) == open /\ b.hdr = lastHeader
Duplicate(b) == b.hdr = lastHeader
ContinuesNumber(b) == b.hdr.num = expected
Continues(b) == b.hdr.num = expected /\ MessageHeader(b) = header

TimedOut == open /\ late

\* The steps of accept after the device and direction checks, on the partial
\* that the T4 check left.
AcceptOurs(b) ==
  /\ late' = IF TimedOut \/ ~Duplicate(b) THEN FALSE ELSE late
  /\ IF Duplicate(b)
     THEN /\ IF TimedOut THEN Reset ELSE UNCHANGED <<open, header, blocks, expected>>
          /\ notices' = 0
          /\ UNCHANGED <<lastHeader, frames, asmErr>>
     ELSE IF open /\ ~TimedOut
     THEN IF Continues(b)
          THEN Take(b, Append(blocks, b)) /\ notices' = 0
          ELSE StartMessage(b, Report)
     ELSE StartMessage(b, 0)

Accept(b) ==
  /\ Len(frames) < IF wild THEN MaxWild ELSE MaxFrames
  /\ IF b.hdr.dev = "other" \/ b.hdr.dir = "away"
     THEN /\ notices' = IF b.hdr.dev = "other" THEN Report ELSE 0
          /\ UNCHANGED <<open, header, blocks, expected, lastHeader, late, frames, asmErr>>
     ELSE AcceptOurs(b)

\* More than T4 passes on an open partial.
T4Passes == open /\ ~late /\ late' = TRUE
            /\ UNCHANGED <<open, header, blocks, expected, lastHeader, frames, asmErr,
                           notices, wild, at, next, prev, due>>
            /\ clean' = FALSE

-----------------------------------------------------------------------------
(* The peer. *)

\* An interoperating peer may number a lone block 0.
Outgoing(zero) ==
  LET b == BlockOf(Order[at], next)
  IN IF zero /\ b.hdr.last /\ next = 1 THEN [b EXCEPT !.hdr.num = 0] ELSE b

\* splitFrame refuses a message that needs too many blocks.
PeerRefuses ==
  /\ ~wild /\ at <= Len(Order) /\ TooLarge(Order[at])
  /\ at' = at + 1
  /\ UNCHANGED <<asmVars, wild, next, prev, clean, due>>

PeerSends(zero) ==
  /\ ~wild /\ at <= Len(Order) /\ ~TooLarge(Order[at])
  /\ LET b == Outgoing(zero)
         whole == clean \/ next = 1
     IN /\ Accept(b)
        /\ prev' = b
        /\ IF b.hdr.last
           THEN /\ at' = at + 1 /\ next' = 1 /\ clean' = TRUE
                /\ due' = IF whole THEN Append(due, Order[at]) ELSE due
           ELSE /\ next' = next + 1 /\ clean' = whole
                /\ UNCHANGED <<at, due>>
  /\ UNCHANGED wild

\* The ACK of the last block was lost.
PeerRepeats == /\ prev # <<>> /\ Accept(prev)
               /\ UNCHANGED <<wild, at, next, prev, clean, due>>

\* The send of the next block failed for good; the message is given up.
PeerGivesUp == /\ ~wild /\ at <= Len(Order) /\ next > 1
               /\ at' = at + 1 /\ next' = 1 /\ clean' = TRUE
               /\ UNCHANGED <<asmVars, wild, prev, due>>

\* A block that is not for us: another device, or the wrong direction.
Stray(b) == /\ ~wild
            /\ b.hdr.dev = "other" \/ b.hdr.dir = "away"
            /\ Accept(b)
            /\ UNCHANGED <<wild, at, next, prev, clean, due>>

Blocks == {[hdr |-> h, off |-> 0, n |-> 0] : h \in Header}

WildBlock(b) == /\ wild /\ Accept(b)
                /\ UNCHANGED <<wild, at, next, prev, clean, due>>

Next ==
  \/ T4Passes \/ PeerRefuses \/ PeerRepeats \/ PeerGivesUp
  \/ \E zero \in BOOLEAN : PeerSends(zero)
  \/ \E b \in Blocks : Stray(b) \/ WildBlock(b)

Spec == Init /\ [][Next]_vars

-----------------------------------------------------------------------------
(* Properties. *)

\* A peer's message that came through without a T4 gap is delivered to the core
\* exactly once, in order and with its whole body (assembleFrame undoes
\* splitBody), whatever was repeated, given up or stray.
DeliveredOnce == ~wild =>
  /\ Len(frames) = Len(due)
  /\ \A i \in 1 .. Len(due) : frames[i].msg = due[i] /\ WholeBody(frames[i])

\* accept accumulates only a prefix of one message: blocks 1, 2, ... with one
\* header and no E-bit. What it accumulated complete never refuses, so no
\* acknowledged message is lost there, whatever blocks came.
PartialIsPrefix ==
  /\ ~asmErr
  /\ open => /\ expected = Len(blocks) + 1
             /\ \A i \in 1 .. Len(blocks) :
                  /\ blocks[i].hdr.num = i /\ ~blocks[i].hdr.last
                  /\ MessageHeader(blocks[i]) = header
=============================================================================
