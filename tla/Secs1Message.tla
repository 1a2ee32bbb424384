---------------------------- MODULE Secs1Message ----------------------------
(***************************************************************************)
(* SECS-I messages as blocks (secs1/block.go, message.go, adapter.go): how *)
(* the sender splits a body and how the receiver puts it together again.   *)
(* A body is its length; a block carries the chunk [off, off + n).         *)
(***************************************************************************)
EXTENDS Naturals, Sequences, FiniteSets

CONSTANTS
  Msg,        \* message headers: stream, function, W-bit and System Bytes
  BodyLen,    \* body length of each message
  BlockMax,   \* maxBlockBodySize
  NumMax      \* maxBlockNumber

ASSUME MessageAssumption ==
  /\ BodyLen \in [Msg -> Nat]
  /\ BlockMax \in Nat \ {0} /\ NumMax \in Nat \ {0}

\* The 10-byte header: device and direction (is it ours to take), the
\* message's invariant fields, block number and E-bit.
Header == [dev : {"ours", "other"}, dir : {"toUs", "away"}, msg : Msg,
           num : 0 .. NumMax, last : BOOLEAN]
Block == [hdr : Header, off : Nat, n : 0 .. BlockMax]

\* block.messageHeader: the fields every block of a message shares.
MessageHeader(b) == <<b.hdr.dev, b.hdr.dir, b.hdr.msg>>

SmallerOf(a, b) == IF a < b THEN a ELSE b

\* splitBody: at most NumMax blocks of at most BlockMax bytes, the E-bit on the
\* last; an empty body is one header-only block.
TooLarge(m) == BodyLen[m] > BlockMax * NumMax

BlockCount(m) == IF BodyLen[m] = 0 THEN 1
                 ELSE (BodyLen[m] + BlockMax - 1) \div BlockMax

Chunk(m, i) == SmallerOf(BlockMax, BodyLen[m] - (i - 1) * BlockMax)

BlockOf(m, i) ==
  [hdr |-> [dev |-> "ours", dir |-> "toUs", msg |-> m, num |-> i,
            last |-> i = BlockCount(m)],
   off |-> (i - 1) * BlockMax,
   n   |-> Chunk(m, i)]

\* assembleFrame: numbers 1..N (a lone block may be numbered 0), the E-bit on
\* the last block only, one message header throughout.
Assembles(bs) ==
  LET zero == Len(bs) = 1 /\ bs[1].hdr.num = 0
  IN /\ bs # <<>>
     /\ \A i \in 1 .. Len(bs) :
          /\ bs[i].hdr.num = (IF zero THEN 0 ELSE i)
          /\ bs[i].hdr.last = (i = Len(bs))
          /\ MessageHeader(bs[i]) = MessageHeader(bs[1])

\* The frame it builds: the message, and the body as the chunks in order.
Frame(bs) == [msg |-> bs[1].hdr.msg,
              body |-> [i \in 1 .. Len(bs) |-> <<bs[i].off, bs[i].n>>]]

\* The body of a frame is the whole body of its message, each byte once and in
\* its place.
WholeBody(f) ==
  /\ \A i \in 1 .. Len(f.body) :
       f.body[i][1] = (IF i = 1 THEN 0 ELSE f.body[i - 1][1] + f.body[i - 1][2])
  /\ LET k == f.body[Len(f.body)] IN k[1] + k[2] = BodyLen[f.msg]
=============================================================================
