------------------------------ MODULE Secs1Line ------------------------------
(***************************************************************************)
(* secs1/line.go and transport.lineEngine: the half-duplex SECS-I block    *)
(* transfer between two stations that run this code, one as equipment      *)
(* (master), one as host (slave), over a line that may garble or lose      *)
(* characters. A block is one character of the model that the receiver     *)
(* reads as a whole; read by anyone else it is a run of arbitrary bytes.   *)
(***************************************************************************)
EXTENDS Naturals, Sequences, FiniteSets

CONSTANTS
  ToSend,      \* blocks each station has to send
  RetryLimit,  \* RTY
  MaxNoise,    \* bound: characters garbled or lost
  MaxEarly     \* bound: timers that run out on a slow peer, on a line without noise

Station == {"equip", "host"}
Peer(s) == IF s = "equip" THEN "host" ELSE "equip"

ASSUME LineAssumption ==
  /\ ToSend \in [Station -> Nat] /\ RetryLimit \in Nat /\ MaxNoise \in Nat
  /\ MaxEarly \in Nat

Control == {"ENQ", "EOT", "ACK", "NAK"}
\* "BLK" is a whole block, "BAD" one whose checksum fails, "JUNK" what is left
\* of one that was read out of step.
Char == [c : Control \cup {"BLK", "BAD", "JUNK"}, k : Nat]
Ctl(c) == [c |-> c, k |-> 0]
Junk == Ctl("JUNK")
Bytes == {"BLK", "BAD", "JUNK"}

VARIABLES
  pc,     \* where the station's line engine is
  wire,   \* characters on their way to the station
  retry,  \* sendBlock's counter
  yield,  \* receiveBlock was called from sendBlock's contention branch
  sent,   \* blocks whose sendBlock returned nil
  got,    \* blocks handed to the sink
  older,  \* the station whose T2 was armed first
  noise,  \* characters garbled or lost so far
  early   \* timers so far that ran out on an answer still to come

vars == <<pc, wire, retry, yield, sent, got, older, noise, early>>

PC == {"idle", "eot", "ack", "len", "data", "drain", "handler", "failed"}

\* Every variable has its type; the retry counter never passes RTY + 1.
TypeOK ==
  /\ pc \in [Station -> PC] /\ yield \in [Station -> BOOLEAN]
  /\ \A s \in Station : \A i \in 1 .. Len(wire[s]) : wire[s][i] \in Char
  /\ retry \in [Station -> 0 .. RetryLimit + 1] /\ sent \in [Station -> Nat]
  /\ \A s \in Station : \A i \in 1 .. Len(got[s]) : got[s][i] \in Nat
  /\ older \in Station /\ noise \in 0 .. MaxNoise
  /\ early \in 0 .. MaxEarly

Init ==
  /\ pc = [s \in Station |-> "idle"] /\ wire = [s \in Station |-> <<>>]
  /\ retry = [s \in Station |-> 0] /\ yield = [s \in Station |-> FALSE]
  /\ sent = [s \in Station |-> 0] /\ got = [s \in Station |-> <<>>]
  /\ older = "equip" /\ noise = 0
  /\ early = 0

-----------------------------------------------------------------------------
(* Reading and writing the line. *)

Has(s) == wire[s] # <<>>
First(s) == Head(wire[s]).c
Rest(s) == [wire EXCEPT ![s] = Tail(@)]
\* What a byte-wise reader may leave of the character it read from.
Rests(s) == {Rest(s)} \cup
  (IF First(s) \in Bytes THEN {[wire EXCEPT ![s] = <<Junk>> \o Tail(@)]} ELSE {})
Put(w, s, c) == [w EXCEPT ![Peer(s)] = Append(@, c)]

\* Does reading First(s) byte by byte meet control character c?
Meets(s, c) == First(s) = c \/ First(s) \in Bytes
Skips(s, cs) == First(s) \notin cs

Goto(s, p) == pc' = [pc EXCEPT ![s] = p] /\ UNCHANGED older
\* Enter a wait that is bounded by T2.
Await(s, p) == pc' = [pc EXCEPT ![s] = p] /\ older' = Peer(s)

\* sendBlockOnce, first half.
RequestLine(s, w) ==
  /\ Await(s, "eot")
  /\ wire' = Put(w, s, Ctl("ENQ"))

\* One more failed attempt of sendBlock. Faulty variant: RTY counts attempts.
GivesUpEarly(s) == retry[s] + 1 >= RetryLimit
GivesUp(s) == retry[s] + 1 > RetryLimit
RetrySend(s, w) ==
  /\ retry' = [retry EXCEPT ![s] = @ + 1]
  /\ IF GivesUp(s) THEN Goto(s, "failed") /\ wire' = w ELSE RequestLine(s, w)

-----------------------------------------------------------------------------
(* Sending: sendBlock, sendBlockOnce, sendBlockData. *)

SendBlock(s) ==
  /\ pc[s] = "idle" /\ sent[s] < ToSend[s]
  /\ retry' = [retry EXCEPT ![s] = 0]
  /\ RequestLine(s, wire)
  /\ UNCHANGED <<yield, sent, got, noise, early>>

\* The frame sendBlockData packs into sendBuf. Faulty variant: a retry writes
\* what the buffer held before.
FramedStale(s) == IF retry[s] = 0 THEN sent[s] + 1 ELSE sent[s]
Framed(s) == sent[s] + 1

\* Waiting for EOT: the line is granted ...
Granted(s) ==
  /\ pc[s] = "eot" /\ Has(s) /\ Meets(s, "EOT")
  /\ \E w \in Rests(s) : wire' = Put(w, s, [c |-> "BLK", k |-> Framed(s)])
  /\ Await(s, "ack")
  /\ UNCHANGED <<retry, yield, sent, got, noise, early>>

\* ... a slave sees the master's ENQ and yields, granting the line ...
Yields(s) == s = "host"

Contention(s) ==
  /\ pc[s] = "eot" /\ Has(s) /\ Meets(s, "ENQ") /\ Yields(s)
  /\ \E w \in Rests(s) : wire' = Put(w, s, Ctl("EOT"))
  /\ Await(s, "len")
  /\ yield' = [yield EXCEPT ![s] = TRUE]
  /\ UNCHANGED <<retry, sent, got, noise, early>>

\* ... and anything else is ignored.
IgnoreInEot(s) ==
  /\ pc[s] = "eot" /\ Has(s)
  /\ Skips(s, {"EOT"}) /\ (Yields(s) => Skips(s, {"ENQ"}))
  /\ wire' = Rest(s)
  /\ UNCHANGED <<pc, older, retry, yield, sent, got, noise, early>>

AckChar == {"ACK", "JUNK"}

Acked(s) ==
  /\ pc[s] = "ack" /\ Has(s) /\ First(s) \in AckChar
  /\ \E w \in Rests(s) : wire' = w
  /\ sent' = [sent EXCEPT ![s] = @ + 1]
  /\ Goto(s, "idle")
  /\ UNCHANGED <<retry, yield, got, noise, early>>

NotAcked(s) ==
  /\ pc[s] = "ack" /\ Has(s) /\ First(s) # "ACK"
  /\ \E w \in Rests(s) : RetrySend(s, w)
  /\ UNCHANGED <<yield, sent, got, noise, early>>

-----------------------------------------------------------------------------
(* Receiving: lineEngine's idle poll, receiveBlock, drainUntilSilence. *)

IdleENQ(s) ==
  /\ pc[s] = "idle" /\ Has(s) /\ Meets(s, "ENQ")
  /\ \E w \in Rests(s) : wire' = Put(w, s, Ctl("EOT"))
  /\ Await(s, "len")
  /\ yield' = [yield EXCEPT ![s] = FALSE]
  /\ UNCHANGED <<retry, sent, got, noise, early>>

IdleOther(s) ==
  /\ pc[s] = "idle" /\ Has(s) /\ First(s) # "ENQ"
  /\ wire' = Rest(s)
  /\ UNCHANGED <<pc, older, retry, yield, sent, got, noise, early>>

\* A good block: ACK, then the sink runs on this goroutine.
ReceiveGood(s) ==
  /\ pc[s] = "len" /\ Has(s) /\ First(s) = "BLK"
  /\ wire' = Put(Rest(s), s, Ctl("ACK"))
  /\ got' = [got EXCEPT ![s] = Append(@, Head(wire[s]).k)]
  /\ Goto(s, "handler")
  /\ UNCHANGED <<retry, yield, sent, noise, early>>

\* A wrong checksum, or a length out of range (ENQ, EOT and ACK are), is drained;
\* NAK, and a byte of a block read out of step, may be a length in range.
ReceiveBad(s) ==
  /\ pc[s] = "len" /\ Has(s) /\ First(s) # "BLK"
  /\ \/ First(s) # "NAK" /\ Goto(s, "drain")
     \/ First(s) \in {"NAK", "JUNK"} /\ Goto(s, "data")
  /\ \E w \in Rests(s) : wire' = w
  /\ UNCHANGED <<retry, yield, sent, got, noise, early>>

\* readFull on such a length swallows what comes, perhaps up to a full count.
Swallow(s) ==
  /\ pc[s] = "data" /\ Has(s)
  /\ \E w \in Rests(s) : wire' = w
  /\ Goto(s, "data") \/ Goto(s, "drain")
  /\ UNCHANGED <<retry, yield, sent, got, noise, early>>

Drain(s) ==
  /\ pc[s] = "drain" /\ Has(s)
  /\ wire' = Rest(s)
  /\ UNCHANGED <<pc, older, retry, yield, sent, got, noise, early>>

\* A receive that fails ends with a NAK; inside a yield it is a failed attempt.
EndBadReceive(s) ==
  LET w == Put(wire, s, Ctl("NAK"))
  IN IF yield[s] THEN RetrySend(s, w)
     ELSE Goto(s, "idle") /\ wire' = w /\ UNCHANGED retry

\* The sink returned. A yielded send starts afresh.
HandlerReturns(s) ==
  /\ pc[s] = "handler"
  /\ IF yield[s]
     THEN RequestLine(s, wire) /\ retry' = [retry EXCEPT ![s] = 0]
     ELSE Goto(s, "idle") /\ UNCHANGED <<wire, retry>>
  /\ UNCHANGED <<yield, sent, got, noise, early>>

-----------------------------------------------------------------------------
(* Timers: nothing came for T2 or T1. In order, they run out only when nothing *)
(* is on the line, T1, the shorter, before T2, and of two T2 the one that was  *)
(* armed first; a handler slower than T2 makes one run out early.              *)

Silent(s) == wire[s] = <<>>
Stuck(s) == pc[s] = "failed" \/ (Silent(s) /\ pc[s] # "handler")

Timing(due) == \/ due /\ UNCHANGED early
               \/ ~due /\ noise = 0 /\ early < MaxEarly /\ early' = early + 1

InT2(s) == pc[s] \in {"eot", "ack", "len"}
T2Due(s) == /\ Stuck(Peer(s)) /\ pc[Peer(s)] \notin {"data", "drain"}
            /\ InT2(Peer(s)) => older = s

T2Expires(s) ==
  /\ InT2(s) /\ Silent(s)
  /\ Timing(T2Due(s))
  /\ IF pc[s] = "len" THEN EndBadReceive(s) ELSE RetrySend(s, wire)
  /\ UNCHANGED <<yield, sent, got, noise>>

T1Expires(s) ==
  /\ pc[s] \in {"data", "drain"} /\ Silent(s)
  /\ Timing(Stuck(Peer(s)))
  /\ EndBadReceive(s)
  /\ UNCHANGED <<yield, sent, got, noise>>

\* The line garbles the newest block, or loses the newest character.
Noise(s) ==
  /\ noise < MaxNoise /\ early = 0 /\ Has(s)
  /\ noise' = noise + 1
  /\ LET n == Len(wire[s])
     IN \/ wire' = [wire EXCEPT ![s] = SubSeq(@, 1, n - 1)]
        \/ wire[s][n].c = "BLK" /\ wire' = [wire EXCEPT ![s][n].c = "BAD"]
  /\ UNCHANGED <<pc, older, retry, yield, sent, got, early>>

Step(s) ==
  \/ SendBlock(s) \/ Granted(s) \/ Contention(s) \/ IgnoreInEot(s) \/ Acked(s)
  \/ NotAcked(s) \/ IdleENQ(s) \/ IdleOther(s) \/ ReceiveGood(s) \/ ReceiveBad(s)
  \/ Swallow(s) \/ Drain(s) \/ HandlerReturns(s) \/ T2Expires(s) \/ T1Expires(s)

Next == \E s \in Station : Step(s) \/ Noise(s)

Spec == Init /\ [][Next]_vars
FairSpec == Spec /\ \A s \in Station : WF_vars(Step(s))

-----------------------------------------------------------------------------
(* Properties. *)

\* Handlers and line have been faster than T2.
Prompt == early = 0

\* sendBlock, receiveBlock and retransmission: a block reported as sent was handed
\* to the peer's sink, and the sink sees the peer's blocks in order, a block again
\* only right after itself, which is what accept can discard.  Stations that fell
\* out of step may lose a block, but the sink still never sees an older block after
\* a newer one.
BlocksArrive ==
  \A s \in Station :
    /\ Prompt => \A k \in 1 .. sent[Peer(s)] :
                   \E i \in 1 .. Len(got[s]) : got[s][i] = k
    /\ Prompt /\ got[s] # <<>> => got[s][1] = 1
    /\ \A i \in 1 .. Len(got[s]) - 1 :
         /\ got[s][i] <= got[s][i + 1]
         /\ Prompt => got[s][i + 1] <= got[s][i] + 1

\* Contention is resolved: every block of both stations is sent in the end.
AllSent == <>(Prompt => \A s \in Station : sent[s] = ToSend[s])
=============================================================================
