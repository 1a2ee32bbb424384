---------------------------- MODULE GemExchange ----------------------------
(***************************************************************************)
(* One GEM message from the application that builds it to the one that     *)
(* decodes it, and the reply that ends its transaction.                    *)
(*                                                                         *)
(* An application calls a builder of package gem and sends the message: a  *)
(* message whose body carries an error is refused (hsms.NewDataMessage),   *)
(* any other is encoded.  The far side decodes the bytes (package secs2),  *)
(* looks the message up in the catalog by its stream, function and sender, *)
(* and runs the decoder, without and with AllowTrailing.  It may then      *)
(* answer with AcceptReply or Abort, and the first application decodes the *)
(* reply.  The far side of an application need not be this library: Peer   *)
(* sends a body that departs in one place from the shape E5 gives it, in a *)
(* direction E5 may not allow, or bytes that are not what they should be.  *)
(***************************************************************************)
EXTENDS GemSamples, FiniteSets

CONSTANTS ItemEdits, WireEdits

VARIABLES
    pc,       \* idle, built, refused, wire, received, answered, done
    call,     \* who sends what, its catalog entry, and by what: gem's builder or an edit
    body,     \* the item sent
    wire,     \* its bytes
    arrived,  \* what secs2 decodes from them
    got, lax, \* the message decoder's result, and its result with AllowTrailing
    reply     \* the answer, and what the sender of the primary decodes from it

vars == <<pc, call, body, wire, arrived, got, lax, reply>>

NoCall == [build |-> NoMessage, by |-> RoleHost, info |-> NoInfo, args |-> <<>>,
           plain |-> FALSE, edit |-> "gem"]
NothingArrived == [ok |-> FALSE, item |-> EmptyItem, trailing |-> 0]
NoReplyYet == [ok |-> FALSE, message |-> NoMessage, body |-> EmptyItem,
               info |-> NoInfo, got |-> Refused]

Init ==
    /\ pc = "idle" /\ call = NoCall /\ body = EmptyItem /\ wire = <<>>
    /\ arrived = NothingArrived /\ got = Refused /\ lax = Refused
    /\ reply = NoReplyYet

-----------------------------------------------------------------------------
(* The sender. *)

\* Three messages have a form of each role, and a builder for each.
HostForms == {Builders[b] : b \in {"S1F2Host", "S1F13Host", "S1F14Host"}}
EquipmentForms == {Builders[b] : b \in {"S1F2", "S1F13", "S1F14"}}
Form(b, r) == (b \in HostForms => r = RoleHost)
                 /\ (b \in EquipmentForms => r = RoleEquipment)

InfoOf(b, r) == Lookup(b.stream, b.function, r)

\* The application builds the message.
Call(b, r) ==
    /\ pc = "idle" /\ Form(b, r)
    /\ \E info \in {InfoOf(b, r)} : \E plain \in {PlainArgs(b, info.decode)} :
          /\ allows(info.direction, r)
          /\ \E args \in {plain} \cup EdgeArgs(b, info.decode) :
                /\ call' = [build |-> b, by |-> r, info |-> info, args |-> args,
                            plain |-> args = plain, edit |-> "gem"]
                /\ body' = Build(b.node, args)
    /\ pc' = "built"
    /\ UNCHANGED <<wire, arrived, got, lax, reply>>

\* NewDataMessage: a stream beyond seven bits, an error in the body and a wait
\* bit on a secondary are refused.
NewDataMessage(m, x) ==
    m.stream <= 127 /\ ~HasError(x) /\ (m.wait => m.function % 2 = 1)

\* A nil body is the empty item.
Carried(x) == IF IsNilItem(x) THEN EmptyItem ELSE x

\* Sending encodes the message, or returns its error.
Send ==
    /\ pc = "built"
    /\ IF NewDataMessage(call.build, body)
       THEN pc' = "wire" /\ wire' = Encode(Carried(body))
       ELSE pc' = "refused" /\ UNCHANGED wire
    /\ UNCHANGED <<call, body, arrived, got, lax, reply>>

-----------------------------------------------------------------------------
(* A far side that is not this library. *)

\* The item with one departure at its root.
Departures(x) ==
    {e \in ItemEdits : CASE e \in {"append", "scalar"} -> IsList(x)
                         [] e = "drop" -> IsList(x) /\ x.kids # <<>>
                         [] e \in {"wide", "huge"} -> IsUint(x)
                         [] e \in {"retype", "list"} -> ~IsList(x) /\ x.t # "EMPTY"
                         [] e \in {"none", "double"} -> ~IsList(x) /\ x.v # <<>>}

Departed(x, e) ==
    CASE e = "append" -> List(Append(x.kids, Leaf("U1", <<1>>)))
      [] e = "drop" -> List(Front(x.kids))
      [] e = "scalar" -> Leaf("A", <<>>)
      [] e = "list" -> List(<<x>>)
      [] e = "retype" -> Leaf(IF x.t = "A" THEN "J" ELSE "A",
                             [i \in DOMAIN x.v |-> x.v[i] % 256])
      [] e = "none" -> Leaf(x.t, <<>>)
      [] e = "double" -> Leaf(x.t, x.v \o x.v)
      [] e = "wide" -> Leaf("U8", x.v)
      [] e = "huge" -> Leaf("U8", <<16777216>>)

\* Every item that differs from x by one departure somewhere in it.
RECURSIVE Variations(_)
Variations(x) ==
    {Departed(x, e) : e \in Departures(x)}
      \cup UNION {{List([x.kids EXCEPT ![i] = y]) : y \in Variations(x.kids[i])}
                  : i \in DOMAIN x.kids}

\* Bytes that stop short, go on too long, or spend more length bytes than needed.
Damaged(bs, e) ==
    CASE e = "cut" -> Front(bs)
      [] e = "pad" -> Append(bs, 0)
      [] e = "long" -> <<(bs[1] \div 4) * 4 + 3, 0, 0>> \o Tail(bs)

PeerSends(c, x, bs, e) ==
    /\ pc' = "wire" /\ body' = x /\ wire' = bs /\ call' = [c EXCEPT !.edit = e]
    /\ UNCHANGED <<arrived, got, lax, reply>>

\* A body of the E5 shape, or one departure away from it, from either role.
PeerSendsOne(c, x) ==
    \/ PeerSends(c, x, Encode(x), "plain")
    \/ /\ allows(c.info.direction, c.by)
       /\ \/ \E y \in Variations(x) : PeerSends(c, y, Encode(y), "item")
          \/ \E e \in WireEdits :
                /\ Len(Encode(x)) < 256 /\ x.t # "EMPTY"
                /\ PeerSends(c, x, Damaged(Encode(x), e), e)
Peer(b, r) ==
    /\ pc = "idle" /\ Form(b, r)
    /\ \E info \in {InfoOf(b, r)} : \E args \in {PlainArgs(b, info.decode)} :
          PeerSendsOne([build |-> b, by |-> r, info |-> info, args |-> args,
                        plain |-> TRUE, edit |-> "plain"], Build(b.node, args))

-----------------------------------------------------------------------------
(* The receiver. *)

Decoded(d, x, trailing) ==
    IF d = NoBody THEN Result(TRUE, <<>>) ELSE DecodeBody(d, x, trailing)

Receive ==
    /\ pc = "wire" /\ pc' = "received"
    /\ \E r \in {DecodeFirstItem(wire)} :
          /\ arrived' = r
          /\ got' = IF r.ok THEN Decoded(call.info.decode, r.item, FALSE) ELSE Refused
          /\ lax' = IF r.ok THEN Decoded(call.info.decode, r.item, TRUE) ELSE Refused
    /\ UNCHANGED <<call, body, wire, reply>>

\* The receiver accepts the message as a whole, or aborts its transaction.
Answer(a) ==
    /\ pc = "received" /\ call.plain /\ call.edit \in {"gem", "plain"}
    /\ a.ok
    /\ reply' = [NoReplyYet EXCEPT !.ok = TRUE, !.message = a.message, !.body = a.body]
    /\ pc' = "answered"
    /\ UNCHANGED <<call, body, wire, arrived, got, lax>>

Accept == Answer(AcceptReply(call.build.stream, call.build.function, peer(call.by)))
SendAbort == call.build.wait /\ Answer(Abort(call.build.stream))

\* The reply crosses the wire, and the sender of the primary decodes it.
ReceiveReply ==
    /\ pc = "answered" /\ pc' = "done"
    /\ \E info \in {InfoOf(reply.message, peer(call.by))},
          r \in {DecodeFirstItem(Encode(reply.body))} :
          reply' = [reply EXCEPT !.info = info, !.got =
              IF NewDataMessage(reply.message, reply.body) /\ r.ok /\ info.ok
              THEN Decoded(info.decode, r.item, FALSE) ELSE Refused]
    /\ UNCHANGED <<call, body, wire, arrived, got, lax>>

\* The applications move on.
Finish ==
    /\ pc \in {"refused", "received", "done"}
    /\ pc' = "idle" /\ call' = NoCall /\ body' = EmptyItem /\ wire' = <<>>
    /\ arrived' = NothingArrived /\ got' = Refused /\ lax' = Refused
    /\ reply' = NoReplyYet

Next ==
    \/ \E b \in Range(Builders), r \in {RoleHost, RoleEquipment} : Call(b, r) \/ Peer(b, r)
    \/ Send \/ Receive \/ Accept \/ SendAbort \/ ReceiveReply \/ Finish

Spec == Init /\ [][Next]_vars

-----------------------------------------------------------------------------
(* What the messages promise. *)

\* The formats of the items a caller passes for fields of open format, with the
\* items inside them.
RECURSIVE FormatsIn(_)
FormatsIn(x) == {x.t} \cup UNION {FormatsIn(x.kids[i]) : i \in DOMAIN x.kids}

RECURSIVE ItemsIn(_, _)
ItemsIn(d, v) ==
    CASE d.op \in {"item", "scalarItem", "scalarOrEmptyList"} -> {v}
      [] d.op = "items" -> {v[i] : i \in DOMAIN v}
      [] d.op \in {"each", "optional", "optionalGroup"} ->
           UNION {ItemsIn(d.kids[1], v[i]) : i \in DOMAIN v}
      [] d.op \in {"fixed", "shortOrFull"} ->
           UNION {LET kid == d.kids[i]
                  IN  IF kid.of = SELF THEN ItemsIn(kid, v)
                      ELSE IF kid.of \in DOMAIN v THEN ItemsIn(kid, v[kid.of]) ELSE {}
                  : i \in DOMAIN d.kids}
      [] OTHER -> {}

RECURSIVE Depth(_)
Depth(x) ==
    IF ~IsList(x) THEN 0
    ELSE 1 + (IF x.kids = <<>> THEN 0
              ELSE LET ds == {Depth(x.kids[i]) : i \in DOMAIN x.kids}
                   IN  CHOOSE n \in ds : \A m \in ds : m <= n)

\* A call is complete when no item of it is nil and none inside a list is empty;
\* the empty item may stand for the whole body.
Complete ==
    LET d == call.info.decode
        xs == ItemsIn(d, IF d.of = SELF THEN call.args ELSE call.args[d.of])
    IN  \A x \in xs : /\ "NIL" \notin FormatsIn(x)
                      /\ "EMPTY" \in FormatsIn(x) => x = EmptyItem /\ x = body

\* A call that is complete is sent and decodes to the arguments it was made with;
\* any other is refused and never reaches the wire.  Beyond MaxListDepth the
\* receiver refuses what the sender could send.
RoundTrip ==
    call.edit = "gem" =>
        /\ pc = "refused" => ~Complete
        /\ pc = "received" =>
              /\ Complete
              /\ got.ok <=> Depth(body) <= MaxListDepth
              /\ got.ok => got.v = call.args

\* The forms of a message with exactly these fields.
FormsWith(fields) ==
    {b \in Range(Builders) :
        /\ b.stream = call.build.stream /\ b.function = call.build.function
        /\ Form(b, call.by) /\ Params(b.node) = fields}

\* The body a decoded message stands for; a short form with no builder of its own
\* is L[0].
RebuiltAs(forms, v) ==
    IF forms = {} THEN List(<<>>) ELSE Build((CHOOSE b \in forms : TRUE).node, v)
Rebuilt(v) == RebuiltAs(FormsWith(DOMAIN v), v)

\* y is x without trailing children, up to the width of unsigned items.
RECURSIVE Prunes(_, _, _)
Prunes(y, x, exact) ==
    /\ y.t = x.t \/ (IsUint(y) /\ IsUint(x))
    /\ y.v = x.v
    /\ IF exact THEN Len(y.kids) = Len(x.kids) ELSE Len(y.kids) <= Len(x.kids)
    /\ \A i \in DOMAIN y.kids : Prunes(y.kids[i], x.kids[i], exact)

\* A body decodes only if it is, field for field, what the builder would send for
\* the values decoded: nothing received is dropped, cut to a narrower type or read
\* as another field.  The item itself re-encodes to the bytes it came from.
\* AllowTrailing changes no result that is already one, and what more it accepts
\* only has further children at the end of its lists.
DecodedIsWhatArrived ==
    pc = "received" =>
        /\ got.ok => Prunes(Rebuilt(got.v), arrived.item, TRUE)
        /\ arrived.ok /\ call.edit # "long" =>
              Encode(arrived.item) = SubSeq(wire, 1, Len(wire) - arrived.trailing)
        /\ call.edit = "cut" => ~arrived.ok
        /\ call.edit \in {"pad", "long"} => arrived.ok /\ arrived.item = body
        /\ got.ok => lax = got
        /\ lax.ok /\ ~got.ok =>
              \E y \in {Rebuilt(lax.v)} :
                 Prunes(y, arrived.item, FALSE) /\ ~Prunes(y, arrived.item, TRUE)

\* An accepting reply answers a primary that waits for one and that its sender may
\* send; it is the next function without a wait bit, travels in a direction its
\* replier may send, and decodes at the primary's sender to code 0 and no more.
AcceptReplyAnswers ==
    reply.ok =>
        LET m == reply.message
            code == {f \in DOMAIN reply.got.v : reply.got.v[f] # <<>>}
        IN  /\ call.build.wait /\ ~m.wait /\ m.stream = call.build.stream
            /\ m.function # 0 =>
                  /\ m.function = call.build.function + 1
                  /\ allows(call.info.direction, call.by)
                  /\ pc = "done" =>
                        /\ allows(reply.info.direction, peer(call.by))
                        /\ reply.got.ok /\ Cardinality(code) <= 1
                        /\ \A f \in code : reply.got.v[f] = <<0>>
=============================================================================
