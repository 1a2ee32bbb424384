-------------------------------- MODULE Gem --------------------------------
(***************************************************************************)
(* The vocabulary of the GEM message package (package gem): the expressions *)
(* its builders and groups are written in, the reads its decoders are      *)
(* written in, and what both do.                                           *)
(*                                                                         *)
(* A builder is a tree of nodes over named arguments; Build evaluates it   *)
(* as the Go expression does.  A decoder is a tree of reads that mirrors   *)
(* the list structure its requireArity, optionalArity and cursor paths     *)
(* spell out; Read runs it on a received item.  Arguments and results are  *)
(* functions from the E5 field names.  A Go value is a sequence: the bytes *)
(* of a string or a binary, the one value of a scalar, a pointer as no or  *)
(* one value, a slice as its elements; a group is a function of its fields *)
(* and a secs2.Item is the item itself.                                    *)
(***************************************************************************)
EXTENDS Secs2, TLC

\* A node without a field name works on the value it is handed: an element of a
\* repeat, or the enclosing list.
SELF == ""

Arg(f, env) == IF f = SELF THEN env ELSE env[f]

-----------------------------------------------------------------------------
(* Builders. *)

Node(op, t, f, ks) == [op |-> op, t |-> t, of |-> f, kids |-> ks]

A(f) == Node("leaf", "A", f, <<>>)
B(f) == Node("leaf", "B", f, <<>>)
BOOL(f) == Node("leaf", "BOOLEAN", f, <<>>)
U1(f) == Node("leaf", "U1", f, <<>>)
U2(f) == Node("leaf", "U2", f, <<>>)
U4(f) == Node("leaf", "U4", f, <<>>)
U8(f) == Node("leaf", "U8", f, <<>>)
L(ks) == Node("list", "L", SELF, ks)
NewEmptyItem == Node("empty", "EMPTY", SELF, <<>>)
Present(f) == Node("present", "", f, <<>>)
EachItem(f, elem) == Node("each", "L", f, <<elem>>)
OptionalItem(f, elem) == Node("optional", elem.t, f, <<elem>>)
OptionalGroupItem(f, group) == Node("optional", "L", f, <<group>>)

\* A nil item becomes an item that carries an error, so that it cannot vanish
\* from its list.
\* Faulty variant: it is passed on.
PresentItemAny(x) == x
PresentItem(x) == IF IsNilItem(x) THEN ErrorItem ELSE x

RECURSIVE Build(_, _)
Build(n, env) ==
    LET v == Arg(n.of, env)
    IN  CASE n.op = "leaf" -> Leaf(n.t, v)
          [] n.op = "empty" -> EmptyItem
          [] n.op = "present" -> PresentItem(v)
          [] n.op = "list" ->
               NewListItem([i \in DOMAIN n.kids |-> Build(n.kids[i], v)])
          [] n.op = "each" ->
               NewListItem([i \in DOMAIN v |-> Build(n.kids[1], v[i])])
          [] n.op = "optional" ->
               IF v = <<>> THEN Leaf(n.t, <<>>) ELSE Build(n.kids[1], v[1])

\* The arguments a builder takes.
RECURSIVE Params(_)
Params(n) ==
    IF n.of # SELF THEN {n.of}
    ELSE IF n.op = "list" THEN UNION {Params(n.kids[i]) : i \in DOMAIN n.kids}
    ELSE {}

Message(s, f, w, n) == [stream |-> s, function |-> f, wait |-> w, node |-> n]

-----------------------------------------------------------------------------
(* Decoders. *)

\* The Go types of coded data items: the bytes a value may take, and the
\* values the item's constants name.
Code(base, w, vs) == [base |-> base, width |-> w, named |-> vs]
ByteCodes(vs) == Code("byte", 1, vs)
Uint8Codes(vs) == Code("uint8", 1, vs)
StringCodes(n) == Code("string", 1, 1 .. n)
Byte == Code("byte", 1, {})
Uint8 == Code("uint8", 1, {})
Uint16 == Code("uint16", 2, {})
Uint32 == Code("uint32", 4, {})
Uint64 == Code("uint64", 8, {})

\* Bytes the value v takes; every number of the model fits four.
BytesFor(v) == CHOOSE n \in 1 .. 4 :
    /\ v < 256 <=> n = 1
    /\ v < 65536 <=> n <= 2
    /\ v < 16777216 <=> n <= 3

Fits(T, v) == BytesFor(v) <= T.width

Dec(op, f, n, T, ks) == [op |-> op, of |-> f, n |-> n, type |-> T, kids |-> ks]

Fixed(ks) == Dec("fixed", SELF, Len(ks), Byte, ks)
ShortOrFull(short, ks) == Dec("shortOrFull", SELF, short, Byte, ks)
Each(f, elem) == Dec("each", f, 0, Byte, <<elem>>)
Items(f) == Dec("items", f, 0, Byte, <<>>)
OptionalGroup(f, full, g) == Dec("optionalGroup", f, full, Byte, <<g>>)
Optional(f, elem) == Dec("optional", f, 0, elem.type, <<elem>>)
ASCII(f) == Dec("ascii", f, 0, Byte, <<>>)
ASCIIAs(f, T) == Dec("ascii", f, 0, T, <<>>)
Bool(f) == Dec("bool", f, 0, Byte, <<>>)
Binary(f) == Dec("binary", f, 0, Byte, <<>>)
Array(f, n) == Dec("array", f, n, Byte, <<>>)
ByteAs(f, T) == Dec("byteAs", f, 0, T, <<>>)
UintAs(f, T) == Dec("uintAs", f, 0, T, <<>>)
AnyItem(f) == Dec("item", f, 0, Byte, <<>>)
ScalarItem(f) == Dec("scalarItem", f, 0, Byte, <<>>)
ScalarOrEmptyList(f) == Dec("scalarOrEmptyList", f, 0, Byte, <<>>)

Refused == [ok |-> FALSE, v |-> <<>>]
Result(good, v) == IF good THEN [ok |-> TRUE, v |-> v] ELSE Refused

\* requireArity: that many children, or more of them under AllowTrailing.
\* Faulty variant: more are always taken.
RequireArityAtLeast(x, want, trailing) == IsList(x) /\ Size(x) >= want
RequireArity(x, want, trailing) ==
    IsList(x) /\ (Size(x) = want \/ (Size(x) > want /\ trailing))

\* optionalArity: the children to read, or -1 for an error.
OptionalArity(x, short, full, trailing) ==
    IF ~IsList(x) THEN -1
    ELSE IF Size(x) > full /\ trailing THEN full
    ELSE IF Size(x) \in {short, full} THEN Size(x) ELSE -1

\* The zero-length item decodeOptional takes for an absent value: one of the
\* format the field's own read wants.
AbsentFor(d, x) ==
    /\ Size(x) = 0
    /\ CASE d.op = "uintAs" -> IsUint(x)
         [] d.op = "byteAs" -> x.t = "B"
         [] d.op = "bool" -> x.t = "BOOLEAN"

RECURSIVE Read(_, _, _)
RECURSIVE ReadFields(_, _, _, _, _)
RECURSIVE ReadEach(_, _, _, _)

\* The reads of d on the children of x from the i-th up to the n-th, their fields
\* put together; the first that fails ends it.
ReadFields(d, x, i, n, trailing) ==
    IF i > n THEN Result(TRUE, <<>>)
    ELSE LET r == Read(d.kids[i], x.kids[i], trailing)
             rest == ReadFields(d, x, i + 1, n, trailing)
         IN  IF r.ok /\ rest.ok
             THEN Result(TRUE, (IF d.kids[i].of = SELF THEN r.v
                                ELSE d.kids[i].of :> r.v) @@ rest.v)
             ELSE Refused

\* The elements of a repeat, one result for each child.
ReadEach(d, xs, done, trailing) ==
    IF xs = <<>> THEN Result(TRUE, done)
    ELSE LET r == Read(d, Head(xs), trailing)
         IN  IF r.ok THEN ReadEach(d, Tail(xs), Append(done, r.v), trailing)
             ELSE Refused

Read(d, x, trailing) ==
    CASE d.op = "fixed" ->
           IF RequireArity(x, d.n, trailing)
           THEN ReadFields(d, x, 1, d.n, trailing)
           ELSE Refused
      [] d.op = "shortOrFull" ->
           LET n == OptionalArity(x, d.n, Len(d.kids), trailing)
           IN  IF n = -1 THEN Refused ELSE ReadFields(d, x, 1, n, trailing)
      [] d.op = "each" ->
           IF IsList(x) THEN ReadEach(d.kids[1], x.kids, <<>>, trailing)
           ELSE Refused
      [] d.op = "items" -> Result(IsList(x), x.kids)
      [] d.op = "optionalGroup" ->
           IF IsList(x) /\ Size(x) = 0 THEN Result(TRUE, <<>>)
           ELSE IF ~RequireArity(x, d.n, trailing) THEN Refused
           ELSE LET r == Read(d.kids[1], x, trailing)
                IN  Result(r.ok, <<r.v>>)
      [] d.op = "optional" ->
           IF AbsentFor(d.kids[1], x) THEN Result(TRUE, <<>>)
           ELSE LET r == Read(d.kids[1], x, trailing)
                IN  Result(r.ok, <<r.v>>)
      [] d.op = "ascii" -> Result(CursorASCII(x), x.v)
      [] d.op = "bool" -> Result(CursorBool(x), x.v)
      [] d.op = "binary" -> Result(CursorBinary(x), x.v)
      [] d.op = "array" -> Result(CursorBinary(x) /\ Size(x) = d.n, x.v)
      [] d.op = "byteAs" -> Result(CursorBinary(x) /\ Size(x) = 1, x.v)
      [] d.op = "uintAs" -> Result(CursorUint(x) /\ Fits(d.type, x.v[1]), x.v)
      [] d.op = "item" -> Result(TRUE, x)
      [] d.op = "scalarItem" -> Result(~IsList(x), x)
      [] d.op = "scalarOrEmptyList" -> Result(IsList(x) => Size(x) = 0, x)

\* A decoder on a body: a body that is one field is a result of that field.
DecodeBody(d, x, trailing) ==
    LET r == Read(d, x, trailing)
    IN  IF ~r.ok \/ d.of = SELF THEN r ELSE Result(TRUE, d.of :> r.v)
=============================================================================
