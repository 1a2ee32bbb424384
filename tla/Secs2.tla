------------------------------- MODULE Secs2 -------------------------------
(***************************************************************************)
(* SECS-II data items (package secs2): the item tree, the error an item    *)
(* carries, its wire encoding and the decoder, and the typed reads of a    *)
(* cursor.                                                                 *)
(*                                                                         *)
(* An item is a uniform tree: its format, the sequence of its values and   *)
(* the sequence of its children.  A value is a byte for the string and     *)
(* binary formats, 0 or 1 for a Boolean, a number for the integer formats  *)
(* and a bit pattern for a float.  Three formats never reach the wire: the *)
(* empty item, the item that only carries an error, and Go's nil.          *)
(***************************************************************************)
EXTENDS Integers, Sequences, SequencesExt

\* How deep the decoder follows nested lists; 64 in the code.
CONSTANT MaxListDepth

Item(t, v, ks) == [t |-> t, v |-> v, kids |-> ks]
Leaf(t, v) == Item(t, v, <<>>)
List(ks) == Item("L", <<>>, ks)
EmptyItem == Leaf("EMPTY", <<>>)
ErrorItem == Leaf("ERROR", <<>>)
Nil == Leaf("NIL", <<>>)

IsList(x) == x.t = "L"
IsNilItem(x) == x.t = "NIL"

\* Item.Size: elements of a leaf, direct children of a list.
Size(x) == IF IsList(x) THEN Len(x.kids) ELSE Len(x.v)

-----------------------------------------------------------------------------
(* Construction. *)

\* NewListItem drops an untyped nil child and keeps every other one.
NewListItem(ks) == List(SelectSeq(ks, LAMBDA x : ~IsNilItem(x)))

\* Item.Error, aggregated over a list: the item's own error, a child's, or an
\* empty item standing as a child.
RECURSIVE HasError(_)
HasError(x) ==
    \/ x.t = "ERROR"
    \/ \E i \in DOMAIN x.kids :
          IsNilItem(x.kids[i]) \/ x.kids[i].t = "EMPTY" \/ HasError(x.kids[i])

-----------------------------------------------------------------------------
(* The wire. *)

FormatCode ==
    [L |-> 0, B |-> 8, BOOLEAN |-> 9, A |-> 16, J |-> 17, W |-> 18,
     I8 |-> 24, I1 |-> 25, I2 |-> 26, I4 |-> 28, F8 |-> 32, F4 |-> 36,
     U8 |-> 40, U1 |-> 41, U2 |-> 42, U4 |-> 44]

\* Bytes of one value of each format.
Width(t) ==
    CASE t \in {"I2", "U2"} -> 2
      [] t \in {"I4", "U4", "F4"} -> 4
      [] t \in {"I8", "U8", "F8"} -> 8
      [] OTHER -> 1

\* Big-endian bytes of n in w bytes, two's complement when n is negative.
BytesOf[n \in Int, w \in Nat] ==
    IF w = 0 THEN <<>> ELSE Append(BytesOf[n \div 256, w - 1], n % 256)

\* appendHeaderBytesFC: the format byte, then as few length bytes as hold n.
Header(t, n) ==
    LET count == IF n > 65535 THEN 3 ELSE IF n > 255 THEN 2 ELSE 1
    IN  <<FormatCode[t] * 4 + count>> \o BytesOf[n, count]

\* AppendTo: a list's length field counts its children, a leaf's its bytes.
RECURSIVE Encode(_)
Encode(x) ==
    IF x.t = "EMPTY" THEN <<>>
    ELSE IF IsList(x)
    THEN Header("L", Len(x.kids))
           \o FlattenSeq([i \in DOMAIN x.kids |-> Encode(x.kids[i])])
    ELSE Header(x.t, Len(x.v) * Width(x.t))
           \o FlattenSeq([i \in DOMAIN x.v |-> BytesOf[x.v[i], Width(x.t)]])

\* The big-endian number of bs, with the bytes before them standing for n.
RECURSIVE NumberFrom(_, _)
NumberFrom(n, bs) ==
    IF bs = <<>> THEN n ELSE NumberFrom(n * 256 + Head(bs), Tail(bs))
NumberOf(bs, signed) == NumberFrom(IF signed /\ bs[1] >= 128 THEN -1 ELSE 0, bs)

\* The value the decoders of decodeItem read from one element's bytes.
ValueOf(t, bs) ==
    CASE t = "BOOLEAN" -> IF bs[1] # 0 THEN 1 ELSE 0
      [] OTHER -> NumberOf(bs, t \in {"I1", "I2", "I4", "I8"})

FormatOf(code) == {t \in DOMAIN FormatCode : FormatCode[t] = code}

Failed == [ok |-> FALSE, item |-> EmptyItem, pos |-> 0]

\* The payload of a leaf: whole elements, all of them present, and a localized
\* string that is empty or holds its two-byte header.
LeafFits(bs, pos, t, n) ==
    /\ n % Width(t) = 0
    /\ pos + n - 1 <= Len(bs)
    /\ t = "W" => n # 1

\* decodeItem: one item of bs from pos, and the position after it.
RECURSIVE DecodeItem(_, _, _)
RECURSIVE DecodeChildren(_, _, _, _, _)

\* The children of a list, left to right; the first that fails fails the list.
DecodeChildren(bs, pos, depth, n, done) ==
    IF n = 0 THEN [ok |-> TRUE, item |-> List(done), pos |-> pos]
    ELSE LET r == DecodeItem(bs, pos, depth)
         IN  IF r.ok
             THEN DecodeChildren(bs, r.pos, depth, n - 1, Append(done, r.item))
             ELSE Failed

DecodeItem(bs, pos, depth) ==
    IF pos > Len(bs) THEN Failed
    ELSE LET count == bs[pos] % 4
             start == pos + 1 + count
             ts == FormatOf(bs[pos] \div 4)
         IN  IF count = 0 \/ start - 1 > Len(bs) \/ ts = {} THEN Failed
             ELSE LET t == CHOOSE f \in ts : TRUE
                      n == NumberOf(SubSeq(bs, pos + 1, pos + count), FALSE)
                      w == Width(t)
                  IN  IF t = "L"
                      THEN IF depth + 1 > MaxListDepth
                              \/ n * 2 > Len(bs) - start + 1
                           THEN Failed
                           ELSE DecodeChildren(bs, start, depth + 1, n, <<>>)
                      ELSE IF ~LeafFits(bs, start, t, n) THEN Failed
                      ELSE [ok |-> TRUE, pos |-> start + n,
                            item |-> Leaf(t, [i \in 1 .. n \div w |->
                               ValueOf(t, SubSeq(bs, start + (i - 1) * w,
                                                     start + i * w - 1))])]

\* decodeFirstItem: the first item of the body and the bytes that trail it;
\* no bytes at all are the empty item.
DecodeFirstItem(bs) ==
    IF bs = <<>> THEN [ok |-> TRUE, item |-> EmptyItem, trailing |-> 0]
    ELSE LET r == DecodeItem(bs, 1, 0)
         IN  [ok |-> r.ok, item |-> r.item,
              trailing |-> IF r.ok THEN Len(bs) - r.pos + 1 ELSE 0]

-----------------------------------------------------------------------------
(* Cursor: what a typed read accepts. *)

IsUint(x) == x.t \in {"U1", "U2", "U4", "U8"}

CursorASCII(x) == x.t = "A"
CursorBinary(x) == x.t = "B"
CursorBool(x) == x.t = "BOOLEAN" /\ Size(x) = 1
CursorUint(x) == IsUint(x) /\ Size(x) = 1
=============================================================================
