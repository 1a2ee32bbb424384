----------------------------- MODULE GemSamples -----------------------------
(***************************************************************************)
(* The calls the exchange of GemExchange makes: every builder of package   *)
(* gem, and for each the arguments it is called with.  Each builder gets   *)
(* one plain call, in which every field has a value of its own, and one    *)
(* call for every boundary value of every field, the other fields plain.   *)
(***************************************************************************)
EXTENDS GemCatalog

-----------------------------------------------------------------------------
(* Items for the fields whose format E5 leaves open. *)

\* L[1] nested n deep around an empty list.
RECURSIVE Nested(_)
Nested(n) == IF n = 1 THEN List(<<>>) ELSE List(<<Nested(n - 1)>>)

\* One item of every format, at the ends of its range, and a leaf whose length
\* takes two bytes.
OpenItems ==
    {EmptyItem, Nil, List(<<>>), List(<<Leaf("A", <<65>>), List(<<>>)>>),
     List(<<EmptyItem>>), Nested(MaxListDepth), Nested(MaxListDepth + 1),
     Leaf("A", [i \in 1 .. 256 |-> i % 128]), Leaf("J", <<200, 1>>),
     Leaf("W", <<0, 1, 65>>), Leaf("W", <<>>), Leaf("B", <<0, 255>>),
     Leaf("BOOLEAN", <<1, 0>>), Leaf("I1", <<-128, 127>>),
     Leaf("I2", <<-32768, 32767>>), Leaf("I4", <<-2147483647 - 1, 2147483647>>),
     Leaf("I8", <<-1, 256>>), Leaf("U1", <<255, 0>>), Leaf("U2", <<65535>>),
     Leaf("U4", <<2147483647>>), Leaf("U8", <<65536>>), Leaf("F4", <<7>>),
     Leaf("F8", <<7, 9>>)}

-----------------------------------------------------------------------------
(* Arguments, from the reads of the message's decoder. *)

\* The largest value of an unsigned type within the numbers of the model.
MaxOf(T) == CASE T.width = 1 -> 255 [] T.width = 2 -> 65535 [] OTHER -> 2147483647

\* A value for the read d; k tells the fields of a message apart.
RECURSIVE Plain(_, _)
RECURSIVE PlainFields(_, _, _)
PlainFields(d, i, k) ==
    IF i > Len(d.kids) THEN <<>>
    ELSE LET v == Plain(d.kids[i], (k * 7 + i) % 251)
         IN  (IF d.kids[i].of = SELF THEN v ELSE d.kids[i].of :> v)
                @@ PlainFields(d, i + 1, k)
Plain(d, k) ==
    CASE d.op \in {"none", "fixed", "shortOrFull"} -> PlainFields(d, 1, k)
      [] d.op = "each" -> <<Plain(d.kids[1], k), Plain(d.kids[1], (k + 100) % 251)>>
      [] d.op = "items" -> <<Leaf("U2", <<k>>), Leaf("A", <<k % 128>>)>>
      [] d.op \in {"optionalGroup", "optional"} -> <<Plain(d.kids[1], k)>>
      [] d.op \in {"item", "scalarItem", "scalarOrEmptyList"} -> Leaf("U4", <<k>>)
      [] d.op = "bool" -> <<k % 2>>
      [] d.op = "array" -> [i \in 1 .. d.n |-> (k + i) % 256]
      [] OTHER -> <<k>>

\* The boundary values of the read d.
RECURSIVE Edges(_, _)
Edges(d, k) ==
    CASE d.op \in {"none", "fixed", "shortOrFull"} ->
           UNION {LET kid == d.kids[i]
                      at(v) == IF kid.of = SELF THEN v ELSE kid.of :> v
                  IN  {at(v) @@ PlainFields(d, 1, k) :
                          v \in Edges(kid, (k * 7 + i) % 251)}
                  : i \in DOMAIN d.kids}
      [] d.op = "each" ->
           {<<>>, <<Plain(d.kids[1], k)>>}
             \cup {<<Plain(d.kids[1], k), v>> : v \in Edges(d.kids[1], k)}
      [] d.op = "items" ->
           {<<>>, <<Leaf("B", <<k>>), Nil>>, <<EmptyItem>>, <<List(<<>>)>>}
      [] d.op \in {"optionalGroup", "optional"} ->
           {<<>>} \cup {<<v>> : v \in Edges(d.kids[1], k)}
      [] d.op = "item" -> IF d.of = "BODY" THEN OpenItems ELSE {Nil, List(<<Nil>>)}
      [] d.op = "scalarItem" -> {Nil, Leaf("A", <<>>)}
      [] d.op = "scalarOrEmptyList" -> {Nil, List(<<>>)}
      [] d.op \in {"ascii", "binary"} -> {<<>>, <<0, 255>>}
      [] d.op = "bool" -> {<<(k + 1) % 2>>}
      [] d.op = "array" -> {}
      [] d.op \in {"byteAs", "uintAs"} -> {<<0>>, <<MaxOf(d.type)>>}
           \cup {<<c>> : c \in IF d.type.base = "string" THEN {} ELSE d.type.named}

\* The arguments a builder is called with: those of the message's fields that it
\* takes.
Taken(b, v) == [p \in Params(b.node) |-> v[p]]
RootArgs(d, v) == IF d.of = SELF THEN v ELSE d.of :> v
PlainArgs(b, d) == Taken(b, RootArgs(d, Plain(d, b.function)))
EdgeArgs(b, d) == {Taken(b, RootArgs(d, v)) : v \in Edges(d, b.function)}
=============================================================================
