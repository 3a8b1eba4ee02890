---------------------------- MODULE WireDocuments ----------------------------
(***************************************************************************)
(* What phenix-contract exchanges in the canonical encoding: values,        *)
(* schemas (the owned ValueSchema and the constants the macros embed) and   *)
(* state requests.  One side encodes a document, the stream may be damaged, *)
(* and the other side decodes it.  The byte stream is a sequence of tokens  *)
(* <<kind, n>>: a tag, a length, a character, an integer or an identity,    *)
(* each with its width in bytes.                                            *)
(***************************************************************************)
EXTENDS Naturals, Sequences, FiniteSets, SequencesExt

CONSTANTS MaxBytes, MaxDepth, MaxCount,
          MaxSchemaBytes,   \* the buffer of SchemaBytes
          Documents,        \* what is encoded
          Fragments,           \* what a damaged stream may hold
          MaxDamaged        \* bound of the model: the longest stream that is damaged

VARIABLES doc,    \* [kind, v, s, request]
          wire,   \* its encoding, <<>> before
          whole,  \* the stream is as it was sent
          read    \* what the receiver decoded: <<>> or <<document>>

vars == <<doc, wire, whole, read>>

-----------------------------------------------------------------------------
(* Values and their encoding (value.rs). *)

(* A value: text or number in data, and its items with their keys. *)
Val(t, data, keys, items) == [t |-> t, data |-> data, keys |-> keys, items |-> items]
Null == Val("null", <<>>, <<>>, <<>>)
Text(s) == Val("string", s, <<>>, <<>>)
ListOf(items) == Val("list", <<>>, <<>>, items)
MapOf(keys, items) == Val("map", <<>>, keys, items)

(* The order of strings: by bytes. *)
Less(a, b) ==
    \E k \in DOMAIN b : /\ k <= Len(a) + 1
                        /\ \A i \in 1 .. k - 1 : a[i] = b[i]
                        /\ k <= Len(a) => a[k] < b[k]

Ascends(names) == \A i \in 1 .. Len(names) - 1 : Less(names[i], names[i + 1])

(* BTreeMap: keys once, in order; a later entry replaces an earlier one. *)
Collected(keys, items) ==
    LET names == SetToSortSeq(ToSet(keys), Less)
        last(k) == CHOOSE i \in DOMAIN keys : keys[i] = k /\ \A j \in DOMAIN keys : keys[j] = k => j <= i
    IN [keys |-> names, items |-> [i \in DOMAIN names |-> items[last(names[i])]]]

(* Letters are identifier characters; 32 is a blank, 255 is no UTF-8. *)
Identifier(name) == name # <<>> /\ \A i \in DOMAIN name : name[i] \in 1 .. 31

-----------------------------------------------------------------------------
(* Value::encode_schema and Value::decode_schema: the same bytes, without the prefix. *)

Bad == <<<<"bad", 0>>>>      \* an encoder returned Err
Fine(tokens) == <<"bad", 0>> \notin ToSet(tokens)

(* In bytes: one for each token, and what the longer ones have more.       *)
Size(tokens) ==
    LET count(kind) == Cardinality({i \in DOMAIN tokens : tokens[i][1] = kind})
    IN Len(tokens) + 3 * count("n") + 7 * count("word") + 31 * count("id") + 111 * count("location")

Sized(s) == <<<<"n", Len(s)>>>> \o [i \in DOMAIN s |-> <<"c", s[i]>>]

(* A digest is thirty-two bytes that only their identity tells apart. *)
Tag(v) == IF v.t = "digest" THEN "bytes" ELSE v.t

RECURSIVE Put(_, _)
Put(v, depth) ==
    IF depth > MaxDepth \/ Len(v.items) > MaxCount THEN Bad
    ELSE <<<<Tag(v), 0>>>> \o
         CASE v.t \in {"i64", "u64"} -> <<<<"word", v.data[1]>>>>
           [] v.t = "ref" -> <<<<"location", v.data[1]>>>>
           [] v.t = "digest" -> <<<<"n", 32>>, <<"id", v.data[1]>>>>
           [] v.t \in {"string", "bytes"} -> Sized(v.data)
           [] v.t = "list" ->
                <<<<"n", Len(v.items)>>>> \o
                FlattenSeq([i \in DOMAIN v.items |-> Put(v.items[i], depth + 1)])
           [] v.t = "map" ->
                <<<<"n", Len(v.items)>>>> \o
                FlattenSeq([i \in DOMAIN v.items |-> Sized(v.keys[i]) \o Put(v.items[i], depth + 1)])
           [] OTHER -> <<>>

(* put() measures after every part; what is written only grows. *)
EncodeSchemaValue(v) == LET out == Put(v, 0) IN IF Size(out) > MaxBytes THEN Bad ELSE out

(* Value::encode, whose prefix takes four bytes of the limit. *)
Encode(v) ==
    LET out == EncodeSchemaValue(v)
    IN IF Fine(out) /\ Size(out) + 4 > MaxBytes THEN Bad ELSE out

Wrong == [ok |-> FALSE, v |-> Null, at |-> 0]
At(b, at) == IF at <= Len(b) THEN b[at] ELSE <<"end", 0>>

OverCount(n) == n > MaxCount

OutOfOrder(previous, key) == ~Less(previous, key)

(* Reader::text, and the bytes of a Bytes value. *)
ReadText(b, at, utf8) ==
    LET n == At(b, at)[2]
        chars == SubSeq(b, at + 1, at + n)
        data == [i \in DOMAIN chars |-> chars[i][2]]
    IN IF /\ At(b, at)[1] = "n" /\ at + n <= Len(b)
          /\ \A i \in DOMAIN chars : chars[i][1] = "c" /\ (utf8 => chars[i][2] # 255)
       THEN [ok |-> TRUE, v |-> Text(data), at |-> at + n + 1]
       ELSE Wrong

RECURSIVE Read(_, _, _), ReadItems(_, _, _, _, _)
Read(b, at, depth) ==
    LET tag == At(b, at)[1] next == At(b, at + 1)
        leaf(v, len) == [ok |-> TRUE, v |-> v, at |-> at + len]
        text(got) == IF got.ok THEN [got EXCEPT !.v.t = tag] ELSE Wrong
        map(all, end) == [ok |-> TRUE, v |-> MapOf(all.keys, all.items), at |-> end]
        items(got) ==
            IF got = <<>> THEN Wrong
            ELSE IF tag = "map" THEN map(Collected(got[1].keys, got[1].items), got[1].at)
            ELSE [ok |-> TRUE, v |-> ListOf(got[1].items), at |-> got[1].at]
    IN CASE depth > MaxDepth -> Wrong
         [] tag \in {"null", "true", "false"} -> leaf(Val(tag, <<>>, <<>>, <<>>), 1)
         [] tag \in {"i64", "u64"} /\ next[1] = "word" -> leaf(Val(tag, <<next[2]>>, <<>>, <<>>), 2)
         [] tag = "ref" /\ next[1] = "location" /\ next[2] # 0 -> leaf(Val(tag, <<next[2]>>, <<>>, <<>>), 2)
         [] tag = "bytes" /\ next = <<"n", 32>> /\ At(b, at + 2)[1] = "id" ->
              leaf(Val("digest", <<At(b, at + 2)[2]>>, <<>>, <<>>), 3)
         [] tag \in {"string", "bytes"} /\ <<next, At(b, at + 2)[1]>> # <<<<"n", 32>>, "id">> -> text(ReadText(b, at + 1, tag = "string"))
         [] tag \in {"list", "map"} /\ next[1] = "n" /\ ~OverCount(next[2]) ->
              items(ReadItems(b, at + 2, next[2], depth + 1, tag = "map"))
         [] OTHER -> Wrong

(* The next n items, with their keys in a map: <<>> when one of them is wrong. *)
ReadItems(b, at, n, depth, keyed) ==
    LET before(key, item, rest) ==
            IF rest = <<>> \/ (keyed /\ n > 1 /\ OutOfOrder(key.v.data, rest[1].keys[1])) THEN <<>>
            ELSE <<[keys |-> (IF keyed THEN <<key.v.data>> ELSE <<>>) \o rest[1].keys,
                    items |-> <<item.v>> \o rest[1].items, at |-> rest[1].at]>>
        from(key, item) ==
            IF item.ok THEN before(key, item, ReadItems(b, item.at, n - 1, depth, keyed)) ELSE <<>>
        after(key) == IF key.ok THEN from(key, Read(b, key.at, depth)) ELSE <<>>
    IN IF n = 0 THEN <<[keys |-> <<>>, items |-> <<>>, at |-> at]>>
       ELSE after(IF keyed THEN ReadText(b, at, TRUE) ELSE [ok |-> TRUE, v |-> Null, at |-> at])

(* A decoder leaves nothing of the stream. *)
Entire(r, b) == IF r.ok /\ r.at = Len(b) + 1 THEN <<r.v>> ELSE <<>>

DecodeSchemaValue(b) == IF Size(b) <= MaxBytes THEN Entire(Read(b, 1, 0), b) ELSE <<>>

Decode(b) == IF Size(b) + 4 > MaxBytes THEN <<>> ELSE DecodeSchemaValue(b)

-----------------------------------------------------------------------------
(* Schemas: a kind, the names of fields or variants, and the schemas inside. *)

Schema(kind, names, inner) == [kind |-> kind, names |-> names, inner |-> inner, id |-> 0]
Unit == Schema("Unit", <<>>, <<>>)        \* the payload of a unit variant: None
Scalars == {"Bool", "I64", "U64", "String", "Bytes"}

(* The names of kinds are texts of their own. *)
Names == << "Bool", "I64", "U64", "String", "Bytes", "List", "Option",
            "Struct", "Variants", "Tagged", "Ref" >>
NameOf(kind) == <<100 + CHOOSE i \in DOMAIN Names : Names[i] = kind>>
Named(text) == \E i \in DOMAIN Names : text = <<100 + i>>
KindOf(text) == Names[text[1] - 100]

(* ValueSchema::validate *)
RECURSIVE Valid(_, _)
Valid(s, depth) ==
    /\ depth <= MaxDepth
    /\ s.kind \in {"Struct", "Variants", "Tagged"} => \A i \in DOMAIN s.names : Identifier(s.names[i])
    /\ s.kind \in {"Variants", "Tagged"} => s.names # <<>>
    /\ s.kind = "Variants" => Ascends(s.names)
    /\ \A i \in DOMAIN s.inner : s.inner[i] # Unit => Valid(s.inner[i], depth + 1)

Pair(kind, inner) == ListOf(<<Text(NameOf(kind)), inner>>)

(* ValueSchema::descriptor *)
RECURSIVE Descriptor(_)
Descriptor(s) ==
    LET inner == [i \in DOMAIN s.inner |-> Descriptor(s.inner[i])] IN
    CASE s.kind = "Unit" -> Null
      [] s.kind \in Scalars -> Text(NameOf(s.kind))
      [] s.kind \in {"List", "Option"} -> Pair(s.kind, inner[1])
      [] s.kind \in {"Struct", "Tagged"} -> Pair(s.kind, MapOf(s.names, inner))
      [] s.kind = "Variants" -> Pair(s.kind, ListOf([i \in DOMAIN s.names |-> Text(s.names[i])]))
      [] s.kind = "Ref" -> Pair(s.kind, Val("digest", <<s.id>>, <<>>, <<>>))

(* Fault: names are not checked before encoding. *)
EncodeUnchecked(s) == EncodeSchemaValue(Descriptor(s))

EncodeSchema(s) == IF Valid(s, 0) THEN EncodeSchemaValue(Descriptor(s)) ELSE Bad

Payloads(kind, schemas) ==
    \A i \in DOMAIN schemas : schemas[i] # <<>> /\ (kind # "Tagged" => schemas[i] # <<Unit>>)

(* parse: a descriptor back to its schema, <<>> when it is none. *)
RECURSIVE Parse(_)
Parse(v) ==
    LET pair == v.t = "list" /\ Len(v.items) = 2 /\ v.items[1].t = "string" /\ Named(v.items[1].data)
        kind == KindOf(v.items[1].data)
        body == v.items[2]
        inner == [i \in DOMAIN body.items |-> Parse(body.items[i])]
        texts == \A i \in DOMAIN body.items : body.items[i].t = "string"
    IN CASE v.t = "null" -> <<Unit>>
         [] v.t = "string" /\ Named(v.data) /\ KindOf(v.data) \in Scalars -> <<Schema(KindOf(v.data), <<>>, <<>>)>>
         [] pair /\ kind \in {"List", "Option"} /\ Parse(body) \notin {<<>>, <<Unit>>} ->
              <<Schema(kind, <<>>, Parse(body))>>
         [] pair /\ kind \in {"Struct", "Tagged"} /\ body.t = "map" /\ Payloads(kind, inner) ->
              <<Schema(kind, body.keys, [i \in DOMAIN inner |-> inner[i][1]])>>
         [] pair /\ kind = "Variants" /\ body.t = "list" /\ texts ->
              <<Schema(kind, [i \in DOMAIN body.items |-> body.items[i].data], <<>>)>>
         [] pair /\ kind = "Ref" /\ body.t = "digest" /\ body.data # <<0>> ->
              <<[Schema(kind, <<>>, <<>>) EXCEPT !.id = body.data[1]]>>
         [] OTHER -> <<>>

(* ValueSchema::decode: a schema that is encoded as it was sent. *)
Described(v) == IF v = <<>> THEN <<>> ELSE Parse(v[1])
Reencoded(s, b) == IF s \notin {<<>>, <<Unit>>} /\ EncodeSchema(s[1]) = b THEN s ELSE <<>>
DecodeSchema(b) == Reencoded(Described(DecodeSchemaValue(b)), b)

(* compare() of two neighbours, as a constant. *)
Increases(names) == Ascends(names)

(* SchemaBytes::schema: a constant schema, whose fields are in authored order. *)
RECURSIVE PutStatic(_, _)
PutStatic(s, depth) ==
    LET open == <<<<"list", 0>>, <<"n", 2>>, <<"string", 0>>>> \o Sized(NameOf(s.kind))
        count == <<<<"n", Len(s.names)>>>>
        member(i) == Sized(s.names[i]) \o
                     IF s.inner[i] = Unit THEN <<<<"null", 0>>>> ELSE PutStatic(s.inner[i], depth + 1)
    IN CASE depth > MaxDepth -> Bad
         [] s.kind \in Scalars -> <<<<"string", 0>>>> \o Sized(NameOf(s.kind))
         [] s.kind \in {"List", "Option"} -> open \o PutStatic(s.inner[1], depth + 1)
         [] s.kind = "Ref" -> open \o <<<<"bytes", 0>>, <<"n", 32>>, <<"id", s.id>>>>
         [] s.kind \in {"Variants", "Tagged"} /\ s.names = <<>> -> Bad
         [] ~Increases(s.names) \/ Len(s.names) > MaxCount -> Bad
         [] s.kind = "Variants" ->
              open \o <<<<"list", 0>>>> \o count \o
              FlattenSeq([i \in DOMAIN s.names |-> <<<<"string", 0>>>> \o Sized(s.names[i])])
         [] OTHER -> open \o <<<<"map", 0>>>> \o count \o FlattenSeq([i \in DOMAIN s.names |-> member(i)])

(* StaticSchema::encode; a failed assertion does not compile. *)
EncodeStatic(s) == LET out == PutStatic(s, 0) IN IF Size(out) > MaxSchemaBytes THEN Bad ELSE out

(* The same schema as a ValueSchema: its fields are a BTreeMap. *)
RECURSIVE Owned(_)
Owned(s) ==
    LET inner == [i \in DOMAIN s.inner |-> Owned(s.inner[i])]
        sorted == Collected(s.names, inner)
    IN IF s.kind \in {"Struct", "Tagged"}
       THEN [s EXCEPT !.names = sorted.keys, !.inner = sorted.items]
       ELSE [s EXCEPT !.inner = inner]

(* What must be accepted inside: each item by the schema of its place. *)
Inside(s, v) ==
    LET at(k) == CHOOSE i \in DOMAIN s.names : s.names[i] = k IN
    CASE s.kind = "List" \/ (s.kind = "Option" /\ v.t = "list") ->
           {<<s.inner[1], v.items[i]>> : i \in DOMAIN v.items}
      [] s.kind \in {"Struct", "Tagged"} ->
           {<<s.inner[at(v.keys[i])], v.items[i]>> : i \in DOMAIN v.items}
      [] OTHER -> {}

(* ValueSchema::accepts *)
RECURSIVE Accepts(_, _)
Accepts(s, v) ==
    /\ \/ s.kind = "Unit" /\ v.t = "null"
       \/ s.kind = "Bool" /\ v.t \in {"true", "false"}
       \/ s.kind = "I64" /\ v.t = "i64"
       \/ s.kind = "U64" /\ v.t = "u64"
       \/ s.kind = "String" /\ v.t = "string"
       \/ s.kind = "Bytes" /\ v.t \in {"bytes", "digest"}
       \/ s.kind = "List" /\ v.t = "list"
       \/ s.kind = "Option" /\ (v.t = "null" \/ (v.t = "list" /\ Len(v.items) = 1))
       \/ s.kind = "Struct" /\ v.t = "map" /\ s.names = v.keys
       \/ s.kind = "Variants" /\ v.t = "string" /\ v.data \in ToSet(s.names)
       \/ s.kind = "Tagged" /\ v.t = "map" /\ Len(v.keys) = 1 /\ v.keys[1] \in ToSet(s.names)
       \/ s.kind = "Ref" /\ v.t = "ref"
    /\ \A p \in Inside(s, v) : Accepts(p[1], p[2])

-----------------------------------------------------------------------------
(* State requests: an opcode, a name or number, and edits of one or more locations. *)

Edit(location, n, v) == [location |-> location, n |-> n, v |-> v]
Request(op, name, number, edits) == [op |-> op, name |-> name, number |-> number, edits |-> edits]

Location(n) == Val("ref", <<n>>, <<>>, <<>>)
Number(n) == Val("u64", <<n>>, <<>>, <<>>)
Triple(e) == ListOf(<<Location(e.location), Number(e.n), e.v>>)

(* The guards of StateRequest::encode, opcode by opcode. *)
Encodable(r) ==
    CASE r.op = 1 -> Identifier(r.name)
      [] r.op \in {5, 6} -> r.number # 0
      [] r.op = 7 -> /\ r.edits # <<>>
                     /\ \A i \in 1 .. Len(r.edits) - 1 : r.edits[i].location < r.edits[i + 1].location
      [] OTHER -> TRUE

RequestValue(r) ==
    CASE r.op = 1 -> ListOf(<<Text(r.name), r.edits[1].v>>)
      [] r.op \in {2, 4} -> Location(r.number)
      [] r.op = 3 -> Triple(r.edits[1])
      [] r.op \in {5, 6} -> Number(r.number)
      [] r.op = 7 -> ListOf([i \in DOMAIN r.edits |-> Triple(r.edits[i])])

EncodeRequest(r) == IF Encodable(r) THEN Encode(RequestValue(r)) ELSE Bad

IsTriple(v) ==
    v.t = "list" /\ Len(v.items) = 3 /\ v.items[1].t = "ref" /\ v.items[2].t = "u64"

Untriple(v) == Edit(v.items[1].data[1], v.items[2].data[1], v.items[3])

RequestOf(op, v) ==
    CASE op = 1 /\ v.t = "list" /\ Len(v.items) = 2 /\ v.items[1].t = "string" ->
           <<Request(op, v.items[1].data, 0, <<Edit(0, 0, v.items[2])>>)>>
      [] op \in {2, 4} /\ v.t = "ref" -> <<Request(op, <<>>, v.data[1], <<>>)>>
      [] op = 3 /\ IsTriple(v) -> <<Request(op, <<>>, 0, <<Untriple(v)>>)>>
      [] op \in {5, 6} /\ v.t = "u64" -> <<Request(op, <<>>, v.data[1], <<>>)>>
      [] op = 7 /\ v.t = "list" /\ \A i \in DOMAIN v.items : IsTriple(v.items[i]) ->
           <<Request(op, <<>>, 0, [i \in DOMAIN v.items |-> Untriple(v.items[i])])>>
      [] OTHER -> <<>>

(* StateRequest::decode *)
Asked(request, b) == IF request # <<>> /\ EncodeRequest(request[1]) = b THEN request ELSE <<>>
Requested(op, v, b) == IF v = <<>> THEN <<>> ELSE Asked(RequestOf(op, v[1]), b)
DecodeRequest(op, b) == Requested(op, Decode(b), b)

-----------------------------------------------------------------------------

Encoding(d) ==
    CASE d.kind = "value" -> Encode(d.content)
      [] d.kind = "typed" -> IF Fine(EncodeSchema(d.schema)) /\ Accepts(d.schema, d.content)
                             THEN Encode(d.content) ELSE Bad
      [] d.kind = "schema" -> EncodeSchema(d.content)
      [] d.kind = "static" -> EncodeStatic(d.content)
      [] d.kind = "request" -> EncodeRequest(d.content)

Decoding(d, b) ==
    CASE d.kind \in {"value", "typed"} -> Decode(b)
      [] d.kind \in {"schema", "static"} -> DecodeSchema(b)
      [] d.kind = "request" -> DecodeRequest(d.content.op, b)

Init == doc \in Documents /\ wire = <<>> /\ whole = FALSE /\ read = <<>>

Send ==
    /\ wire = <<>>
    /\ wire' = Encoding(doc) /\ whole' = Fine(wire')
    /\ UNCHANGED <<doc, read>>

(* One token is lost, added or another one arrives. *)
Damage ==
    /\ whole /\ read = <<>> /\ Len(wire) <= MaxDamaged
    /\ \/ \E i \in DOMAIN wire, t \in Fragments : wire' = [wire EXCEPT ![i] = t]
       \/ \E i \in DOMAIN wire : wire' = RemoveAt(wire, i)
       \/ \E t \in Fragments : wire' = Append(wire, t)
    /\ wire' \notin {wire, <<>>} /\ whole' = FALSE
    /\ UNCHANGED <<doc, read>>

Receive ==
    /\ wire \notin {<<>>, Bad} /\ Fine(wire) /\ read = <<>>
    /\ read' = <<Decoding(doc, wire)>>
    /\ UNCHANGED <<doc, wire, whole>>

Next == Send \/ Damage \/ Receive
Spec == Init /\ [][Next]_vars

Got(kind) == doc.kind = kind /\ read \notin {<<>>, <<<<>>>>}

(* Every schema that was decoded is one that ValueSchema::validate admits. *)
TypeOK ==
    /\ Len(read) <= 1
    /\ (Got("schema") \/ Got("static")) => Valid(read[1][1], 0)

(* What one side encodes, the other decodes as the same value, schema or request: a limit, a *)
(* null payload or an empty collection never changes or loses it (encode and decode). *)
RoundTrips ==
    read # <<>> /\ whole /\ doc.kind # "static" => read[1] = <<doc.content>>

(* A value has one encoding: whatever bytes arrive, those that decode are the ones encode *)
(* returns for what was read (decode_schema). *)
OneEncoding ==
    /\ Got("value") => Encode(read[1][1]) = wire
    /\ Got("request") => EncodeRequest(read[1][1]) = wire

(* A cell's value never exceeds the depth limit when its schema does not: only its size or *)
(* the number of its items can make publishing fail (accepts, encode_schema). *)
RECURSIVE Countable(_)
Countable(v) == Len(v.items) <= MaxCount /\ \A i \in DOMAIN v.items : Countable(v.items[i])
AcceptedValuesFitDepth ==
    doc.kind = "typed" /\ wire = <<>> /\ Fine(EncodeSchema(doc.schema)) /\ Accepts(doc.schema, doc.content)
        /\ Countable(doc.content)
    => Fine(Put(doc.content, 0))

(* A constant schema that compiles has the bytes of the owned schema with the same fields, *)
(* whenever there is one: identities of independently built plugins agree (static_schema). *)
StaticMatchesOwned ==
    doc.kind = "static" /\ wire = <<>> /\ Fine(EncodeStatic(doc.content)) /\ Fine(EncodeSchema(Owned(doc.content)))
    => EncodeStatic(doc.content) = EncodeSchema(Owned(doc.content))
=============================================================================
