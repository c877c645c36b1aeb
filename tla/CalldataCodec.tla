---------------------------- MODULE CalldataCodec ---------------------------
(***************************************************************************)
(* Typed encoding and decoding (crates/calldata/src/codec and the derive   *)
(* macros of crates/calldata-derive).                                      *)
(*                                                                         *)
(* A type is a record whose kind names the impl of Decode and Encode.  An  *)
(* object is a scalar value, or a tuple that names its constructor.  The   *)
(* same impl reads from two sources, the bytes of the wire or a Value in   *)
(* memory, and what the executor accepts must not depend on which: gl_call *)
(* decodes a Value first, run.rs and the SDK read bytes.                   *)
(***************************************************************************)
EXTENDS Calldata

(*----- types -------------------------------------------------------------*)

ValueTy == [kind |-> "value"]
BoolTy == [kind |-> "bool"]
IntTy(lo, hi) == [kind |-> "int", lo |-> lo, hi |-> hi]
BigIntTy == [kind |-> "bigint"]
StrTy == [kind |-> "str"]
BytesTy == [kind |-> "bytes"]
AddressTy == [kind |-> "address"]
UnitTy == [kind |-> "unit"]
Option(of) == [kind |-> "option", of |-> of]
Vec(of) == [kind |-> "vec", of |-> of]
BTreeMap(of) == [kind |-> "btree", of |-> of]
Maybe(of) == [kind |-> "maybe", of |-> of]
Tuple(tys) == [kind |-> "tuple", tys |-> tys]
Struct(fields) == [kind |-> "struct", fields |-> fields]
External(variants) == [kind |-> "external", variants |-> variants]
Tagged(tag, variants) == [kind |-> "tagged", tag |-> tag, variants |-> variants]
Untagged(variants) == [kind |-> "untagged", variants |-> variants]
Lenient(tag, variants) == [kind |-> "lenient", tag |-> tag, variants |-> variants]   \* hand-written
With(of) == [kind |-> "with", of |-> of]   \* deserialize_with: a Value goes to a function
Text(read, show) == [kind |-> "text", read |-> read, show |-> show]   \* a parsed string
FixedBytes(n) == [kind |-> "fixed", size |-> n]   \* as_bytes of [u8; N]

\* default is <<>> for a field that must be there, <<object>> for one that may be left out.
Field(wire, ty) == [wire |-> wire, ty |-> ty, default |-> <<>>]
Optional(wire, ty, o) == [wire |-> wire, ty |-> ty, default |-> <<o>>]

UnitVariant(wire) == [wire |-> wire, shape |-> "unit"]
Newtype(wire, ty) == [wire |-> wire, shape |-> "newtype", ty |-> ty]
TupleVariant(wire, tys) == [wire |-> wire, shape |-> "tuple", ty |-> Tuple(tys)]
Named(wire, fields) == [wire |-> wire, shape |-> "named", fields |-> fields]

Wires(s) == {s[i].wire : i \in DOMAIN s}
At(s, wire) == s[CHOOSE i \in DOMAIN s : s[i].wire = wire]

(*----- deserializers -----------------------------------------------------*)

FromBytes(d, depth) == [by |-> "bytes", data |-> d, depth |-> depth]
FromValue(v) == [by |-> "value", value |-> v]

deserialize_one(src) ==
  Then(FetchHead(src.data, src.depth), LAMBDA head, d :
    IF head[1] \in {"seq", "map"}
    THEN Ok(head, [by |-> "bytes", kind |-> head[1], data |-> d, depth |-> src.depth + 1,
                   left |-> head[2], prev |-> <<>>])
    ELSE Ok(head, [src EXCEPT !.data = d]))

\* dispatch_ref and dispatch_owned: a container is walked as pairs of key and value
dispatch(src) ==
  LET v == src.value
  IN  CASE v[1] = "array" ->
             Ok(<<"seq", Len(v[2])>>,
                [by |-> "value", left |-> [i \in DOMAIN v[2] |-> <<i, v[2][i]>>]])
        [] v[1] = "map" ->
             LET keys == InOrder(DOMAIN v[2])
             IN  Ok(<<"map", Len(keys)>>,
                    [by |-> "value", left |-> [i \in DOMAIN keys |-> <<keys[i], v[2][keys[i]]>>]])
        [] OTHER -> Ok(v, src)

\* What the visitor is called with, and the access to the parts if it is a container
deserialize(src) == IF src.by = "bytes" THEN deserialize_one(src) ELSE dispatch(src)

Leave(acc) == IF acc.by = "bytes" THEN FromBytes(acc.data, acc.depth - 1) ELSE acc

NoMore == <<"end">>

\* Mutant: the key may repeat the one before it.
next_key_Repeats(acc, i) ==
  CASE acc.by = "value" /\ acc.left = <<>> -> NoMore
    [] acc.by = "value" /\ acc.left # <<>> -> Ok(Head(acc.left)[1], acc)
    [] acc.by = "bytes" /\ acc.left = 0 -> NoMore
    [] acc.by = "bytes" /\ acc.left # 0 /\ acc.kind = "seq" -> Ok(i, [acc EXCEPT !.left = @ - 1])
    [] OTHER ->
         Then(fetch_map_key(acc.data), LAMBDA key, d :
           IF acc.prev # <<>> /\ Before(key, acc.prev[1]) THEN Err("InvalidMapOrdering")
           ELSE Ok(key, [acc EXCEPT !.data = d, !.left = @ - 1, !.prev = <<key>>]))

\* The key of the next part (for an element, its position i), or the end
next_key(acc, i) ==
  CASE acc.by = "value" /\ acc.left = <<>> -> NoMore
    [] acc.by = "value" /\ acc.left # <<>> -> Ok(Head(acc.left)[1], acc)
    [] acc.by = "bytes" /\ acc.left = 0 -> NoMore
    [] acc.by = "bytes" /\ acc.left # 0 /\ acc.kind = "seq" -> Ok(i, [acc EXCEPT !.left = @ - 1])
    [] OTHER ->
         Then(fetch_map_key(acc.data), LAMBDA key, d :
           IF acc.prev # <<>> /\ ~Before(acc.prev[1], key) THEN Err("InvalidMapOrdering")
           ELSE Ok(key, [acc EXCEPT !.data = d, !.left = @ - 1, !.prev = <<key>>]))

Pending(acc) ==
  IF acc.by = "bytes" THEN FromBytes(acc.data, acc.depth) ELSE FromValue(Head(acc.left)[2])
Advance(acc, src) ==
  IF acc.by = "bytes" THEN [acc EXCEPT !.data = src.data] ELSE [acc EXCEPT !.left = Tail(@)]

(*----- decoding ----------------------------------------------------------*)

\* Which type each part is decoded as: known parts, and what any other part is
All(ty) == [known |-> <<>>, other |-> <<ty>>]
Only(f) == [known |-> f, other |-> <<>>]
Members(parts) == [i \in DOMAIN parts |-> parts[i][2]]
AsMap(parts) ==
  [k \in {parts[i][1] : i \in DOMAIN parts} |->
     parts[Max({i \in DOMAIN parts : parts[i][1] = k})][2]]

\* The fields of a struct or variant from the parts that were read
Assemble(fields, got, o) ==
  IF \E i \in DOMAIN fields : fields[i].wire \notin DOMAIN got /\ fields[i].default = <<>>
  THEN Err("FieldMissing")
  ELSE Ok([w \in Wires(fields) |->
             IF w \in DOMAIN got THEN got[w] ELSE At(fields, w).default[1]], o)

\* The union of the variants' fields; a name with two types is read as a deferred value
Signatures(variants, w) ==
  {At(variants[i].fields, w).ty :
     i \in {j \in DOMAIN variants : variants[j].shape = "named" /\ w \in Wires(variants[j].fields)}}
UnionWires(variants) ==
  UNION {IF variants[i].shape = "named" THEN Wires(variants[i].fields) ELSE {} : i \in DOMAIN variants}
SlotTy(variants, w) ==
  IF Cardinality(Signatures(variants, w)) = 1 THEN CHOOSE ty \in Signatures(variants, w) : TRUE
  ELSE Maybe(ValueTy)
Required(v) ==
  IF v.shape = "unit" THEN 1
  ELSE 1 + Cardinality({i \in DOMAIN v.fields : v.fields[i].default = <<>>})
Admitted(v) == IF v.shape = "unit" THEN 1 ELSE 1 + Len(v.fields)

RECURSIVE Decode(_, _), Visit(_, _, _), Parts(_, _, _), Attempt(_, _, _),
          VisitStruct(_, _), VisitNamed(_, _), VisitExternal(_, _, _), VisitTagged(_, _, _),
          VisitLenient(_, _), Convert(_, _, _)

\* T::decode; for a deferred field, bytes are validated as T and kept, except inside an
\* Option, which hands T what it has read
Decode(T, src) ==
  CASE T.kind = "maybe" ->
         Then(Decode(T.of, src), LAMBDA o, s :
           IF src.by = "value" THEN Ok(<<"materialized", o>>, s)
           ELSE Ok(<<"checked", SubSeq(src.data, 1, Len(src.data) - Len(s.data))>>, s))
    [] T.kind = "with" ->
         Then(Decode(ValueTy, src), LAMBDA v, s :
           Then(Decode(T.of, FromValue(v)), LAMBDA o, s1 : Ok(o, s)))
    [] T.kind = "untagged" ->
         Then(Decode(ValueTy, src), LAMBDA v, s : Attempt(T.variants, v, s))
    [] T.kind = "option" ->
         Then(deserialize(src), LAMBDA head, x :
           IF head = Null THEN Ok(<<"none">>, x)
           ELSE LET lazy == T.of.kind = "maybe"
                IN  Then(Decode(IF lazy THEN T.of.of ELSE T.of, src), LAMBDA o, s :
                      Ok(<<"some", IF lazy THEN <<"materialized", o>> ELSE o>>, s)))
    [] OTHER -> Then(deserialize(src), LAMBDA head, x : Visit(T, head, x))

\* Every part of a container, in order, as <<key, object>>
Parts(types, acc, got) ==
  LET k == next_key(acc, Len(got) + 1)
  IN  IF k = NoMore THEN Ok(got, Leave(acc))
      ELSE Then(k, LAMBDA key, a :
             LET ty == IF key \in DOMAIN types.known THEN <<types.known[key]>> ELSE types.other
             IN  IF ty = <<>> THEN Err("UnknownField")
                 ELSE Then(Decode(ty[1], Pending(a)), LAMBDA o, s :
                        Parts(types, Advance(a, s), Append(got, <<key, o>>))))

\* The visitors: head is what the deserializer found, x what it left
Visit(T, head, x) ==
  CASE T.kind = "value" ->
         (CASE head[1] = "seq" ->
                 Then(Parts(All(ValueTy), x, <<>>), LAMBDA p, s : Ok(Array(Members(p)), s))
            [] head[1] = "map" ->
                 Then(Parts(All(ValueTy), x, <<>>), LAMBDA p, s : Ok(Map(AsMap(p)), s))
            [] OTHER -> Ok(head, x))
    [] T.kind = "bool" /\ head[1] = "bool" -> Ok(head, x)
    [] T.kind = "int" /\ head[1] = "number" ->
         IF head[2] \in T.lo..T.hi THEN Ok(head, x) ELSE Err("OutOfRange")
    [] T.kind = "bigint" /\ head[1] = "number" -> Ok(head, x)
    [] T.kind = "str" /\ head[1] = "str" -> Ok(head, x)
    [] T.kind = "text" /\ head[1] = "str" ->
         IF head[2] \in DOMAIN T.read THEN Ok(T.read[head[2]], x) ELSE Err("UserError")
    [] T.kind = "bytes" /\ head[1] = "bytes" -> Ok(head, x)
    [] T.kind = "fixed" /\ head[1] = "bytes" ->
         IF Len(head[2]) = T.size THEN Ok(head, x) ELSE Err("Unexpected")
    [] T.kind = "address" /\ head[1] = "address" -> Ok(head, x)
    [] T.kind = "unit" /\ head[1] = "null" -> Ok(<<"unit">>, x)
    [] T.kind = "vec" /\ head[1] = "seq" ->
         Then(Parts(All(T.of), x, <<>>), LAMBDA p, s : Ok(<<"vec", Members(p)>>, s))
    [] T.kind = "btree" /\ head[1] = "map" ->
         Then(Parts(All(T.of), x, <<>>), LAMBDA p, s : Ok(<<"btree", AsMap(p)>>, s))
    [] T.kind = "tuple" /\ head[1] = "seq" ->
         IF head[2] # Len(T.tys) THEN Err("LengthMismatch")
         ELSE Then(Parts(Only(T.tys), x, <<>>), LAMBDA p, s : Ok(<<"tuple", Members(p)>>, s))
    [] T.kind = "struct" /\ head[1] = "map" -> VisitStruct(T.fields, x)
    [] T.kind = "external" -> VisitExternal(T.variants, head, x)
    [] T.kind = "tagged" /\ head[1] = "map" -> VisitTagged(T, head[2], x)
    [] T.kind = "lenient" /\ head[1] = "map" -> VisitLenient(T, x)
    [] OTHER -> Err("UnexpectedKind")

\* decode_named_fields of a struct: each part becomes a Value before its field's type
VisitStruct(fields, x) ==
  Then(Parts(All(ValueTy), x, <<>>), LAMBDA p, s :
    IF \E i \in DOMAIN p : p[i][1] \notin Wires(fields) THEN Err("UnknownField")
    ELSE Then(Convert(fields, [w \in DOMAIN AsMap(p) |-> FromValue(AsMap(p)[w])], <<>>), LAMBDA got, t :
           Then(Assemble(fields, got, s), LAMBDA o, s1 : Ok(<<"struct", o>>, s1))))

\* Decode what is waiting in srcs, each as the type of its field
Convert(fields, srcs, got) ==
  IF DOMAIN srcs \subseteq DOMAIN got THEN Ok(got, <<>>)
  ELSE LET w == CHOOSE w \in DOMAIN srcs : w \notin DOMAIN got
       IN  Then(Decode(At(fields, w).ty, srcs[w]), LAMBDA o, s :
             Convert(fields, srcs, (w :> o) @@ got))

\* The named fields of an external variant: typed values straight from the source
VisitNamed(fields, src) ==
  Then(deserialize(src), LAMBDA head, x :
    IF head[1] # "map" THEN Err("UnexpectedKind")
    ELSE Then(Parts(Only([w \in Wires(fields) |-> At(fields, w).ty]), x, <<>>), LAMBDA p, s :
           Assemble(fields, AsMap(p), s)))

\* The payload of a variant
Payload(v, src) ==
  IF v.shape = "named" THEN VisitNamed(v.fields, src) ELSE Decode(v.ty, src)

\* "Variant" or {"Variant": payload}
VisitExternal(variants, head, x) ==
  CASE head[1] = "str" ->
         IF \E i \in DOMAIN variants : variants[i] = UnitVariant(head[2])
         THEN Ok(<<"variant", head[2], <<"unit">>>>, x) ELSE Err("UnknownVariant")
    [] head[1] = "map" /\ head[2] # 1 -> Err("LengthMismatch")
    [] head[1] = "map" /\ head[2] = 1 ->
         Then(next_key(x, 1), LAMBDA key, a :
           IF key \notin Wires(variants) \/ At(variants, key).shape = "unit"
           THEN Err("UnknownVariant")
           ELSE Then(Payload(At(variants, key), Pending(a)), LAMBDA o, s :
                  Ok(<<"variant", key, o>>, Leave(Advance(a, s)))))
    [] OTHER -> Err("UnexpectedKind")

\* The parts that were read and are not of the variant
Foreign(v, got) == DOMAIN got \ IF v.shape = "unit" THEN {} ELSE Wires(v.fields)

\* decode_into: a deferred value is read from its bytes, at depth 0, or from memory.
Deferred(m) == IF m[1] = "checked" THEN FromBytes(m[2], 0) ELSE FromValue(m[2])

\* {"tag": "Variant", fields...}, the tag wherever its name sorts: one pass into the
\* slots of the union, then the variant is assembled
VisitTagged(T, len, x) ==
  LET vs == T.variants
      slots == (T.tag :> StrTy) @@ [w \in UnionWires(vs) |-> SlotTy(vs, w)]
  IN  IF len < Min({Required(vs[i]) : i \in DOMAIN vs}) \/ len > Max({Admitted(vs[i]) : i \in DOMAIN vs})
      THEN Err("LengthMismatch")
      ELSE Then(Parts(Only(slots), x, <<>>), LAMBDA p, s :
        LET all == AsMap(p)
            got == [w \in DOMAIN all \ {T.tag} |-> all[w]]
        IN  IF T.tag \notin DOMAIN all THEN Err("FieldMissing")
            ELSE IF all[T.tag][2] \notin Wires(vs) THEN Err("UnknownVariant")
            ELSE LET v == At(vs, all[T.tag][2])
                     fs == IF v.shape = "unit" THEN <<>> ELSE v.fields
                     slow == {w \in Wires(fs) \cap DOMAIN got : SlotTy(vs, w) # At(fs, w).ty}
                     quick == [w \in (Wires(fs) \cap DOMAIN got) \ slow |-> got[w]]
                 IN  IF Foreign(v, got) # {} THEN Err("UnknownField")
                     ELSE Then(Convert(fs, [w \in slow |-> Deferred(got[w])], quick), LAMBDA ready, t :
                         Then(Assemble(fs, ready, s), LAMBDA o, s1 :
                           Ok(<<"variant", v.wire, IF v.shape = "unit" THEN <<"unit">> ELSE o>>, s1))))

\* The decoder PromptTemplatePayload has instead: a part the variant has no field for is
\* ignored.
VisitLenient(T, x) ==
  Then(Parts(All(ValueTy), x, <<>>), LAMBDA p, s :
    LET entries == AsMap(p)
    IN  IF T.tag \notin DOMAIN entries THEN Err("FieldMissing")
        ELSE IF entries[T.tag][1] # "str" THEN Err("Unexpected")
        ELSE IF entries[T.tag][2] \notin Wires(T.variants) THEN Err("UnknownVariant")
        ELSE LET v == At(T.variants, entries[T.tag][2])
             IN  IF ~(Wires(v.fields) \subseteq DOMAIN entries) THEN Err("FieldMissing")
                 ELSE Then(Convert(v.fields, [w \in Wires(v.fields) |-> FromValue(entries[w])], <<>>),
                           LAMBDA got, t : Ok(<<"variant", v.wire, got>>, s)))

\* Untagged: the first variant that decodes from the value wins.
Attempt(variants, v, s) ==
  IF variants = <<>> THEN Err("UnknownVariant")
  ELSE LET first == Head(variants)
           r == IF first.shape = "unit" THEN Decode(UnitTy, FromValue(v))
                ELSE IF first.shape = "named" THEN Decode(Struct(first.fields), FromValue(v))
                ELSE Payload(first, FromValue(v))
           payload == IF first.shape = "named" /\ IsOk(r) THEN r[2][2] ELSE r[2]
       IN  IF IsOk(r) THEN Ok(<<"variant", first.wire, payload>>, s)
           ELSE Attempt(Tail(variants), v, s)

from_value(T, v) == Decode(T, FromValue(v))
decode_obj(T, d) == AtEnd(Then(Decode(T, FromBytes(d, 0)), LAMBDA o, s : Ok(o, s.data)))

(*----- encoding ----------------------------------------------------------*)

RECURSIVE Encode(_, _), EncodePayload(_, _)

\* The entries of a map whose keys are field names, in the order of the names
EncodeFields(fields, o) ==
  LET names == InOrder(Wires(fields))
  IN  [i \in DOMAIN names |-> push_map_k(names[i]) \o Encode(At(fields, names[i]).ty, o[names[i]])]

\* Mutant: the tag is always the first entry.
TagPosition_First(fields, tag) == 1

\* Where the tag goes among the sorted fields
TagPosition(fields, tag) ==
  1 + Cardinality({w \in Wires(fields) : ~Before(tag, w)})

EncodePayload(v, o) ==
  IF v.shape = "named" THEN start_map(Len(v.fields)) \o FlattenSeq(EncodeFields(v.fields, o))
  ELSE Encode(v.ty, o)

\* encode_obj
Encode(T, o) ==
  CASE T.kind = "maybe" -> IF o[1] = "checked" THEN o[2] ELSE Encode(T.of, o[2])
    [] T.kind = "with" -> Encode(T.of, o)
    [] T.kind = "option" -> IF o = <<"none">> THEN push_null ELSE Encode(T.of, o[2])
    [] T.kind = "vec" -> start_array(Len(o[2])) \o FlattenSeq([i \in DOMAIN o[2] |-> Encode(T.of, o[2][i])])
    [] T.kind = "tuple" ->
         start_array(Len(T.tys)) \o FlattenSeq([i \in DOMAIN T.tys |-> Encode(T.tys[i], o[2][i])])
    [] T.kind = "btree" ->
         LET keys == InOrder(DOMAIN o[2])
         IN  start_map(Len(keys)) \o
               FlattenSeq([i \in DOMAIN keys |-> push_map_k(keys[i]) \o Encode(T.of, o[2][keys[i]])])
    [] T.kind = "unit" -> push_null
    [] T.kind = "text" -> push_str(T.show[o])
    [] T.kind = "struct" -> start_map(Len(T.fields)) \o FlattenSeq(EncodeFields(T.fields, o[2]))
    [] T.kind = "external" ->
         LET v == At(T.variants, o[2])
         IN  IF v.shape = "unit" THEN push_str(v.wire)
             ELSE start_map(1) \o push_map_k(v.wire) \o EncodePayload(v, o[3])
    [] T.kind \in {"tagged", "lenient"} ->
         LET v == At(T.variants, o[2])
             fs == IF v.shape = "unit" THEN <<>> ELSE v.fields
         IN  start_map(Len(fs) + 1) \o
               FlattenSeq(InsertAt(EncodeFields(fs, o[3]), TagPosition(fs, T.tag),
                                   push_map_k(T.tag) \o push_str(v.wire)))
    [] T.kind = "untagged" ->
         LET v == At(T.variants, o[2])
         IN  IF v.shape = "unit" THEN push_null ELSE EncodePayload(v, o[3])
    [] OTHER -> encode(o)

\* to_value: through the wire; the code panics if this is not Ok
to_value(T, o) == decode(Encode(T, o))
=============================================================================
