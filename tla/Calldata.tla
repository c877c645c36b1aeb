------------------------------ MODULE Calldata ------------------------------
(***************************************************************************)
(* Calldata, the wire format of every message between a contract, the      *)
(* executor, its modules and the host (crates/calldata).                   *)
(*                                                                         *)
(* A value is a tagged tuple; a string is the sequence of its bytes; a map *)
(* is a function of its keys, walked in the byte order of the keys, as a   *)
(* BTreeMap is.  A decoder's answer is Ok(what it read, what is left) or   *)
(* Err(the reason).                                                        *)
(*                                                                         *)
(* Two executions of a contract are compared by hashes of what they wrote, *)
(* so each value must have exactly one wire form: fetch_val, the decoder   *)
(* of whole values, rejects all the others.                                *)
(***************************************************************************)
EXTENDS Integers, Sequences, FiniteSets, SequencesExt, FiniteSetsExt, Functions

CONSTANTS
  ADDRESS_SIZE,   \* bytes of an address
  MAX_DEPTH,      \* containers that may be open at once: 128 in the code
  SIZE_BITS       \* bits of a length: 32 in the code

ASSUME CalldataAssumption ==
  ADDRESS_SIZE \in Nat /\ MAX_DEPTH \in Nat /\ SIZE_BITS \in Nat

TYPE_SPECIAL == 0
TYPE_PINT == 1
TYPE_NINT == 2
TYPE_BYTES == 3
TYPE_STR == 4
TYPE_ARR == 5
TYPE_MAP == 6
SPECIAL_NULL == 0
SPECIAL_FALSE == 8
SPECIAL_TRUE == 16
SPECIAL_ADDR == 24

Null == <<"null">>
Bool(b) == <<"bool", b>>
Number(n) == <<"number", n>>
Str(s) == <<"str", s>>
Bytes(s) == <<"bytes", s>>
Address(s) == <<"address", s>>
Array(s) == <<"array", s>>
Map(f) == <<"map", f>>

Ok(v, rest) == <<"ok", v, rest>>
Err(why) == <<"err", why>>
IsOk(r) == r[1] = "ok"
Then(r, F(_, _)) == IF IsOk(r) THEN F(r[2], r[3]) ELSE r   \* the code's `?`

\* The byte order of strings
Before(a, b) ==
  \/ Len(a) < Len(b) /\ a = SubSeq(b, 1, Len(a))
  \/ \E i \in 1..Len(a) :
       i <= Len(b) /\ a[i] < b[i] /\ SubSeq(a, 1, i - 1) = SubSeq(b, 1, i - 1)

\* The members of a finite set of strings in that order
InOrder(keys) ==
  [i \in 1..Cardinality(keys) |->
     CHOOSE k \in keys : Cardinality({j \in keys : Before(j, k)}) = i - 1]

\* ASCII and the two-byte forms; the inputs have no byte that starts a longer one
IsUtf8(s) ==
  \A i \in 1..Len(s) :
     \/ s[i] < 128
     \/ s[i] \in 194..223 /\ i < Len(s) /\ s[i + 1] \in 128..191
     \/ s[i] \in 128..191 /\ i > 1 /\ s[i - 1] \in 194..223

(*----- encoder -----------------------------------------------------------*)

RECURSIVE write_uleb(_)
write_uleb(n) ==
  IF n < 128 THEN <<n>> ELSE <<128 + (n % 128)>> \o write_uleb(n \div 128)

write_tagged_uleb(tag, n) == write_uleb(n * 8 + tag)
start_array(n) == write_tagged_uleb(TYPE_ARR, n)
start_map(n) == write_tagged_uleb(TYPE_MAP, n)
push_null == <<SPECIAL_NULL>>
push_bool(b) == <<IF b THEN SPECIAL_TRUE ELSE SPECIAL_FALSE>>

push_bigint(n) ==
  IF n < 0 THEN write_tagged_uleb(TYPE_NINT, -(n + 1)) ELSE write_tagged_uleb(TYPE_PINT, n)

push_str(s) == write_tagged_uleb(TYPE_STR, Len(s)) \o s
push_bytes(s) == write_tagged_uleb(TYPE_BYTES, Len(s)) \o s
push_address(s) == <<SPECIAL_ADDR>> \o s
push_map_k(k) == write_uleb(Len(k)) \o k

RECURSIVE encode(_)
encode(v) ==
  CASE v[1] = "null" -> push_null
    [] v[1] = "bool" -> push_bool(v[2])
    [] v[1] = "number" -> push_bigint(v[2])
    [] v[1] = "str" -> push_str(v[2])
    [] v[1] = "bytes" -> push_bytes(v[2])
    [] v[1] = "address" -> push_address(v[2])
    [] v[1] = "array" ->
         start_array(Len(v[2])) \o FlattenSeq([i \in DOMAIN v[2] |-> encode(v[2][i])])
    [] v[1] = "map" ->
         LET keys == InOrder(DOMAIN v[2])
         IN  start_map(Len(keys)) \o
               FlattenSeq([i \in DOMAIN keys |-> push_map_k(keys[i]) \o encode(v[2][keys[i]])])

(*----- decoder of whole values -------------------------------------------*)

\* Mutant: a number may end in a zero byte.
fetch_uleb_Padded(d) ==
  LET ends == {i \in DOMAIN d : d[i] < 128}
  IN  IF ends = {} THEN Err("UnterminatedUleb")
      ELSE Ok(MapThenSumSet(LAMBDA i : (d[i] % 128) * 128^(i - 1), 1..Min(ends)),
              SubSeq(d, Min(ends) + 1, Len(d)))

fetch_uleb(d) ==
  LET ends == {i \in DOMAIN d : d[i] < 128}
  IN  CASE ends = {} -> Err("UnterminatedUleb")
        [] ends # {} /\ Min(ends) > 1 /\ d[Min(ends)] = 0 -> Err("InvalidUlebEncoding")
        [] OTHER -> Ok(MapThenSumSet(LAMBDA i : (d[i] % 128) * 128^(i - 1), 1..Min(ends)),
                       SubSeq(d, Min(ends) + 1, Len(d)))

fetch_slice(d, n) ==
  IF Len(d) < n THEN Err("UnexpectedEnd")
  ELSE Ok(SubSeq(d, 1, n), SubSeq(d, n + 1, Len(d)))

map_to_size(n, d) == IF n >= 2^SIZE_BITS THEN Err("ContainerSizeTooLarge") ELSE Ok(n, d)

fetch_map_key(d) ==
  Then(fetch_uleb(d), LAMBDA n, d1 :
    Then(map_to_size(n, d1), LAMBDA size, d2 :
      Then(fetch_slice(d2, size), LAMBDA s, d3 :
        IF IsUtf8(s) THEN Ok(s, d3) ELSE Err("InvalidUtf8"))))

\* A length-prefixed string of bytes, as a value of a kind
FetchBytes(n, d, kind) ==
  Then(map_to_size(n, d), LAMBDA size, d1 :
    Then(fetch_slice(d1, size), LAMBDA s, d2 : Ok(<<kind, s>>, d2)))

\* A value with no parts, or the opening of a container with n parts
FetchHead(d, open) ==
  Then(fetch_uleb(d), LAMBDA n, d1 :
    LET typ == n % 8
        val == n \div 8
        Opening(kind, per) ==
          IF open >= MAX_DEPTH THEN Err("MaxDepthExceeded")
          ELSE Then(map_to_size(val, d1), LAMBDA size, d2 :
                 IF Len(d2) < per * size THEN Err("UnexpectedEnd") ELSE Ok(<<kind, size>>, d2))
    IN  CASE n = SPECIAL_NULL -> Ok(Null, d1)
          [] n = SPECIAL_FALSE -> Ok(Bool(FALSE), d1)
          [] n = SPECIAL_TRUE -> Ok(Bool(TRUE), d1)
          [] n = SPECIAL_ADDR ->
               Then(fetch_slice(d1, ADDRESS_SIZE), LAMBDA s, d2 : Ok(Address(s), d2))
          [] typ = TYPE_PINT -> Ok(Number(val), d1)
          [] typ = TYPE_NINT -> Ok(Number(-(val + 1)), d1)
          [] typ = TYPE_BYTES -> FetchBytes(val, d1, "bytes")
          [] typ = TYPE_STR ->
               Then(FetchBytes(val, d1, "str"), LAMBDA v, d2 :
                 IF IsUtf8(v[2]) THEN Ok(v, d2) ELSE Err("InvalidUtf8"))
          [] typ = TYPE_ARR -> Opening("seq", 1)
          [] typ = TYPE_MAP -> Opening("map", 2)
          [] n > 0 /\ typ = TYPE_SPECIAL -> Err("InvalidSpecialValue")
          [] OTHER -> Err("InvalidTag"))

\* One turn of the loop over the stack of open containers.  A frame is an array or a
\* map being collected, with the number of parts still to come; the top is the last.
RECURSIVE fetch_val(_, _), Deliver(_, _, _)
fetch_val(d, stack) ==
  Then(FetchHead(d, Len(stack)), LAMBDA head, d1 :
    CASE head = <<"seq", 0>> -> Deliver(Array(<<>>), d1, stack)
      [] head = <<"map", 0>> -> Deliver(Map(<<>>), d1, stack)
      [] head[1] = "seq" /\ head[2] > 0 ->
           fetch_val(d1, Append(stack, [kind |-> "seq", got |-> <<>>, left |-> head[2]]))
      [] head[1] = "map" /\ head[2] > 0 ->
           Then(fetch_map_key(d1), LAMBDA key, d2 :
             fetch_val(d2, Append(stack,
               [kind |-> "map", got |-> <<>>, left |-> head[2], key |-> key])))
      [] OTHER -> Deliver(head, d1, stack))

\* Hand a complete value to the container that is open, if one is.
Deliver(v, d, stack) ==
  IF stack = <<>> THEN Ok(v, d)
  ELSE LET top == Last(stack)
           below == Front(stack)
           got == IF top.kind = "seq" THEN Append(top.got, v) ELSE (top.key :> v) @@ top.got
           kept == [top EXCEPT !.got = got, !.left = @ - 1]
       IN  CASE top.left = 1 ->
                  Deliver(IF top.kind = "seq" THEN Array(got) ELSE Map(got), d, below)
             [] top.left > 1 /\ top.kind = "seq" -> fetch_val(d, Append(below, kept))
             [] OTHER ->
                  Then(fetch_map_key(d), LAMBDA key, d1 :
                    IF \E k \in DOMAIN got : ~Before(k, key) THEN Err("InvalidMapOrdering")
                    ELSE fetch_val(d1, Append(below, [kept EXCEPT !.key = key])))

\* decode: one value, and nothing after it
AtEnd(r) == Then(r, LAMBDA v, d : IF d = <<>> THEN r ELSE Err("UnexpectedEnd"))
decode(d) == AtEnd(fetch_val(d, <<>>))
=============================================================================
