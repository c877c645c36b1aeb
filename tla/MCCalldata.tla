----------------------------- MODULE MCCalldata -----------------------------
(***************************************************************************)
(* The codec on bytes that grow at random ("bytes"), on the wires of every *)
(* type of the ABI with one byte changed, lost or doubled ("typed"), and   *)
(* the run of a contract ("run").                                          *)
(***************************************************************************)
EXTENDS ContractAbi

CONSTANTS
  RAW_LEN,    \* bound: length of the wires built byte by byte
  RAW,        \* the bytes they are built from
  NOISE,      \* the bytes a wire may be corrupted with
  MAX_EMISSIONS   \* bound: emissions of a run

VARIABLES part, wire, ty   \* ty is a position in Types
mcVars == <<part, wire, ty, abiVars>>

(*----- objects of a type -------------------------------------------------*)

RECURSIVE Nest(_)
Nest(n) == IF n = 0 THEN Null ELSE IF n % 2 = 0 THEN Map(<<>> :> Nest(n - 1)) ELSE Array(<<Nest(n - 1)>>)

Values == <<Null, Map((METHOD :> Str(<<97>>)) @@ (W["args"] :> Array(<<Number(16)>>))),
            Nest(2), Address([i \in 1..ADDRESS_SIZE |-> 0])>>

Pick(s, k) == s[1 + (k % Len(s))]

\* The k-th object of a type
RECURSIVE Sample(_, _), SampleFields(_, _)
SampleFields(fields, k) == [w \in Wires(fields) |-> Sample(At(fields, w).ty, k)]
Sample(T, k) ==
  LET more == k \div Len(T.variants)
      v == Pick(T.variants, k)
  IN  CASE T.kind = "value" -> Pick(Values, k)
        [] T.kind = "bool" -> Bool(k % 2 = 0)
        [] T.kind = "int" -> Number(IF k % 2 = 0 THEN T.hi ELSE T.lo)
        [] T.kind = "bigint" -> Number(IF k % 2 = 0 THEN -1 ELSE 17)
        [] T.kind = "str" -> Str([i \in 1..(k % 2) |-> 97])
        [] T.kind = "bytes" -> Bytes([i \in 1..(IF k % 2 = 0 THEN WORD ELSE 0) |-> 200])
        [] T.kind = "fixed" -> Bytes([i \in 1..T.size |-> 200])
        [] T.kind = "address" -> Address([i \in 1..ADDRESS_SIZE |-> k % 2])
        [] T.kind = "unit" -> <<"unit">>
        [] T.kind = "text" ->
             LET one == CHOOSE o \in DOMAIN T.show : TRUE
             IN  IF k % 2 = 0 THEN one ELSE CHOOSE o \in DOMAIN T.show : o # one
        [] T.kind = "with" -> Sample(T.of, k)
        [] T.kind = "maybe" -> <<"materialized", Sample(T.of, k)>>
        [] T.kind = "option" -> IF k % 3 = 0 THEN <<"none">> ELSE <<"some", Sample(T.of, k)>>
        [] T.kind = "vec" -> <<"vec", [i \in 1..(k % 2) |-> Sample(T.of, k + 1)]>>
        [] T.kind = "btree" ->
             <<"btree", [w \in {[i \in 1..n |-> 97] : n \in 0..(k % 3)} |-> Sample(T.of, k + Len(w))]>>
        [] T.kind = "tuple" -> <<"tuple", [i \in DOMAIN T.tys |-> Sample(T.tys[i], k)]>>
        [] T.kind = "struct" -> <<"struct", SampleFields(T.fields, k)>>
        [] OTHER ->
             <<"variant", v.wire,
               CASE v.shape = "unit" -> <<"unit">>
                 [] v.shape = "named" -> SampleFields(v.fields, more)
                 [] OTHER -> Sample(v.ty, more)>>

\* The enums of the codec's own tests that the ABI has no match for: a field whose type
\* depends on the variant, fields with a default, and an untagged enum
A == <<97>>
B == <<98>>
Shape == Tagged(A, <<
  UnitVariant(A),
  Named(B, <<Field(B, Uint)>>),
  Named(<<99>>, <<Field(<<>>, BoolTy), Field(B, StrTy)>>)>>)
WithDefault == Tagged(A, <<
  Named(A, <<Field(B, Uint), Optional(<<99>>, Vec(BoolTy), <<"vec", <<>>>>)>>),
  Named(B, <<Optional(B, StrTy, Str(<<>>))>>)>>)
Loose == Untagged(<<
  Newtype(A, Uint), Named(B, <<Field(A, Uint)>>), TupleVariant(<<99>>, <<BoolTy, Maybe(StrTy)>>),
  UnitVariant(<<100>>), Newtype(<<101>>, Option(BTreeMap(BytesTy)))>>)

\* The first reads any value.
Types == <<ValueTy, Shape, Loose, WithDefault, Message, ExtendedMessageFlat,
           PromptTemplatePayload, ExecutionData>>
Strict == 1..3   \* nothing in these is ignored, defaulted or parsed from a text
Small == 1..7    \* the wires of these are also corrupted

\* The types that have no decoder: what is written of them is read back as a Value
Reported == <<ExecutionEmission, FullResult, Hashable>>
SamplesOf(T) == 1 + 2 * (IF "variants" \in DOMAIN T THEN Len(T.variants) ELSE 2)

MCMessages == {SampleFields(MessageFields, k) : k \in 0..1}

(*----- the machine -------------------------------------------------------*)

MCInit ==
  /\ part \in {"bytes", "typed", "run"}
  /\ wire = <<>> /\ ty = 1
  /\ AbiInit /\ (part # "run" => message = SampleFields(MessageFields, 0))

\* One more byte arrives
Arrive(b) ==
  /\ part = "bytes" /\ Len(wire) < RAW_LEN
  /\ wire' = Append(wire, b)
  /\ UNCHANGED <<part, ty, abiVars>>

Send(i, k) ==
  /\ part = "typed" /\ part' = "sent"
  /\ wire' = Encode(Types[i], Sample(Types[i], k)) /\ ty' = i
  /\ UNCHANGED abiVars

SendReport(i, k) ==
  /\ part = "typed" /\ part' = "reported"
  /\ wire' = Encode(Reported[i], Sample(Reported[i], k)) /\ ty' = 1
  /\ UNCHANGED abiVars

Corrupt ==
  /\ part = "sent" /\ part' = "corrupted"
  /\ ty \in Small
  /\ \E i \in DOMAIN wire :
       \/ \E b \in NOISE : wire' = [wire EXCEPT ![i] = b]
       \/ wire' = RemoveAt(wire, i)
       \/ wire' = InsertAt(wire, i, wire[i])
  /\ UNCHANGED <<ty, abiVars>>

\* The requests a contract may make: every message, messages with calldata up to one
\* level too deep, and the ends contract_main makes of values as deep
Deep(variant, n) ==
  <<"variant", V[variant],
    [SampleFields(At(Message.variants, V[variant]).fields, 0) EXCEPT
       ![W["calldata"]] = <<"materialized", Nest(n)>>]>>
Requests ==
  {Encode(Message, Sample(Message, k)) : k \in 0..(2 * Len(Message.variants))}
  \cup {Encode(Message, Deep(v, n)) : v \in {"PostMessage", "DeployContract"}, n \in 0..(MAX_DEPTH - 1)}
  \cup {contract_main(Ok(Nest(n), <<>>)) : n \in 0..MAX_DEPTH} \cup {contract_main(Err("Custom"))}

Call(request) ==
  /\ part = "run" /\ Len(emissions) < MAX_EMISSIONS
  /\ gl_call(request)
  /\ UNCHANGED <<part, wire, ty>>

Fail(code) == part = "run" /\ VmFails(code) /\ UNCHANGED <<part, wire, ty>>

MCNext ==
  \/ \E b \in RAW : Arrive(b)
  \/ \E i \in DOMAIN Types : \E k \in 0..SamplesOf(Types[i]) : Send(i, k)
  \/ \E i \in DOMAIN Reported : \E k \in 0..SamplesOf(Reported[i]) : SendReport(i, k)
  \/ Corrupt
  \/ \E r \in Requests : Call(r)
  \/ \E code \in {<<>>, <<97>>} : Fail(code)

MCSpec == MCInit /\ [][MCNext]_mcVars

(*----- properties --------------------------------------------------------*)

\* Every value has one wire form: bytes decode accepts are the bytes encode writes for
\* the value it read (bin.rs; results are compared by the hash of their bytes).
OneWireForm == IsOk(decode(wire)) => encode(decode(wire)[2]) = wire

\* What is accepted as an object of a type, and as which, does not depend on whether it is
\* read from the wire (decode_obj) or from a Value that was read first (decode and
\* from_value, as gl_call does); and a type that reads any value reads as decode does.
ReadAs(T) ==
  LET direct == decode_obj(T, wire)
      staged == Then(decode(wire), LAMBDA v, rest : from_value(T, v))
  IN  /\ IsOk(direct) = IsOk(staged)
      /\ IsOk(direct) => Encode(T, direct[2]) = Encode(T, staged[2])
PathsAgree == \A i \in {1, ty} : ReadAs(Types[i])

\* What was sent is accepted and written as it was, and so is, as a Value, what is only
\* ever written (the report, its emissions, what is hashed).  So is any other wire that is
\* accepted, unless its type ignores, defaults or parses a part: then it is written in the
\* one form decode accepts, and read as the same object again.  So no part of a wire is
\* dropped unseen, and the derived Encode puts its keys, the tag among them, in order.
WritesWhatItReads ==
  LET r == decode_obj(Types[ty], wire)
      again == Encode(Types[ty], r[2])
  IN  /\ part \in {"sent", "reported"} => IsOk(r)
      /\ IsOk(r) /\ (part = "sent" \/ ty \in Strict) => again = wire
      /\ IsOk(r) => IsOk(decode(again)) /\ decode_obj(Types[ty], again) = Ok(r[2], <<>>)
=============================================================================
