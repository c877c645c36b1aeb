----------------------------- MODULE ContractAbi ----------------------------
(***************************************************************************)
(* What crosses the boundary between a contract and the executor, and      *)
(* between the executor and the host, as calldata: the requests of gl_call *)
(* (sdk-rs/src/abi/gl_call.rs), the message on a VM's stdin                *)
(* (sdk-rs/src/abi/entry.rs), a leader's result (rt/vm/mod.rs), and the    *)
(* report of a run (host/mod.rs).                                          *)
(*                                                                         *)
(* The machine is the main VM of a run: a contract makes requests, some of *)
(* which leave emissions, until one of them ends it.  Permissions, fees    *)
(* and balances are in VmEffects; here the VM has them all.                *)
(***************************************************************************)
EXTENDS CalldataCodec

CONSTANTS
  INT_MAX,           \* largest value of the unsigned types
  WORD,              \* bytes of a call key and of an event's topic: 32 in the code
  EVENT_MAX_TOPICS,
  TEXT_LEN,          \* bound: longest text of a waiting time
  Messages           \* the messages a run may be started with

ASSUME AbiAssumption ==
  INT_MAX \in Nat /\ WORD \in Nat \ {0} /\ EVENT_MAX_TOPICS \in Nat /\ TEXT_LEN \in Nat

(*----- names -------------------------------------------------------------*)

\* A name on the wire is one byte; the bytes are ordered as the names are.  Variants and
\* fields are never compared with each other.
Variants ==
  <<"CallContract", "DELETE", "DeployContract", "EmitEvent", "EqComparative",
    "EqNonComparativeLeader", "EqNonComparativeValidator", "EthCall", "EthSend",
    "ExecPrompt", "ExecPromptTemplate", "External", "GET", "GetTimestamp", "HEAD",
    "Internal", "InternalError", "MapFile", "Message", "OPTIONS", "PATCH", "POST", "PUT",
    "PostMessage", "RegisterRunner", "Return", "RunNondet", "RuntimeMicroSec", "Sandbox",
    "Trace", "UserError", "VmError", "WebRender", "WebRequest", "Yield", "accepted",
    "finalized", "html", "json", "screenshot", "text">>
Fields ==
  <<"address", "allow_register_runners", "allow_send_messages", "allow_write_storage", "args",
    "backtrace", "blob", "body", "bucket_totals", "budget", "call_key", "calldata",
    "chain_id", "children", "code", "contract_address", "criteria", "data",
    "data_fees_consumed", "data_fees_remaining", "data_leader", "data_validator",
    "datetime", "emissions", "entry_data", "entry_kind", "entry_stage_data", "event",
    "execution_budget_per_round", "execution_hash", "fee_params", "func", "gas_data",
    "gas_limit", "headers", "host_data", "images", "initial_time_units_allocation", "input",
    "is_init", "kind", "kwargs", "leader_answer", "leader_nondet_results",
    "leader_timeunits_allocation", "leaders_result", "llm_consumption", "max_gas_price",
    "max_price_gen_per_time_unit", "memories", "message", "message_fee",
    "message_fee_allocation", "message_receipt", "method", "method_hosts", "mode",
    "module_name", "nondet_disagreement", "nondet_output", "nondet_results", "on",
    "origin_address", "output", "path_in_runner", "path_in_vfs", "principle", "prompt",
    "receipt_fee", "receipt_fee_max_gas_price", "recipient", "response_format", "rotations",
    "runner", "salt_nonce", "sender_address", "sign", "stack", "state", "storage",
    "storage_changes", "storage_fee", "storage_fee_max_gas_price", "subtree",
    "subvm_hashes", "task", "template", "topics", "type", "url", "validator_answer",
    "validator_timeunits_allocation", "value", "wait_after_loaded", "wasm_store_hashes">>

Position(names) == [n \in Range(names) |-> <<CHOOSE i \in DOMAIN names : names[i] = n>>]
V == Position(Variants)
W == Position(Fields)
METHOD == <<>>   \* the key of a call's method is the empty string

F(name, ty) == Field(W[name], ty)
Units(names) == External([i \in DOMAIN names |-> UnitVariant(V[names[i]])])
Strings(names) == [i \in DOMAIN names |-> F(names[i], StrTy)]
Uint == IntTy(0, INT_MAX)
Words(names) == [i \in DOMAIN names |-> F(names[i], Uint)]
BoolField(name) == F(name, BoolTy)

(*----- gl_call: requests -------------------------------------------------*)

PLUS == 43
ZERO == 48
SEVEN == 55
LETTER_M == 109
LETTER_S == 115
Texts == SeqOf({PLUS, ZERO, SEVEN, LETTER_M, LETTER_S}, TEXT_LEN)

\* str::parse::<u64>: digits, after at most one plus sign
RECURSIVE Digits(_)
Digits(s) == IF s = <<>> THEN 0 ELSE 10 * Digits(Front(s)) + (Last(s) - ZERO)
IsU64(s) ==
  LET d == IF s # <<>> /\ Head(s) = PLUS THEN Tail(s) ELSE s
  IN  d # <<>> /\ \A i \in DOMAIN d : d[i] \in ZERO..(ZERO + 9)
ParseU64(s) == Digits(IF Head(s) = PLUS THEN Tail(s) ELSE s)

StripSuffix(s, n) == SubSeq(s, 1, Len(s) - n)
IsMillis(s) == Len(s) >= 2 /\ SubSeq(s, Len(s) - 1, Len(s)) = <<LETTER_M, LETTER_S>>
IsSeconds(s) == s # <<>> /\ Last(s) = LETTER_S /\ ~IsMillis(s)

decode_wait_after_loaded ==
  [s \in {t \in Texts : \/ IsMillis(t) /\ IsU64(StripSuffix(t, 2))
                        \/ IsSeconds(t) /\ IsU64(StripSuffix(t, 1))} |->
     IF IsMillis(s) THEN <<"Millis", ParseU64(StripSuffix(s, 2))>>
     ELSE <<"Seconds", ParseU64(StripSuffix(s, 1))>>]

\* format!: the shortest of the texts that are read as the value
encode_wait_after_loaded ==
  [o \in Range(decode_wait_after_loaded) |->
     CHOOSE s \in DOMAIN decode_wait_after_loaded :
       /\ decode_wait_after_loaded[s] = o
       /\ \A t \in DOMAIN decode_wait_after_loaded :
            decode_wait_after_loaded[t] = o => Len(s) <= Len(t)]

WaitAfterLoaded == With(Text(decode_wait_after_loaded, encode_wait_after_loaded))

RenderPayload == Struct(<<
  F("mode", Units(<<"text", "html", "screenshot">>)),
  F("url", StrTy),
  F("wait_after_loaded", WaitAfterLoaded)>>)

RequestPayload == Struct(<<
  F("method", Units(<<"GET", "POST", "HEAD", "PUT", "DELETE", "OPTIONS", "PATCH">>)),
  F("url", StrTy),
  F("headers", BTreeMap(BytesTy)),
  Optional(W["body"], With(Option(BytesTy)), <<"none">>),
  Optional(W["sign"], BoolTy, Bool(FALSE))>>)

PromptPayload == Struct(<<
  Optional(W["response_format"], Units(<<"text", "json">>), <<"variant", V["text"], <<"unit">>>>),
  F("prompt", StrTy),
  F("images", Vec(BytesTy))>>)

PromptTemplatePayload == Lenient(W["template"], <<
  Named(V["EqComparative"], Strings(<<"leader_answer", "validator_answer", "principle">>)),
  Named(V["EqNonComparativeValidator"], Strings(<<"task", "criteria", "input", "output">>)),
  Named(V["EqNonComparativeLeader"], Strings(<<"task", "criteria", "input">>))>>)

On == Units(<<"finalized", "accepted">>)
StorageType == With(IntTy(0, 2))
TracePayload == External(<<Newtype(V["Message"], StrTy), UnitVariant(V["RuntimeMicroSec"])>>)

Message == External(<<
  Named(V["EthCall"], <<F("address", AddressTy), F("calldata", BytesTy)>>),
  Named(V["CallContract"],
        <<F("address", AddressTy), F("calldata", Maybe(ValueTy)), F("state", StorageType)>>),
  Named(V["EthSend"], <<F("address", AddressTy), F("calldata", BytesTy), F("value", Uint)>>),
  Named(V["PostMessage"],
        <<F("address", AddressTy), F("calldata", Maybe(ValueTy)), F("value", Uint), F("on", On)>>),
  Named(V["DeployContract"],
        <<F("calldata", Maybe(ValueTy)), F("code", BytesTy), F("value", Uint), F("on", On),
          F("salt_nonce", Uint)>>),
  Named(V["EmitEvent"], <<F("topics", Vec(BytesTy)), F("blob", Maybe(BTreeMap(ValueTy)))>>),
  Named(V["RunNondet"], <<F("data_leader", BytesTy), F("data_validator", BytesTy)>>),
  Named(V["Sandbox"],
        <<F("data", BytesTy), F("runner", StrTy), BoolField("allow_write_storage"),
          BoolField("allow_send_messages"), BoolField("allow_register_runners")>>),
  Named(V["RegisterRunner"], <<F("code", BytesTy)>>),
  Named(V["MapFile"], Strings(<<"runner", "path_in_runner", "path_in_vfs">>)),
  Newtype(V["WebRender"], RenderPayload),
  Newtype(V["WebRequest"], RequestPayload),
  Newtype(V["ExecPrompt"], PromptPayload),
  Newtype(V["ExecPromptTemplate"], PromptTemplatePayload),
  Newtype(V["UserError"], Maybe(ValueTy)),
  Newtype(V["Return"], Maybe(ValueTy)),
  Newtype(V["Trace"], TracePayload),
  UnitVariant(V["Yield"]),
  UnitVariant(V["GetTimestamp"])>>)

(*----- entry: what a VM reads from its stdin -----------------------------*)

\* chrono's RFC 3339: an instant has a text in UTC, and others with an offset.
Instants == 0..1
decode_datetime_rfc3339 ==
  [t \in {<<ZERO + i>> : i \in Instants} \cup {<<PLUS, ZERO + i>> : i \in Instants} |-> <<"at", Last(t) - ZERO>>]
encode_datetime_rfc3339 == [o \in {<<"at", i>> : i \in Instants} |-> <<ZERO + o[2]>>]
DateTime == With(Text(decode_datetime_rfc3339, encode_datetime_rfc3339))

EntryKind == With(IntTy(0, 2))
MainEntry == Number(0)
SandboxEntry == Number(1)
ConsensusStage == Number(2)

MessageFields == <<
  F("contract_address", AddressTy), F("sender_address", AddressTy), F("origin_address", AddressTy),
  Optional(W["stack"], Vec(AddressTy), <<"vec", <<>>>>),
  F("chain_id", BigIntTy),
  Optional(W["value"], BigIntTy, Number(0)),
  BoolField("is_init"),
  Optional(W["datetime"], DateTime, <<"at", 0>>)>>

ExtendedMessageFlat == Struct(MessageFields \o <<
  F("entry_kind", EntryKind), F("entry_data", BytesTy), F("entry_stage_data", ValueTy)>>)

\* The call of a method: anything that is not as expected is left out.
MainCalldata(d) ==
  Then(decode(d), LAMBDA v, rest :
    LET map == IF v[1] = "map" THEN v[2] ELSE <<>>
        Part(k, kind, none) ==
          IF k \in DOMAIN map /\ map[k][1] = kind THEN map[k][2] ELSE none
    IN  Ok([method |-> Part(METHOD, "str", <<>>), args |-> Part(W["args"], "array", <<>>),
            kwargs |-> Part(W["kwargs"], "map", <<>>)], rest))

\* ContractExt::handle_main: an initialization ignores the method.
handle_main(message, d) ==
  Then(MainCalldata(d), LAMBDA c, rest :
    IF message[W["is_init"]] = Bool(TRUE) THEN Ok(<<"deploy", c.args, c.kwargs>>, rest)
    ELSE Ok(<<"method", c.method, c.args, c.kwargs>>, rest))

CODE_RETURN == 0
CODE_USER_ERROR == 1
CODE_VM_ERROR == 2
CODE_INTERNAL_ERROR == 3

LeaderResult(d) ==
  CASE d = <<>> -> Err("EmptyLeadersResult")
    [] d # <<>> /\ Head(d) \in {CODE_RETURN, CODE_USER_ERROR} ->
         Then(decode(Tail(d)), LAMBDA v, rest :
           Ok(<<IF Head(d) = CODE_RETURN THEN "Return" ELSE "UserError", v>>, <<>>))
    [] d # <<>> /\ Head(d) \in {CODE_VM_ERROR, CODE_INTERNAL_ERROR} ->
         IF IsUtf8(Tail(d)) THEN Ok(<<"VmError", Tail(d)>>, <<>>) ELSE Err("InvalidUtf8")
    [] OTHER -> Err("UnknownResultCode")

ConsensusStageData(v) ==
  CASE v[1] = "null" -> Ok(<<"Leader">>, <<>>)
    [] v[1] = "map" ->
         IF W["leaders_result"] \notin DOMAIN v[2] THEN Err("MissingLeadersResult")
         ELSE IF v[2][W["leaders_result"]][1] # "bytes" THEN Err("InvalidFormat")
         ELSE Then(LeaderResult(v[2][W["leaders_result"]][2]), LAMBDA r, rest :
                Ok(<<"Validator", r>>, rest))
    [] OTHER -> Err("InvalidFormat")

\* contract_main_impl: which handler of the contract runs, and with what
contract_main_impl(stdin) ==
  Then(decode(stdin), LAMBDA v, rest :
    Then(from_value(ExtendedMessageFlat, v), LAMBDA flat, s :
      LET m == flat[2]
          data == m[W["entry_data"]][2]
      IN  CASE m[W["entry_kind"]] = SandboxEntry -> Ok(<<"handle_sandbox", data>>, <<>>)
            [] m[W["entry_kind"]] = MainEntry ->
                 Then(handle_main(m, data), LAMBDA call, r : Ok(<<"handle_main", call>>, <<>>))
            [] m[W["entry_kind"]] = ConsensusStage ->
                 Then(ConsensusStageData(m[W["entry_stage_data"]]), LAMBDA stage, r :
                   Ok(<<"handle_consensus_stage", data, stage>>, <<>>))))

\* contract_main: the last request of a contract
contract_main(r) ==
  encode(Map(IF IsOk(r) THEN (V["Return"] :> r[2]) ELSE (V["UserError"] :> Str(<<>>))))

(*----- the host's side ---------------------------------------------------*)

\* CallKey::for_method; the hash is any fixed function of the name.
keccak256(s) == [i \in 1..WORD |-> (i * Len(s) + FoldSeq(LAMBDA a, b : a + b, 0, s)) % 256]
for_method(name) ==
  IF Len(name) < WORD THEN [i \in 1..WORD |-> IF i <= Len(name) THEN name[i] ELSE 0]
  ELSE [keccak256(name) EXCEPT ![WORD] = IF @ % 2 = 0 THEN @ + 1 ELSE @]
UNNAMED == [i \in 1..WORD |-> 0]

CallKey == With(FixedBytes(WORD))
InternalMessageParams == Struct(
  Words(<<"leader_timeunits_allocation", "validator_timeunits_allocation",
          "execution_budget_per_round", "max_price_gen_per_time_unit",
          "storage_fee_max_gas_price", "receipt_fee_max_gas_price">>)
  \o <<F("rotations", Vec(Uint))>>)
ExternalMessageParams == Struct(Words(<<"gas_limit", "max_gas_price">>))
MessageAllocationNodeParams == External(<<
  Newtype(V["Internal"], InternalMessageParams), Newtype(V["External"], ExternalMessageParams)>>)

\* One node of the fee allocation tree, with n levels below it
MessageAllocationNode[n \in Nat] == Struct(<<
  F("recipient", Option(AddressTy)), F("call_key", Option(CallKey)), F("budget", Uint),
  F("on", On), F("fee_params", MessageAllocationNodeParams),
  F("children", Vec(IF n = 0 THEN UnitTy ELSE MessageAllocationNode[n - 1]))>>)

\* What the executor reads at its start
ExecutionData == Struct(<<
  F("calldata", BytesTy), F("message", Struct(MessageFields)), F("host_data", StrTy),
  F("code", Option(BytesTy)), F("leader_nondet_results", Option(Vec(BytesTy))),
  F("method_hosts", Vec(Uint)), F("bucket_totals", Vec(BigIntTy)), F("gas_data", BTreeMap(StrTy)),
  F("message_fee_allocation", Vec(MessageAllocationNode[1])),
  F("initial_time_units_allocation", Uint)>>)

MessageFees == Words(<<"message_fee", "receipt_fee">>)
InternalFees == MessageFees \o <<F("fee_params", InternalMessageParams), F("subtree", BytesTy)>>
ExecutionEmission == Tagged(W["type"], <<
  Named(V["EthSend"],
        <<F("address", AddressTy), F("calldata", BytesTy), F("value", Uint),
          F("fee_params", ExternalMessageParams)>> \o MessageFees),
  Named(V["PostMessage"],
        <<F("call_key", CallKey), F("address", AddressTy), F("calldata", Maybe(ValueTy)),
          F("value", Uint), F("on", On)>> \o InternalFees),
  Named(V["DeployContract"],
        <<F("calldata", Maybe(ValueTy)), F("code", BytesTy), F("value", Uint), F("on", On),
          F("salt_nonce", Uint)>> \o InternalFees),
  Named(V["EmitEvent"],
        <<F("topics", Vec(BytesTy)), F("blob", Maybe(BTreeMap(ValueTy))), F("storage_fee", Uint)>>)>>)

ResultCode == Units(<<"Return", "UserError", "VmError", "InternalError">>)
Backtrace == Vec(Struct(<<F("module_name", StrTy), F("func", Uint)>>))
WasmStoreHashes == BTreeMap(Struct(<<F("memories", Vec(BytesTy))>>))
BucketsConsumed ==
  Struct(Words(<<"storage", "message_receipt", "nondet_output", "message_fee", "event">>))
Delta == Tuple(<<BytesTy, BytesTy>>)

FullResult ==
  Struct(<<F("execution_hash", BytesTy), F("kind", ResultCode), F("data", Maybe(ValueTy)),
           F("backtrace", Option(Backtrace)), F("wasm_store_hashes", WasmStoreHashes),
           F("storage_changes", Vec(Delta)), F("emissions", Vec(ExecutionEmission)),
           F("nondet_disagreement", Option(Uint)), F("nondet_results", Vec(BytesTy)),
           F("data_fees_remaining", Vec(Uint)), F("data_fees_consumed", BucketsConsumed),
           F("llm_consumption", Uint)>>)

\* What execution_hash is the hash of: the entries in the order FullResult::new writes them
Hashable == Struct(<<
  F("backtrace", Option(Backtrace)), F("data", Maybe(ValueTy)),
  F("data_fees_consumed", BucketsConsumed), F("data_fees_remaining", Vec(Uint)),
  F("kind", ResultCode), F("storage_changes", Vec(Delta)), F("subvm_hashes", BytesTy),
  F("wasm_store_hashes", WasmStoreHashes)>>)

\* RunOk: how a VM ends, as <<code, payload>>; the payload of a VMError is its text
CodeOf(r) == (CODE_RETURN :> "Return" @@ CODE_USER_ERROR :> "UserError" @@ CODE_VM_ERROR :> "VmError")[r[1]]

\* Mutant: the payload is kept under the name of the code.
DataOf_Keyed(r) ==
  <<"materialized",
    Map(V[CodeOf(r)] :> IF r[1] = CODE_VM_ERROR THEN Str(r[2]) ELSE Decode(ValueTy, Deferred(r[2]))[2])>>

DataOf(r) == IF r[1] = CODE_VM_ERROR THEN <<"materialized", Str(r[2])>> ELSE r[2]

\* Mutant: a user's error is written with the code of a VM error.
as_bytes_OneCode(r) ==
  IF r[1] = CODE_RETURN THEN <<CODE_RETURN>> \o Encode(Maybe(ValueTy), r[2])
  ELSE <<CODE_VM_ERROR>> \o (IF r[1] = CODE_VM_ERROR THEN r[2] ELSE Encode(Maybe(ValueTy), r[2]))

as_bytes(r) ==
  <<r[1]>> \o IF r[1] = CODE_VM_ERROR THEN r[2] ELSE Encode(Maybe(ValueTy), r[2])

\* run_nondet: what a validator makes of the bytes that came as a leader's result.
\* A Return is taken as it is, unread.
FromLeader(d) ==
  CASE Head(d) = CODE_RETURN -> Ok(<<CODE_RETURN, <<"checked", Tail(d)>>>>, <<>>)
    [] Head(d) = CODE_USER_ERROR ->
         Then(decode(Tail(d)), LAMBDA v, rest : Ok(<<CODE_USER_ERROR, <<"materialized", v>>>>, <<>>))
    [] Head(d) = CODE_VM_ERROR ->
         IF IsUtf8(Tail(d)) THEN Ok(<<CODE_VM_ERROR, Tail(d)>>, <<>>) ELSE Err("trap")
    [] OTHER -> Err("trap")

\* fork_leader: the message of a VM started by another; leader is <<>> or <<its result>>
fork_leader(message, kind, data, leader) ==
  [message EXCEPT ![W["is_init"]] = Bool(FALSE)]
  @@ (W["entry_kind"] :> kind @@ W["entry_data"] :> Bytes(data) @@
      W["entry_stage_data"] :>
        IF leader = <<>> THEN Null
        ELSE Map(W["leaders_result"] :> Bytes(as_bytes(leader[1]))))

\* Context::new: the message is the VM's stdin.
Stdin(message) == Encode(ExtendedMessageFlat, <<"struct", message>>)

(*----- the run -----------------------------------------------------------*)

VARIABLES
  message,     \* what the run was started with
  emissions,   \* of the main VM, in the order they were made
  ended        \* <<>>, or <<how the VM ended>>
abiVars == <<message, emissions, ended>>

Fee == Number(INT_MAX)
FeeParams == <<"struct", [w \in Wires(InternalMessageParams.fields) |->
                            IF w = W["rotations"] THEN <<"vec", <<Fee>>>> ELSE Fee]>>
ExternalFeeParams == <<"struct", [w \in Wires(ExternalMessageParams.fields) |-> Fee]>>
Fees == (W["message_fee"] :> Fee) @@ (W["receipt_fee"] :> Fee)
InternalFeesOf == Fees @@ (W["fee_params"] :> FeeParams) @@ (W["subtree"] :> Bytes(<<>>))

\* The method a message is for, if its calldata names one
CallKeyOf(m) ==
  LET r == Decode(ValueTy, Deferred(m))
  IN  IF IsOk(r) /\ r[2][1] = "map" /\ METHOD \in DOMAIN r[2][2] /\ r[2][2][METHOD][1] = "str"
      THEN for_method(r[2][2][METHOD][2]) ELSE UNNAMED

\* The fields a message leaves in its emission, besides its own
EmissionExtra(variant, p) ==
  CASE variant = V["EthSend"] -> Fees @@ (W["fee_params"] :> ExternalFeeParams)
    [] variant = V["PostMessage"] ->
         InternalFeesOf @@ (W["call_key"] :> Bytes(CallKeyOf(p[W["calldata"]])))
    [] variant = V["DeployContract"] -> InternalFeesOf
    [] variant = V["EmitEvent"] -> W["storage_fee"] :> Fee

TopicsAllowed(p) ==
  /\ Len(p[W["topics"]][2]) <= EVENT_MAX_TOPICS
  /\ \A i \in DOMAIN p[W["topics"]][2] : Len(p[W["topics"]][2][i][2]) = WORD

Emits == {V["EthSend"], V["PostMessage"], V["DeployContract"], V["EmitEvent"]}

AbiInit == message \in Messages /\ emissions = <<>> /\ ended = <<>>

\* gl_call: the request is decoded as a whole, then as a Message; what fails is Inval and
\* changes nothing, as do, here, the requests that neither emit nor end the VM.
gl_call(request) ==
  LET r == Then(decode(request), LAMBDA v, rest : from_value(Message, v))
      variant == r[2][2]
      p == r[2][3]
      Is(name) == IsOk(r) /\ variant = V[name]
  IN  /\ ended = <<>>
      /\ \/ /\ IsOk(r) /\ variant \in Emits
            /\ Is("EmitEvent") => TopicsAllowed(p)
            /\ emissions' = Append(emissions, <<"variant", variant, p @@ EmissionExtra(variant, p)>>)
            /\ UNCHANGED <<message, ended>>
         \/ /\ Is("Return") \/ Is("UserError")
            /\ ended' = <<<<IF Is("Return") THEN CODE_RETURN ELSE CODE_USER_ERROR, p>>>>
            /\ UNCHANGED <<message, emissions>>

\* A trap, or a limit of the VM
VmFails(code) ==
  /\ ended = <<>>
  /\ ended' = <<<<CODE_VM_ERROR, code>>>>
  /\ UNCHANGED <<message, emissions>>

\* FullResult::new of a run that ended like this, and the report of it
NothingConsumed == <<"struct", [w \in Wires(BucketsConsumed.fields) |-> Number(0)]>>
Trace == <<"some", <<"vec", <<<<"struct", (W["module_name"] :> Str(<<>>)) @@ (W["func"] :> Number(0))>>>>>>>>
Hashes == <<"btree", <<>> :> <<"struct", W["memories"] :> <<"vec", <<Bytes(<<0>>)>>>>>>>>
Kind == <<"variant", V[CodeOf(ended[1])], <<"unit">>>>
HashedPart ==
  (W["backtrace"] :> Trace) @@ (W["data"] :> DataOf(ended[1]))
  @@ (W["data_fees_consumed"] :> NothingConsumed) @@ (W["data_fees_remaining"] :> <<"vec", <<Fee>>>>)
  @@ (W["kind"] :> Kind) @@ (W["storage_changes"] :> <<"vec", <<<<"tuple", <<Bytes(<<0>>), Bytes(<<>>)>>>>>>>>)
  @@ (W["wasm_store_hashes"] :> Hashes)
Report(sent) ==
  <<"struct",
    HashedPart @@ (W["execution_hash"] :> Bytes(<<>>)) @@ (W["emissions"] :> <<"vec", sent>>)
    @@ (W["nondet_disagreement"] :> <<"none">>) @@ (W["nondet_results"] :> <<"vec", <<>>>>)
    @@ (W["llm_consumption"] :> Number(0))>>
encode_result(sent) == to_value(FullResult, Report(sent))

(*----- properties --------------------------------------------------------*)

\* However a contract ends, and however deep the value it returns or fails with, the
\* report of the run and what its hash is taken of can be written: to_value, which would
\* panic, does not fail on a result gl_call let through.
ResultIsReportable ==
  ended # <<>> =>
    /\ IsOk(encode_result(<<>>))
    /\ IsOk(to_value(Hashable, <<"struct", HashedPart @@ (W["subvm_hashes"] :> Bytes(<<>>))>>))

\* Everything a contract may emit can be reported, too ("encode-decode roundtrip failed"
\* is never met).
EmissionsAreReportable == ended # <<>> => IsOk(encode_result(emissions))

\* A validator's contract is handed the very result the leader's block ended with: through
\* the bytes the host carries, run_nondet's reading of them, the stage data of the forked
\* VM, its stdin and the SDK's parser, no end is mistaken for another, lost or refused.
ToldAs(r) ==
  IF r[1] = CODE_VM_ERROR THEN <<"VmError", r[2]>>
  ELSE <<CodeOf(r), Decode(ValueTy, Deferred(r[2]))[2]>>
GuestHearsTheLeader ==
  ended # <<>> =>
    Then(FromLeader(as_bytes(ended[1])), LAMBDA leader, rest :
      contract_main_impl(Stdin(fork_leader(message, ConsensusStage, <<>>, <<leader>>))))
    = Ok(<<"handle_consensus_stage", <<>>, <<"Validator", ToldAs(ended[1])>>>>, <<>>)
=============================================================================
