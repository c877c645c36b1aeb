------------------------------ MODULE HostRun ------------------------------
(***************************************************************************)
(* A run of the executor as the host and the web and llm modules see it    *)
(* (exe/run.rs, lib.rs, host/mod.rs, modules.rs): the setup, the main VM   *)
(* and the nondeterministic blocks calling the hosts and the modules at    *)
(* the same time, and the report.                                          *)
(*                                                                         *)
(* A call of a host holds the lock of its connection from the first byte   *)
(* written to the last one read, and blocks; ConsumeFuel and               *)
(* NotifyNondetDisagreement are written and not answered.  A call of a     *)
(* module holds the module's lock across its awaits.  A host handles what  *)
(* comes on one connection in order, and nothing orders two connections.   *)
(*                                                                         *)
(* How blocks are queued is in NondetQueue; here they are settled as       *)
(* NondetVerdict, which it implements, allows.  The hosts and the modules  *)
(* are external: they answer, refuse, or close the connection.             *)
(***************************************************************************)
EXTENDS Integers, Sequences, FiniteSets, SequencesExt, FiniteSetsExt

CONSTANTS
  Hosts,          \* the connections, 0 the default one
  MethodHosts,    \* values of ExecutionData.method_hosts
  NondetBlocks,   \* calls of run_nondet
  Roles,          \* "leader": no leader_nondet_results; "validator"
  LockedLists,    \* what locked_slots may hold in the contract's storage
  Slots,          \* slots a contract writes
  Balance,        \* of the contract, as the host has it
  Values,         \* values of messages
  Fuel,           \* what the host has at the start
  Consumptions,   \* of one prompt
  FuelMax,        \* U256::MAX, by which the module says that time is over
  MainCalls, BlockCalls,  \* bounds: calls the main VM and a block make
  Faults          \* bound: connections that break

ASSUME HostRunAssumption ==
  /\ 0 \in Hosts /\ NondetBlocks \in Nat /\ Balance \in Nat /\ Fuel \in Nat /\ FuelMax \in Nat
  /\ MethodHosts \subseteq Seq(Hosts) /\ Values \subseteq Nat
  /\ Slots \subseteq Nat /\ LockedLists \subseteq Seq(Nat)
  /\ Consumptions \subseteq 0..FuelMax /\ Fuel <= FuelMax

VARIABLES
  conf,        \* role, method_hosts, locked_slots, is the sender an upgrader
  pc,          \* of each VM: where it is, the call it waits for, a number it keeps
  calls,       \* bound: calls each VM may still make
  hostLock, wire, reply, up,         \* of each connection
  modLock, stream, asked, answer,    \* of each module
  next,        \* nondeterministic call number
  fate, verdict,                     \* of the blocks (NondetVerdict)
  outcome,     \* how the main VM ended
  report,      \* <<>>, or <<the FullResult given to consume_result>>
  locked,      \* Supervisor.locked_slots
  written,     \* slots the main VM wrote
  balances,    \* the balance cache: -1, or the contract's balance
  sent,        \* messages_value_decremented
  seen,        \* <<>>, or the last balance a VM was told and what it had sent by then
  fuel,        \* what the host has left
  consumed,    \* what the prompts consumed, as the executor was told
  llm_consumption,
  heard,       \* what the hosts have been notified of, in order
  crossed,     \* has someone read an answer to another's request?
  faults

vars == <<conf, pc, calls, hostLock, wire, reply, up, modLock, stream, asked, answer, next, fate,
          verdict, outcome, report, locked, written, balances, sent, seen, fuel, consumed, llm_consumption,
          heard, crossed, faults>>
hostVars == <<hostLock, wire, reply, up>>
modVars == <<modLock, stream, asked, answer>>
queueVars == <<next, fate, verdict, outcome, report>>
moneyVars == <<balances, sent, seen, fuel, consumed, llm_consumption>>
slotVars == <<locked, written>>

Queue == INSTANCE NondetVerdict

Main == -1
NoOne == -2
Blocks == 0..(NondetBlocks - 1)
Vms == {Main} \cup Blocks
Modules == {"web", "llm"}

\* host_fns::Methods, in order
Methods ==
  <<"StorageRead", "ConsumeFuel", "EthCall", "GetBalance", "RemainingFuelAsGen",
    "NotifyNondetDisagreement", "ConsumeResult", "NotifyFinished">>
Silent == {"ConsumeFuel", "NotifyNondetDisagreement"}   \* not answered

\* MultiHost::lock_for
HostFor(method) ==
  LET i == CHOOSE i \in DOMAIN Methods : Methods[i] = method
  IN  IF i <= Len(conf.method_hosts) THEN conf.method_hosts[i] ELSE 0

At(at, call, n) == [at |-> at, call |-> call, n |-> n]
Goto(a, at) == pc' = [pc EXCEPT ![a] = At(at, "", 0)]

Init ==
  /\ conf \in [role : Roles, method_hosts : MethodHosts, locked_slots : LockedLists, upgrader : BOOLEAN]
  /\ pc = [a \in Vms |-> At(IF a = Main THEN "setup" ELSE "off", "", 0)]
  /\ calls = [a \in Vms |-> IF a = Main THEN MainCalls ELSE BlockCalls]
  /\ hostLock = [h \in Hosts |-> NoOne] /\ up = [h \in Hosts |-> TRUE]
  /\ wire = [h \in Hosts |-> <<>>] /\ reply = [h \in Hosts |-> <<>>]
  /\ modLock = [m \in Modules |-> NoOne] /\ stream = [m \in Modules |-> "none"]
  /\ asked = [m \in Modules |-> <<>>] /\ answer = [m \in Modules |-> <<>>]
  /\ next = 0 /\ Queue!Init /\ outcome = "none" /\ report = <<>>
  /\ locked = <<>> /\ written = {}
  /\ balances = -1 /\ sent = 0 /\ seen = [a \in Vms |-> <<>>]
  /\ fuel = Fuel /\ consumed = <<>> /\ llm_consumption = 0
  /\ heard = <<>> /\ crossed = FALSE /\ faults = Faults

(*----- locked slots ------------------------------------------------------*)

\* LockedSlotsSet::contains, a binary search
contains(slots, slot) ==
  LET Between == (0..Len(slots)) \X (0..Len(slots))
      search[r \in Between] ==
        LET mid == (r[1] + r[2]) \div 2
        IN  /\ r[1] < r[2]
            /\ \/ slots[mid + 1] = slot
               \/ slots[mid + 1] < slot /\ search[<<mid + 1, r[2]>>]
               \/ slots[mid + 1] > slot /\ search[<<r[1], mid>>]
  IN  search[<<0, Len(slots)>>]

\* Mutant: the slots are kept in the order they have in storage.
get_locked_slots_Unsorted(list) == list

\* The slots of the list in order: res.sort()
InOrder(slots) == \A i, j \in DOMAIN slots : i < j => slots[i] <= slots[j]
Rearranged(list) == {[i \in DOMAIN list |-> list[p[i]]] : p \in Bijection(DOMAIN list, DOMAIN list)}
get_locked_slots(list) == CHOOSE slots \in Rearranged(list) : InOrder(slots)

get_locked_slots_for_sender == IF conf.upgrader THEN <<>> ELSE get_locked_slots(conf.locked_slots)

(*----- calls of a host ---------------------------------------------------*)

\* A request, and the wait for its answer with the lock held; on a connection that is
\* gone, an error at once.
Ask(a, method, n) ==
  LET h == HostFor(method)
  IN  /\ hostLock[h] = NoOne /\ up[h]
      /\ hostLock' = [hostLock EXCEPT ![h] = a]
      /\ wire' = [wire EXCEPT ![h] = Append(@, [from |-> a, method |-> method, n |-> n])]
      /\ pc' = [pc EXCEPT ![a] = At("host", method, n)]
      /\ UNCHANGED <<reply, up>>

\* One that is not answered: the lock is given back when it is written.  What is written
\* to a connection that is gone may still be accepted, and is lost.
Tell(a, method, n) ==
  LET h == HostFor(method)
  IN  /\ hostLock[h] = NoOne
      /\ wire' = [wire EXCEPT ![h] = IF up[h] THEN Append(@, [from |-> a, method |-> method, n |-> n]) ELSE @]
      /\ UNCHANGED <<hostLock, reply, up>>

Unreachable(method) == hostLock[HostFor(method)] = NoOne /\ ~up[HostFor(method)]

\* Mutant: the guard of the question for the fuel outlives it.
Answered_KeepsLock(a) ==
  LET h == HostFor(pc[a].call)
  IN  /\ pc[a].at = "host" /\ reply[h] # <<>>
      /\ hostLock' = [hostLock EXCEPT ![h] = IF pc[a].call = "RemainingFuelAsGen" THEN @ ELSE NoOne]
      /\ reply' = [reply EXCEPT ![h] = Tail(@)]
      /\ crossed' = (crossed \/ Head(reply[h]).to # a)
      /\ UNCHANGED <<wire, up>>

\* read_host_error, handle_host_error and the read of the payload
Answered(a) ==
  LET h == HostFor(pc[a].call)
  IN  /\ pc[a].at = "host" /\ reply[h] # <<>>
      /\ hostLock' = [hostLock EXCEPT ![h] = NoOne]
      /\ reply' = [reply EXCEPT ![h] = Tail(@)]
      /\ crossed' = (crossed \/ Head(reply[h]).to # a)
      /\ UNCHANGED <<wire, up>>

ReadFails(a) ==
  LET h == HostFor(pc[a].call)
  IN  /\ pc[a].at = "host" /\ reply[h] = <<>> /\ ~up[h]
      /\ hostLock' = [hostLock EXCEPT ![h] = NoOne]
      /\ UNCHANGED <<wire, reply, up>>

\* The host reads the next request; it may refuse those that carry an error code.
HostHandles(h) ==
  LET r == Head(wire[h])
      value == CASE r.method = "GetBalance" -> Balance [] r.method = "RemainingFuelAsGen" -> fuel [] OTHER -> 0
  IN  /\ up[h] /\ wire[h] # <<>>
      /\ wire' = [wire EXCEPT ![h] = Tail(@)]
      /\ \E ok \in IF r.method \in {"ConsumeResult", "NotifyFinished"} THEN {TRUE} ELSE BOOLEAN :
           reply' = [reply EXCEPT ![h] = IF r.method \in Silent THEN @
                                         ELSE Append(@, [to |-> r.from, ok |-> ok, n |-> value])]
      /\ fuel' = IF r.method = "ConsumeFuel" THEN Max({0, fuel - r.n}) ELSE fuel
      /\ heard' = IF r.method \in {"NotifyNondetDisagreement", "ConsumeResult", "NotifyFinished"}
                  THEN Append(heard, r.method) ELSE heard
      /\ UNCHANGED <<conf, pc, calls, hostLock, up, modVars, queueVars, slotVars, balances, sent, seen,
                     consumed, llm_consumption, crossed, faults>>

HostCloses(h) ==
  /\ up[h] /\ faults > 0
  /\ up' = [up EXCEPT ![h] = FALSE] /\ faults' = faults - 1
  /\ wire' = [wire EXCEPT ![h] = <<>>]
  /\ UNCHANGED <<conf, pc, calls, hostLock, reply, modVars, queueVars, slotVars, moneyVars, heard, crossed>>

(*----- calls of a module -------------------------------------------------*)

\* Mutant: the lock covers the request and not its answer.
Send_Unlocked(a, m, n) ==
  /\ modLock[m] = NoOne /\ stream[m] \in {"none", "open"}
  /\ stream' = [stream EXCEPT ![m] = "open"]
  /\ asked' = [asked EXCEPT ![m] = Append(@, [from |-> a, n |-> n])]
  /\ pc' = [pc EXCEPT ![a] = At("module", m, n)]
  /\ UNCHANGED <<modLock, answer>>

\* Module::send_impl up to its wait for the answer, with the lock held
Send(a, m, n) ==
  /\ modLock[m] = NoOne /\ stream[m] \in {"none", "open"}
  /\ modLock' = [modLock EXCEPT ![m] = a]
  /\ stream' = [stream EXCEPT ![m] = "open"]
  /\ asked' = [asked EXCEPT ![m] = Append(@, [from |-> a, n |-> n])]
  /\ pc' = [pc EXCEPT ![a] = At("module", m, n)]
  /\ UNCHANGED answer

\* connect or its hello fails and leaves no stream; a stream that is gone stays where it is.
SendFails(m) ==
  /\ modLock[m] = NoOne
  /\ stream[m] \in {"none", "gone"}

Replied(a) ==
  LET m == pc[a].call
  IN  /\ pc[a].at = "module" /\ answer[m] # <<>>
      /\ modLock' = [modLock EXCEPT ![m] = NoOne]
      /\ answer' = [answer EXCEPT ![m] = Tail(@)]
      /\ crossed' = (crossed \/ Head(answer[m]).to # a)
      /\ UNCHANGED <<stream, asked>>

NoReply(a) ==
  LET m == pc[a].call
  IN  /\ pc[a].at = "module" /\ answer[m] = <<>> /\ stream[m] = "gone"
      /\ modLock' = [modLock EXCEPT ![m] = NoOne]
      /\ UNCHANGED <<stream, asked, answer>>

\* A module answers in order: Ok, UserError or FatalError.  A prompt consumes at most what
\* it was offered, or FuelMax.
ModuleAnswers(m) ==
  LET r == Head(asked[m])
  IN  /\ asked[m] # <<>> /\ stream[m] = "open"
      /\ asked' = [asked EXCEPT ![m] = Tail(@)]
      /\ \E kind \in {"Ok", "UserError", "FatalError"} :
         \E n \in IF m = "llm" /\ kind = "Ok" THEN {c \in Consumptions : c <= r.n \/ c = FuelMax} ELSE {0} :
           answer' = [answer EXCEPT ![m] = Append(@, [to |-> r.from, kind |-> kind, n |-> n])]
      /\ UNCHANGED <<conf, pc, calls, hostVars, modLock, stream, queueVars, slotVars, moneyVars, heard,
                     crossed, faults>>

ModuleCloses(m) ==
  /\ stream[m] = "open" /\ faults > 0
  /\ stream' = [stream EXCEPT ![m] = "gone"] /\ faults' = faults - 1
  /\ asked' = [asked EXCEPT ![m] = <<>>]
  /\ UNCHANGED <<conf, pc, calls, hostVars, modLock, answer, queueVars, slotVars, moneyVars, heard, crossed>>

(*----- how a VM ends -----------------------------------------------------*)

\* "agree": a block that returned true; "differ": one that returned anything else.  A
\* leader's block gives what it returned to the main VM, and an error ends them both.
LeaderBlockEnds(b, how) ==
  LET main == IF how \in {"agree", "differ"} THEN "ready" ELSE "await"
  IN  /\ pc' = [pc EXCEPT ![b] = At("off", "", 0), ![Main] = At(main, "", 0)]
      /\ outcome' = CASE how = "failed" -> "internal" [] how = "vm_error" -> "ok" [] OTHER -> outcome
      /\ UNCHANGED <<next, fate, verdict, report>>

ValidatorBlockEnds(b, how) ==
  /\ Queue!Settle(b)
  /\ fate'[b] = CASE how = "agree" -> "agreed" [] how = "failed" -> "failed" [] OTHER -> "disagreed"
  /\ Goto(b, "off")
  /\ UNCHANGED <<next, outcome, report>>

BlockEnds(b, how) == IF conf.role = "leader" THEN LeaderBlockEnds(b, how) ELSE ValidatorBlockEnds(b, how)

MainEnds(how) ==
  /\ Goto(Main, "await") /\ outcome' = how
  /\ UNCHANGED <<next, fate, verdict, report>>

\* A VM error is an outcome like any other; an error of I/O or of a module is internal.
VmError(a) == IF a = Main THEN MainEnds("ok") ELSE BlockEnds(a, "vm_error")
InternalError(a) == IF a = Main THEN MainEnds("internal") ELSE BlockEnds(a, "failed")

Ready(a) == pc[a].at = "ready"
MayCall(a) == Ready(a) /\ calls[a] > 0
Counted(a) == calls' = [calls EXCEPT ![a] = @ - 1]

(*----- what a VM does ----------------------------------------------------*)

AskOrFail(a, method, n) ==
  \/ Ask(a, method, n) /\ UNCHANGED queueVars
  \/ Unreachable(method) /\ InternalError(a) /\ UNCHANGED hostVars

\* storage_read of a page that is not known, and EthCall
Query(a) ==
  /\ MayCall(a) /\ Counted(a)
  /\ \E method \in {"StorageRead"} \cup IF a = Main THEN {"EthCall"} ELSE {} : AskOrFail(a, method, 0)
  /\ UNCHANGED <<conf, modVars, slotVars, moneyVars, heard, crossed, faults>>

storage_write(slot) ==
  /\ MayCall(Main) /\ Counted(Main)
  /\ ~contains(locked, slot)
  /\ written' = written \cup {slot}
  /\ UNCHANGED <<conf, pc, hostVars, modVars, queueVars, locked, moneyVars, heard, crossed, faults>>

\* get_balance (n = -1), get_self_balance (0), and the check of a message of value n
UseBalance(a, n, balance) ==
  /\ seen' = CASE n = -1 -> [seen EXCEPT ![a] = <<balance, 0>>]
               [] n = 0 -> [seen EXCEPT ![a] = <<balance - sent, sent>>]
               [] n > 0 -> seen
  /\ sent' = IF n > 0 /\ n + sent <= balance THEN sent + n ELSE sent
  /\ UNCHANGED <<fuel, consumed, llm_consumption>>

\* Mutant: what a message takes is taken off the cached balance, too.
Remember_Rest(n, balance) == IF n > 0 THEN balance - n ELSE balance
Remember(n, balance) == balance

get_balance(a, n) ==
  /\ MayCall(a) /\ Counted(a)
  /\ \/ /\ balances # -1
        /\ UseBalance(a, n, balances)
        /\ UNCHANGED <<balances, pc, hostVars, queueVars>>
     \/ balances = -1 /\ AskOrFail(a, "GetBalance", n) /\ UNCHANGED moneyVars
  /\ UNCHANGED <<conf, modVars, slotVars, heard, crossed, faults>>

\* WebRender, WebRequest
WebRequest(b) ==
  /\ MayCall(b) /\ Counted(b)
  /\ \/ Send(b, "web", 0) /\ UNCHANGED queueVars
     \/ SendFails("web") /\ InternalError(b) /\ UNCHANGED modVars
  /\ UNCHANGED <<conf, hostVars, slotVars, moneyVars, heard, crossed, faults>>

\* ExecPrompt, ExecPromptTemplate: the fuel is asked for, then the lock of the module.
ExecPrompt(b) ==
  /\ MayCall(b) /\ Counted(b)
  /\ AskOrFail(b, "RemainingFuelAsGen", 0)
  /\ UNCHANGED <<conf, modVars, slotVars, moneyVars, heard, crossed, faults>>

Prompt(b) ==
  /\ pc[b].at = "prompt"
  /\ \/ Send(b, "llm", pc[b].n) /\ UNCHANGED queueVars
     \/ SendFails("llm") /\ InternalError(b) /\ UNCHANGED modVars
  /\ UNCHANGED <<conf, calls, hostVars, slotVars, moneyVars, heard, crossed, faults>>

ModuleReplies(b) ==
  LET r == Head(answer[pc[b].call])
  IN  /\ \/ /\ Replied(b)
            /\ \/ /\ r.kind = "Ok" /\ pc[b].call = "llm"
                  /\ pc' = [pc EXCEPT ![b] = At("charge", "", r.n)]
                  /\ consumed' = Append(consumed, r.n) /\ UNCHANGED queueVars
               \/ /\ r.kind = "UserError" \/ (r.kind = "Ok" /\ pc[b].call = "web")
                  /\ Goto(b, "ready") /\ UNCHANGED <<queueVars, consumed>>
               \/ r.kind = "FatalError" /\ InternalError(b) /\ UNCHANGED consumed
         \/ NoReply(b) /\ InternalError(b) /\ UNCHANGED <<crossed, consumed>>
      /\ UNCHANGED <<conf, calls, hostVars, slotVars, balances, sent, seen, fuel, llm_consumption, heard, faults>>

\* Mutant: what a prompt consumed is counted, and the host is not told.
ConsumeFuel_Untold(b) ==
  /\ pc[b].at = "charge"
  /\ \/ pc[b].n = FuelMax /\ VmError(b)
     \/ /\ pc[b].n # FuelMax
        /\ pc' = [pc EXCEPT ![b] = At("count", "", pc[b].n)] /\ UNCHANGED queueVars
  /\ UNCHANGED <<conf, calls, hostVars, modVars, slotVars, moneyVars, heard, crossed, faults>>

\* consume_fuel; FuelMax ends the block with the VM error timeout.
ConsumeFuel(b) ==
  /\ pc[b].at = "charge"
  /\ \/ /\ Tell(b, "ConsumeFuel", pc[b].n)
        /\ \/ pc[b].n = FuelMax /\ VmError(b)
           \/ /\ pc[b].n # FuelMax
              /\ pc' = [pc EXCEPT ![b] = At("count", "", pc[b].n)] /\ UNCHANGED queueVars
     \/ Unreachable("ConsumeFuel") /\ InternalError(b) /\ UNCHANGED hostVars
  /\ UNCHANGED <<conf, calls, modVars, slotVars, moneyVars, heard, crossed, faults>>

\* The answer is not of the kind the template asked for in the second case.
CountConsumption(b) ==
  /\ pc[b].at = "count"
  /\ llm_consumption' = Min({llm_consumption + pc[b].n, FuelMax})
  /\ \/ Goto(b, "ready") /\ UNCHANGED queueVars
     \/ InternalError(b)
  /\ UNCHANGED <<conf, calls, hostVars, modVars, slotVars, balances, sent, seen, fuel, consumed, heard, crossed, faults>>

\* A VM reads the answer to its call, or finds the connection closed.
VmHears(a) ==
  LET r == Head(reply[HostFor(pc[a].call)])
  IN  /\ pc[a].call \notin {"ConsumeResult", "NotifyFinished"}
      /\ \/ /\ Answered(a)
            /\ \/ ~r.ok /\ VmError(a) /\ UNCHANGED moneyVars
               \/ /\ r.ok /\ pc[a].call \in {"StorageRead", "EthCall"}
                  /\ Goto(a, "ready") /\ UNCHANGED <<moneyVars, queueVars>>
               \/ /\ r.ok /\ pc[a].call = "GetBalance"
                  /\ balances' = Remember(pc[a].n, r.n) /\ UseBalance(a, pc[a].n, r.n)
                  /\ Goto(a, "ready") /\ UNCHANGED queueVars
               \/ /\ r.ok /\ pc[a].call = "RemainingFuelAsGen"
                  /\ pc' = [pc EXCEPT ![a] = At("prompt", "", r.n)] /\ UNCHANGED <<moneyVars, queueVars>>
         \/ ReadFails(a) /\ InternalError(a) /\ UNCHANGED <<moneyVars, crossed>>
      /\ UNCHANGED <<conf, calls, modVars, slotVars, heard, faults>>

\* A leader runs the block before it goes on.  A validator hands it over; an empty result
\* of the leader is a disagreement and a VM error, none at all a VM error, one that cannot
\* be read an internal error.
RunNondet ==
  /\ MayCall(Main) /\ Counted(Main) /\ next < NondetBlocks
  /\ next' = next + 1
  /\ \/ /\ conf.role = "leader"
        /\ pc' = [pc EXCEPT ![Main] = At("wait", "", 0), ![next] = At("ready", "", 0)]
        /\ UNCHANGED <<fate, verdict, outcome>>
     \/ /\ conf.role = "validator" /\ Queue!Submit(next)
        /\ IF fate'[next] = "submitted" THEN UNCHANGED <<pc, outcome>> ELSE Goto(Main, "await") /\ outcome' = "ok"
     \/ /\ conf.role = "validator" /\ Goto(Main, "await") /\ outcome' \in {"ok", "internal"}
        /\ UNCHANGED <<fate, verdict>>
  /\ UNCHANGED <<conf, hostVars, modVars, report, slotVars, moneyVars, heard, crossed, faults>>

\* One processor takes blocks while the main VM runs, two once it has ended.
Running == {b \in Blocks : pc[b].at # "off"}
TakeBlock(b) ==
  /\ fate[b] = "submitted" /\ pc[b].at = "off"
  /\ Cardinality(Running) < IF pc[Main].at = "await" THEN 2 ELSE 1
  /\ \/ Goto(b, "ready") /\ UNCHANGED queueVars
     \/ Queue!Skip(b) /\ UNCHANGED <<pc, next, outcome, report>>
  /\ UNCHANGED <<conf, calls, hostVars, modVars, slotVars, moneyVars, heard, crossed, faults>>

VmEnds(a) ==
  /\ Ready(a)
  /\ IF a = Main THEN MainEnds("ok") ELSE \E how \in {"agree", "differ", "vm_error"} : BlockEnds(a, how)
  /\ UNCHANGED <<conf, calls, hostVars, modVars, slotVars, moneyVars, heard, crossed, faults>>

(*----- the run -----------------------------------------------------------*)

\* handle and create_supervisor: the initial fees cannot be paid, which is reported; or the
\* upgraders and the locked slots are read, which may fail, and that is not reported.
Setup ==
  /\ pc[Main].at = "setup"
  /\ \/ Goto(Main, "report") /\ outcome' = "ok" /\ UNCHANGED locked
     \/ /\ up[HostFor("StorageRead")] /\ locked' = get_locked_slots_for_sender
        /\ Goto(Main, "ready") /\ UNCHANGED outcome
     \/ Goto(Main, "exit") /\ UNCHANGED <<outcome, locked>>
  /\ UNCHANGED <<conf, calls, hostVars, modVars, next, fate, verdict, report, written, moneyVars, heard,
                 crossed, faults>>

\* run_with after the main VM: the verdict on the blocks
AwaitNondetVms ==
  /\ pc[Main].at = "await" /\ Queue!Decide
  /\ Goto(Main, IF outcome = "ok" /\ verdict'.kind = "disagreed" THEN "notify" ELSE "report")
  /\ UNCHANGED <<conf, calls, hostVars, modVars, next, outcome, report, slotVars, moneyVars, heard, crossed, faults>>

\* An error of run_with is logged; the modules are closed, and the process ends.
Abandon == Goto(Main, "exit") /\ stream' = [m \in Modules |-> "none"] /\ UNCHANGED <<modLock, asked, answer>>

NotifyDisagreement ==
  /\ pc[Main].at = "notify"
  /\ \/ Tell(Main, "NotifyNondetDisagreement", verdict.call) /\ Goto(Main, "report") /\ UNCHANGED modVars
     \/ Unreachable("NotifyNondetDisagreement") /\ Abandon /\ UNCHANGED hostVars
  /\ UNCHANGED <<conf, calls, queueVars, slotVars, moneyVars, heard, crossed, faults>>

\* Mutant: an error of the blocks is dropped when the main VM has a result.
Merged_DetOnly == outcome # "internal"
Merged == outcome # "internal" /\ verdict.kind # "error"

Result ==
  [ok |-> Merged, llm_consumption |-> llm_consumption,
   nondet_disagreement |-> IF Merged /\ verdict.kind = "disagreed" THEN verdict.call ELSE -1]

\* Mutant: the result is written and its acknowledgement not waited for.
ConsumeResult_NoAck ==
  /\ pc[Main].at = "report"
  /\ \/ /\ Tell(Main, "ConsumeResult", 0) /\ report' = <<Result>> /\ Goto(Main, "finish")
        /\ UNCHANGED modVars
     \/ Unreachable("ConsumeResult") /\ Abandon /\ UNCHANGED <<hostVars, report>>
  /\ UNCHANGED <<conf, calls, next, fate, verdict, outcome, slotVars, moneyVars, heard, crossed, faults>>

ConsumeResult ==
  /\ pc[Main].at = "report"
  /\ \/ Ask(Main, "ConsumeResult", 0) /\ report' = <<Result>> /\ UNCHANGED modVars
     \/ Unreachable("ConsumeResult") /\ Abandon /\ UNCHANGED <<hostVars, report>>
  /\ UNCHANGED <<conf, calls, next, fate, verdict, outcome, slotVars, moneyVars, heard, crossed, faults>>

NotifyFinished ==
  /\ pc[Main].at = "finish"
  /\ \/ Ask(Main, "NotifyFinished", 0) /\ UNCHANGED modVars
     \/ Unreachable("NotifyFinished") /\ Abandon /\ UNCHANGED hostVars
  /\ UNCHANGED <<conf, calls, queueVars, slotVars, moneyVars, heard, crossed, faults>>

\* The acknowledgements, and all_useful_work_done after the second
Acknowledged ==
  /\ pc[Main].call \in {"ConsumeResult", "NotifyFinished"}
  /\ \/ /\ Answered(Main) /\ Goto(Main, IF pc[Main].call = "ConsumeResult" THEN "finish" ELSE "exit")
        /\ UNCHANGED modVars
     \/ ReadFails(Main) /\ Abandon /\ UNCHANGED crossed
  /\ UNCHANGED <<conf, calls, queueVars, slotVars, moneyVars, heard, faults>>

VmStep(a) == Query(a) \/ VmHears(a) \/ VmEnds(a)
MainStep ==
  \/ VmStep(Main) \/ RunNondet
  \/ \E slot \in Slots : storage_write(slot)
  \/ \E n \in {-1, 0} \cup Values : get_balance(Main, n)
BlockStep(b) ==
  \/ VmStep(b) \/ get_balance(b, -1)
  \/ WebRequest(b) \/ ExecPrompt(b) \/ Prompt(b) \/ ModuleReplies(b) \/ ConsumeFuel(b) \/ CountConsumption(b)
  \/ TakeBlock(b)
RunStep == Setup \/ AwaitNondetVms \/ NotifyDisagreement \/ ConsumeResult \/ NotifyFinished \/ Acknowledged

System ==
  \/ MainStep \/ RunStep
  \/ \E b \in Blocks : BlockStep(b)
  \/ \E h \in Hosts : HostHandles(h)
  \/ \E m \in Modules : ModuleAnswers(m)
Failure == (\E h \in Hosts : HostCloses(h)) \/ (\E m \in Modules : ModuleCloses(m))
Next == pc[Main].at # "exit" /\ (System \/ Failure)

\* As long as someone can go on, someone does.
Spec == Init /\ [][Next]_vars /\ WF_vars(pc[Main].at # "exit" /\ System)

(*----- properties --------------------------------------------------------*)

TypeOK ==
  /\ pc \in [Vms -> [at : {"setup", "off", "ready", "wait", "host", "module", "prompt", "charge", "count",
                           "await", "notify", "report", "finish", "exit"},
                     call : {""} \cup Range(Methods) \cup Modules, n : Int]]
  /\ hostLock \in [Hosts -> Vms \cup {NoOne}] /\ modLock \in [Modules -> Vms \cup {NoOne}]
  /\ \A h \in Hosts : Len(reply[h]) <= 1
  /\ balances \in {-1, Balance} /\ fuel \in 0..Fuel /\ llm_consumption \in 0..FuelMax

\* Whoever reads an answer, of a host or of a module, asked the question it answers, though
\* nothing on the wire tells one answer from another; and no answer is left over.
EveryoneGetsItsOwnAnswer == TypeOK /\ ~crossed

\* Whatever VM fills the balance cache, and whenever: a VM is told the host's balance, less
\* what the contract had sent if it asked for its own; and messages never send more.
BalanceSeen ==
  /\ sent <= Balance
  /\ \A a \in Vms : seen[a] # <<>> => seen[a][1] = Balance - seen[a][2]

Spent == SumFunctionOnSet(consumed, {i \in DOMAIN consumed : consumed[i] # FuelMax})
Failed == \E b \in Blocks : fate[b] = "failed"

\* A result is sent once every VM is done.  It is a success only if neither the main VM nor
\* a block met an internal error; it names the first block that disagreed, and all that the
\* prompts consumed.
ReportIsWhole ==
  report # <<>> =>
    LET r == report[1]
    IN  /\ \A b \in Blocks : pc[b].at = "off" /\ fate[b] # "submitted"
        /\ r.ok <=> outcome # "internal" /\ ~Failed
        /\ r.ok => /\ r.nondet_disagreement = IF Queue!Bad = {} THEN -1 ELSE Min(Queue!Bad)
                   /\ r.llm_consumption = Min({FuelMax, Spent})

\* A host that hears that the run is finished has the result already, and hears either only
\* once.  A run that has a result and whose hosts stay up ends by saying so.
FinishedIsLast ==
  LET Ends == {i \in DOMAIN heard : heard[i] # "NotifyNondetDisagreement"}
  IN  /\ \A i, j \in Ends : i < j => heard[i] = "ConsumeResult" /\ heard[j] = "NotifyFinished"
      /\ \A j \in Ends : heard[j] = "NotifyFinished" => \E i \in Ends : i < j
      /\ pc[Main].at = "exit" /\ outcome # "none" /\ (\A h \in Hosts : up[h])
         => "NotifyFinished" \in Range(heard)

\* A prompt of a leader is offered what the earlier prompts, of earlier blocks too, have
\* left, though the host does not acknowledge what it is told of them.
FuelIsFresh ==
  conf.role = "leader" /\ HostFor("ConsumeFuel") = HostFor("RemainingFuelAsGen") =>
    \A b \in Blocks : pc[b].at = "prompt" \/ pc[b].call = "llm" => pc[b].n = Max({0, Fuel - SumFunction(consumed)})

\* Only an upgrader's transaction writes a slot that is locked, in whatever order the slots
\* are listed.
LockedSlotsKept == written \cap Range(conf.locked_slots) # {} => conf.upgrader

\* Whoever fails, and whatever connections break, nobody waits for ever: the process ends.
RunEnds == <>(pc[Main].at = "exit")
=============================================================================
