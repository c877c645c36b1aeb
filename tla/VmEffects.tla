----------------------------- MODULE VmEffects -----------------------------
(***************************************************************************)
(* The tree of VMs of one transaction and the effects they produce: the    *)
(* gl_call handlers of wasi/genlayer_sdk.rs that send messages, emit       *)
(* events, write storage and start sub-VMs, with the permissions each VM   *)
(* runs under, the accumulator handed from VM to VM, and the fees of       *)
(* DataLimit.  Parent and child never run together: the parent waits for   *)
(* spawn_apply_run, so the VMs are a stack whose top is running.           *)
(*                                                                         *)
(* Effects of validators' nondeterministic VMs reach nobody; the nondet    *)
(* VM of this module is the leader's, which runs inline.                   *)
(***************************************************************************)
EXTENDS DataLimit

CONSTANTS
    VmRecursion,   \* top_limits::VM_RECURSION
    Balance,       \* balance of the contract, read once and cached
    U256Max,       \* what messages_value_decremented saturates at
    Values,        \* values a message may carry
    Targets,       \* kinds of message, by what message_fee_allocation matches
    NodeOf,        \* index of the first allocation node a target matches, or 0
    NodeBudgets,   \* message_fee_allocation: the budget of each node
    MainPerms,     \* permissions the transaction may be given
    PageIds,       \* storage pages of the contract
    CodePages      \* those a deployed contract's code and major version take

ASSUME EffectsAssumption ==
    /\ VmRecursion \in Nat \ {0} /\ Balance \in 0 .. U256Max /\ U256Max \in Nat
    /\ Values \subseteq 0 .. U256Max
    /\ NodeBudgets \in Seq(Nat)
    /\ NodeOf \in [Targets -> 0 .. Len(NodeBudgets)]
    /\ \E cost \in Costs["storage"] : Costs["storage"] = {cost}   \* every page costs the same
    /\ MainPerms \subseteq SUBSET {"write", "send", "call", "nondet"}
    /\ CodePages \subseteq PageIds

VARIABLES
    stack,     \* the VMs, main first
    code,      \* pages of the code of a deployment, or none
    written,   \* those of them written so far
    result     \* kind of the main VM's result once it is known

runVars == <<code, written, result>>
vars == <<stack, runVars, feeVars>>

Depth == Len(stack)
Top == stack[Depth]

(* VMDataAccumulator; custom_runners are left out.                         *)
EmptyAcc(decremented) == [decremented |-> decremented, emissions |-> <<>>, nodes |-> <<>>]

(* SingleVMData: config, accumulator, the pages its storage overrides, and *)
(* how it ended.                                                           *)
Vm(kind, det, perms, main, acc, pages) ==
    [kind |-> kind, det |-> det, perms |-> perms, main |-> main,
     acc |-> acc, pages |-> pages, end |-> "running"]

Init ==
    /\ FeesInit
    /\ stack = <<>>
    /\ code \in {{}, CodePages}
    /\ written = {}
    /\ result = "none"

(* run_with_impl, once consume_initial has been paid.  A deployment first  *)
(* writes its code, at the price of its pages.                             *)
Preparing == ChargingDone /\ stack = <<>> /\ result = "none"

WriteCode ==
    /\ Preparing
    /\ \E page \in code \ written, costs \in Costs["storage"] :
        /\ ConsumeBucketRaw("storage", costs)
        /\ written' = written \cup {page}
    /\ UNCHANGED <<stack, code, result, totals, charging>>

(* Mutant of PreparationFails: the pages of the code are paid back.        *)
PreparationFails_Refunds ==
    /\ Preparing
    /\ result' = "vm_error"
    /\ \E costs \in Costs["storage"] :
        LET back == [i \in DOMAIN costs |-> costs[i] * Cardinality(written)]
        IN  /\ remaining' = [b \in Buckets |-> remaining[b] + Deduction("storage", back, b)]
            /\ consumed' = [consumed EXCEPT !["storage"] = [i \in DOMAIN @ |-> @[i] - back[i]]]
    /\ UNCHANGED <<stack, code, written, totals, charging>>

(* A page that cannot be paid for, code that does not parse, or another    *)
(* major version: FullResult::empty_from, and no VM is started.            *)
PreparationFails ==
    /\ Preparing
    /\ result' = "vm_error"
    /\ UNCHANGED <<stack, code, written, feeVars>>

StartMain ==
    /\ Preparing /\ written = code
    /\ \E perms \in MainPerms :
        stack' = <<Vm("main", TRUE, perms, TRUE,
                      [EmptyAcc(0) EXCEPT !.nodes = NodeBudgets], written)>>
    /\ UNCHANGED <<runVars, feeVars>>

Running == Depth > 0 /\ Top.end = "running"
Allowed(perm) == Running /\ Top.det /\ perm \in Top.perms

SetTop(vm) == stack' = [stack EXCEPT ![Depth] = vm]

(* A VMError trap; an OOM trap of a charge that does not fit.              *)
Trap == SetTop([Top EXCEPT !.end = "vm_error"])
OomTrap == Trap /\ UNCHANGED <<remaining, consumed>>

-----------------------------------------------------------------------------
(* EthSend, PostMessage, DeployContract: one shape.                        *)

Saturate(n) == IF n > U256Max THEN U256Max ELSE n

(* checked_sum_le, when the value is not zero; else Errno::Inbalance.      *)
HasBalance(acc, value) ==
    value = 0 \/ (acc.decremented <= Balance /\ value <= Balance - acc.decremented)

Message(node, value, fee, receipt) ==
    [kind |-> "message", node |-> node, value |-> value, fee |-> fee, receipt |-> receipt]

(* Mutant of AfterMessage: the node's budget is left as it was.            *)
AfterMessage_KeepsBudget(acc, m) ==
    [acc EXCEPT !.emissions = Append(@, m), !.decremented = Saturate(@ + m.value)]
AfterMessage(acc, m) ==
    [acc EXCEPT !.nodes[m.node] = @ - m.fee,
                !.emissions = Append(@, m),
                !.decremented = Saturate(@ + m.value)]

SendMessage ==
    /\ Allowed("send")
    /\ \E target \in Targets, value \in Values :
        /\ HasBalance(Top.acc, value)
        /\ LET node == NodeOf[target]
           IN  \/ node \notin DOMAIN Top.acc.nodes /\ OomTrap
               \/ /\ node \in DOMAIN Top.acc.nodes
                  /\ \E fee \in Costs["message_fee"], receipt \in Costs["message_receipt"] :
                      \/ CostSum(fee) > Top.acc.nodes[node] /\ OomTrap
                      \/ CostSum(fee) <= Top.acc.nodes[node] /\ ~MessageFits(fee, receipt) /\ OomTrap
                      \/ /\ CostSum(fee) <= Top.acc.nodes[node]
                         /\ ConsumeMessageFee(fee, receipt)
                         /\ SetTop([Top EXCEPT !.acc = AfterMessage(@,
                                Message(node, value, CostSum(fee), CostSum(receipt)))])
    /\ UNCHANGED <<runVars, totals, charging>>

(* EmitEvent asks for the permission to write.                             *)
EmitEvent ==
    /\ Allowed("write")
    /\ \E costs \in Costs["event"] :
        \/ ~RawFits("event", costs) /\ OomTrap
        \/ /\ ConsumeBucketRaw("event", costs)
           /\ SetTop([Top EXCEPT !.acc.emissions = Append(@,
                [kind |-> "event", node |-> 0, value |-> 0, fee |-> CostSum(costs), receipt |-> 0])])
    /\ UNCHANGED <<runVars, totals, charging>>

(* storage_write, a page at a time: a page already overridden is free.     *)
StorageWrite ==
    /\ Allowed("write")
    /\ \E page \in PageIds \ Top.pages, costs \in Costs["storage"] :
        \/ ~RawFits("storage", costs) /\ OomTrap
        \/ /\ ConsumeBucketRaw("storage", costs)
           /\ SetTop([Top EXCEPT !.pages = @ \cup {page}])
    /\ UNCHANGED <<runVars, totals, charging>>

-----------------------------------------------------------------------------
(* Sub-VMs.                                                                *)

(* spawn refuses a VM that is too deep: a VMError, and the child's data    *)
(* comes back untouched.                                                   *)
Push(parent, child) ==
    stack' = [stack EXCEPT ![Depth] = parent]
             \o <<IF Depth >= VmRecursion THEN [child EXCEPT !.end = "vm_error"] ELSE child>>

(* Mutants of CallPerms: a called contract keeps the permission to write;  *)
(* it gets the permissions of any contract.                                *)
CallPerms_Default(vm) == {"call", "nondet"}
CallPerms_Writes(vm) == vm.perms \cap {"write", "call", "nondet"}
CallPerms(vm) == vm.perms \cap {"call", "nondet"}

(* CallContract: another contract, read-only, with an accumulator of its   *)
(* own; its state_mode is never Default.                                   *)
CallContract ==
    /\ Allowed("call")
    /\ Push(Top, Vm("call", TRUE, CallPerms(Top), FALSE, EmptyAcc(Top.acc.decremented), {}))
    /\ UNCHANGED <<runVars, feeVars>>

(* sandbox: the child takes the parent's accumulator and a copy of its     *)
(* storage; the parent is left with a stand-in.                            *)
Sandbox ==
    /\ Running
    /\ \E given \in SUBSET {"write", "send"} :
        Push([Top EXCEPT !.acc = EmptyAcc(U256Max)],
             Vm("sandbox", Top.det, Top.perms \cap given, Top.main, Top.acc, Top.pages))
    /\ UNCHANGED <<runVars, feeVars>>

(* run_nondet at the leader.                                               *)
RunNondet ==
    /\ Allowed("nondet")
    /\ Push(Top, Vm("nondet", FALSE, {}, TRUE, EmptyAcc(Top.acc.decremented), Top.pages))
    /\ UNCHANGED <<runVars, feeVars>>

(* The running VM ends: it returns, fails on its own account or traps.     *)
EndVm ==
    /\ Running
    /\ \E end \in {"return", "user_error", "vm_error"} : SetTop([Top EXCEPT !.end = end])
    /\ UNCHANGED <<runVars, feeVars>>

Ended(kind) == Depth > 0 /\ Top.end # "running" /\ Top.kind = kind
Parent == stack[Depth - 1]
Pop(parent) == stack' = Append(SubSeq(stack, 1, Depth - 2), parent)
SubVmError(vm, end) == IF end = "vm_error" THEN [vm EXCEPT !.end = "vm_error"] ELSE vm

(* check_empty; then a VMError of the child traps the parent too.          *)
CallReturns ==
    /\ Ended("call")
    /\ IF Top.acc.emissions = <<>> /\ Top.acc.nodes = <<>>
       THEN Pop(SubVmError(Parent, Top.end)) /\ UNCHANGED result
       ELSE stack' = <<>> /\ result' = "internal_error"
    /\ UNCHANGED <<code, written, feeVars>>

(* Mutants of SandboxReturns: a failed sandbox leaves the stand-in behind; *)
(* a failed sandbox has its storage thrown away.                           *)
SandboxReturns_RollsBack ==
    /\ Ended("sandbox")
    /\ Pop([Parent EXCEPT !.acc = Top.acc,
                          !.pages = IF Top.end = "return" THEN Top.pages ELSE @])
    /\ UNCHANGED <<runVars, feeVars>>

SandboxReturns_OnlyOnSuccess ==
    /\ Ended("sandbox")
    /\ Pop(IF Top.end = "return"
           THEN [Parent EXCEPT !.acc = Top.acc, !.pages = Top.pages] ELSE Parent)
    /\ UNCHANGED <<runVars, feeVars>>

(* Whatever the child's result, its accumulator and storage come back.     *)
SandboxReturns ==
    /\ Ended("sandbox")
    /\ Pop([Parent EXCEPT !.acc = Top.acc, !.pages = Top.pages])
    /\ UNCHANGED <<runVars, feeVars>>

(* The result is pushed, its output charged, and a VMError traps.          *)
NondetReturns ==
    /\ Ended("nondet")
    /\ \E costs \in Costs["nondet_output"] :
        \/ ~RawFits("nondet_output", costs) /\ Refused /\ Pop([Parent EXCEPT !.end = "vm_error"])
        \/ ConsumeBucketRaw("nondet_output", costs) /\ Pop(SubVmError(Parent, Top.end))
    /\ UNCHANGED <<runVars, totals, charging>>

MainReturns ==
    /\ Ended("main") /\ result = "none"
    /\ result' = Top.end
    /\ UNCHANGED <<stack, code, written, feeVars>>

Finished == (result # "none" \/ charging = 0) /\ UNCHANGED vars

Next ==
    \/ ConsumeInitial /\ UNCHANGED <<stack, runVars>>
    \/ WriteCode \/ PreparationFails \/ StartMain \/ SendMessage \/ EmitEvent \/ StorageWrite
    \/ CallContract \/ Sandbox \/ RunNondet \/ EndVm
    \/ CallReturns \/ SandboxReturns \/ NondetReturns \/ MainReturns
    \/ Finished

Spec == Init /\ [][Next]_vars

-----------------------------------------------------------------------------
(* Properties.                                                             *)

(* The accumulator that will be reported: it moves down the stack with     *)
(* each sandbox, and is left behind by a call or a nondet VM.              *)
HolderIndex == Max({n \in 1 .. Depth : \A k \in 2 .. n : stack[k].kind = "sandbox"})
Holder == stack[HolderIndex]
Log == Holder.acc.emissions

(* What a log of emissions comes to.                                       *)
EventFees(log) ==
    SumFunction([i \in DOMAIN log |-> IF log[i].kind = "event" THEN log[i].fee ELSE 0])
MessageFees(log) ==
    SumFunction([i \in DOMAIN log |-> IF log[i].kind = "message" THEN log[i].fee ELSE 0])
MessageReceipts(log) ==
    SumFunction([i \in DOMAIN log |-> IF log[i].kind = "message" THEN log[i].receipt ELSE 0])
NodeFees(log, k) ==
    SumFunction([i \in DOMAIN log |-> IF log[i].node = k THEN log[i].fee ELSE 0])
MessageValues(log) == SumFunction([i \in DOMAIN log |-> log[i].value])

(* What has been charged to a category after the initial charge.           *)
Charged(cat) == CostSum(consumed[cat]) - CostSum(Initials[cat])

(* Type invariant.                                                         *)
TypeOK ==
    /\ FeesTypeOK
    /\ Depth <= VmRecursion + 1
    /\ \A n \in 1 .. Depth :
        /\ stack[n].perms \subseteq {"write", "send", "call", "nondet"}
        /\ stack[n].acc.decremented \in 0 .. U256Max
        /\ \A k \in DOMAIN stack[n].acc.nodes : stack[n].acc.nodes[k] \in Nat
        /\ stack[n].pages \subseteq PageIds
        /\ n < Depth => stack[n].end = "running"
    /\ code \subseteq PageIds /\ written \subseteq code
    /\ result \in {"none", "return", "user_error", "vm_error", "internal_error"}

(* No effect is charged and then dropped, none is reported unpaid: through *)
(* every nesting of calls and sandboxes, and whichever way they end, the   *)
(* accumulator that will be reported holds exactly what was charged        *)
(* (check_empty: "no effect was charged but silently dropped").            *)
ChargedIsReported ==
    Depth > 0 =>
        /\ Charged("event") = EventFees(Log)
        /\ Charged("message_fee") = MessageFees(Log)
        /\ Charged("message_receipt") = MessageReceipts(Log)
        /\ \A cost \in Costs["storage"] :
              Charged("storage") = CostSum(cost) * Cardinality(Holder.pages)

(* What the messages of an allocation node cost never exceeds its budget,  *)
(* and what is left of the budget is what they did not spend.              *)
NodeBudgetsHold ==
    Depth > 0 =>
        \A k \in DOMAIN NodeBudgets :
            Holder.acc.nodes[k] + NodeFees(Log, k) = NodeBudgets[k]

(* Messages never promise more than the contract has, sandboxes included;  *)
(* so get_self_balance (balance less what was decremented, in a VM of the  *)
(* main contract) cannot underflow.                                        *)
NeverOverdrawn ==
    Depth > 0 =>
        /\ MessageValues(Log) <= Balance
        /\ Holder.acc.decremented = MessageValues(Log)
        /\ (Top.main /\ Top.det /\ Top.end = "running") => Top.acc.decremented <= Balance

(* What messages promise is there, whichever sandboxes sent them: their    *)
(* value is in the balance, their fees in the budgets of their nodes.      *)
PromisesHold == NodeBudgetsHold /\ NeverOverdrawn

(* The buckets are never overdrawn, what is reported as consumed is what   *)
(* they lost, and a charge is refused only when one of them is short.      *)
FeesExact == TypeOK /\ AccountsBalance /\ RefusedOnlyIfShort

(* CallContract children are read-only: their accumulators stay empty and  *)
(* check_empty never turns a contract's run into an internal error.        *)
CallsAreStatic ==
    /\ \A n \in 1 .. Depth : \A m \in n .. Depth :
          stack[n].kind \in {"call", "nondet"} =>
              stack[m].acc.emissions = <<>> /\ stack[m].acc.nodes = <<>>
    /\ result # "internal_error"

(* A sub-VM never has a permission that the VM that started it lacks.      *)
PermissionsOnlyShrink ==
    \A n \in 2 .. Depth :
        /\ stack[n].perms \subseteq stack[n - 1].perms
        /\ stack[n].det => stack[n - 1].det

(* What has been reported so far is only ever added to: no sub-VM takes    *)
(* back, reorders or replaces what was emitted before it, or a page.       *)
EffectsAppendOnly ==
    [][stack # <<>> /\ stack' # <<>> =>
          IsPrefix(Log, Log') /\ Holder.pages \subseteq Holder'.pages]_vars

=============================================================================
