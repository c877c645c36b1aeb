---------------------------- MODULE NondetQueue ----------------------------
(***************************************************************************)
(* The nondeterministic-block machinery of the executor: gl_call's         *)
(* run_nondet handler on the deterministic VM's thread, the bounded queue  *)
(* it feeds, the two processors that drain it, and await_nondet_vms, which *)
(* turns their work into one verdict for the host.                         *)
(*                                                                         *)
(* The pieces that run concurrently are the deterministic thread (det),    *)
(* the processor spawned by Supervisor::start ("main") and the processor   *)
(* await_nondet_vms runs inline when it finds the queue non-empty          *)
(* ("secondary").  Each atomic operation on shared memory is one action.   *)
(***************************************************************************)
EXTENDS Integers, Sequences, FiniteSets

CONSTANTS
    NondetBlocks,   \* top_limits::NONDET_BLOCKS, the number of calls allowed
    Capacity,       \* slots of the tokio_mpmc channel (100 in the code)
    U32Max          \* "no disagreement" in nondet_call_disagree (u32::MAX)

ASSUME ConstantsAssumption ==
    /\ NondetBlocks \in Nat
    /\ Capacity \in Nat \ {0}
    /\ U32Max \in Nat
    /\ NondetBlocks <= U32Max

Calls == 0 .. NondetBlocks - 1
Processors == {"main", "secondary"}
NoCall == -1

Roles == {"leader", "validator", "sync"}

(* What the bytes of one recorded leader result decode to: a Return or a   *)
(* UserError, a VMError, no bytes at all, or bytes that do not decode.     *)
LeaderKinds == {"value", "vm_error", "empty", "malformed"}

(* What running a validator's block ends with: Return(true); anything else *)
(* that is not an internal error; an internal error.                       *)
Outcomes == {"agree", "disagree", "fail"}

VARIABLES
    role,            \* leader, validator, or validator in --sync mode
    leaderResults,   \* Supervisor::leader_nondet_results (unused by a leader)
    det,             \* where the deterministic thread is
    callNo,          \* Supervisor::nondet_call_no
    sending,         \* the call submit_nondet_vm_task is handing over, or NoCall
    nondetResults,   \* Supervisor::nondet_results, what a leader publishes
    queue,           \* the channel's buffer of calls
    closed,          \* sender.close() has been called
    counter,         \* Waiter.counter
    permit,          \* the permit stored in Waiter.reached_zero
    proc,            \* where each processor is
    task,            \* the call a processor holds, or NoCall
    outcome,         \* the outcome of the block a processor has just run
    disagree,        \* nondet_call_disagree
    failed,          \* the call of encountered_error, or NoCall
    fate,            \* history: what became of each call
    verdict          \* what await_nondet_vms returned

detVars  == <<role, leaderResults, callNo, nondetResults>>
waitVars == <<counter, permit>>
procVars == <<proc, task, outcome>>
vars == <<detVars, det, sending, queue, closed, waitVars, procVars,
          disagree, failed, fate, verdict>>

Pending == [kind |-> "pending", call |-> NoCall]
Verdict(kind, call) == [kind |-> kind, call |-> call]

(* Mutant of Lower: a store where the code has fetch_min.                  *)
Lower_Stores(a, b) == b
Lower(a, b) == IF a <= b THEN a ELSE b

-----------------------------------------------------------------------------
(* Waiter: a counter that starts at 1 (the deterministic thread's own      *)
(* token) and a Notify that stores at most one permit.                     *)

Increment == counter' = counter + 1 /\ UNCHANGED permit

Decrement ==
    /\ counter' = counter - 1
    /\ permit' = (permit \/ counter = 1)

-----------------------------------------------------------------------------
Init ==
    /\ role \in Roles
    /\ leaderResults \in UNION {[1 .. n -> LeaderKinds] : n \in 0 .. NondetBlocks}
    /\ role = "leader" => leaderResults = <<>>
    /\ det = "run"
    /\ callNo = 0
    /\ sending = NoCall
    /\ nondetResults = <<>>
    /\ queue = <<>>
    /\ closed = FALSE
    /\ counter = 1
    /\ permit = FALSE
    /\ proc = [p \in Processors |-> IF p = "main" THEN "select" ELSE "idle"]
    /\ task = [p \in Processors |-> NoCall]
    /\ outcome = [p \in Processors |-> "agree"]
    /\ disagree = U32Max
    /\ failed = NoCall
    /\ fate = [c \in Calls |-> "unused"]
    /\ verdict = Pending

-----------------------------------------------------------------------------
(* run_nondet on the deterministic thread.                                 *)

(* The recorded leader result of call c, "absent" past the end.            *)
LeaderResult(c) ==
    IF c < Len(leaderResults) THEN leaderResults[c + 1] ELSE "absent"

(* A trap ends the VM; no VM above it can catch a VMError, so the          *)
(* deterministic execution is over and await_nondet_vms is next.           *)
Trap == det' = "close"

TakeCallNo ==
    /\ det = "run"
    /\ callNo' = callNo + 1
    /\ UNCHANGED <<role, leaderResults, queue, closed, procVars, failed, verdict>>

(* call_no >= NONDET_BLOCKS, a result the leader never recorded, or one    *)
(* that does not decode: the VM traps and nothing is queued.               *)
RunNondetRejected ==
    /\ TakeCallNo
    /\ \/ callNo >= NondetBlocks
       \/ role # "leader" /\ LeaderResult(callNo) \in {"absent", "malformed"}
    /\ Trap
    /\ UNCHANGED <<nondetResults, sending, waitVars, disagree, fate>>

(* A zero-length leader result: a disagreement, unless in sync mode.       *)
(* mark_nondet_disagreement is a fetch_min.                                *)
RunNondetEmpty ==
    /\ TakeCallNo
    /\ callNo < NondetBlocks
    /\ role # "leader"
    /\ LeaderResult(callNo) = "empty"
    /\ IF role = "sync"
       THEN UNCHANGED <<disagree, fate>>
       ELSE /\ disagree' = Lower(disagree, callNo)
            /\ fate' = [fate EXCEPT ![callNo] = "marked"]
    /\ Trap
    /\ UNCHANGED <<nondetResults, sending, waitVars>>

(* The leader runs the block inline.  Its result is pushed under its call  *)
(* number; an internal error traps before anything is pushed.              *)
Padded(s, n) == [i \in 1 .. n |-> IF i <= Len(s) THEN s[i] ELSE "empty"]

(* Mutant of RunNondetLeader: pushed under the number after the fetch_add. *)
RunNondetLeader_OffByOne ==
    /\ TakeCallNo
    /\ callNo < NondetBlocks
    /\ role = "leader"
    /\ \E r \in {"value", "vm_error"} :
         /\ nondetResults' =
              [Padded(nondetResults, callNo + 2) EXCEPT ![callNo + 2] = r]
         /\ det' = IF r = "value" THEN "charge" ELSE "close"
    /\ UNCHANGED <<sending, waitVars, disagree, fate>>

RunNondetLeader ==
    /\ TakeCallNo
    /\ callNo < NondetBlocks
    /\ role = "leader"
    /\ \/ /\ Trap
          /\ UNCHANGED nondetResults
       \/ \E r \in {"value", "vm_error"} :
            /\ nondetResults' =
                 [Padded(nondetResults, callNo + 1) EXCEPT ![callNo + 1] = r]
            /\ det' = IF r = "value" THEN "charge" ELSE "close"
    /\ UNCHANGED <<sending, waitVars, disagree, fate>>

(* In sync mode the recorded value is returned and no VM is started.       *)
RunNondetSync ==
    /\ TakeCallNo
    /\ callNo < NondetBlocks
    /\ role = "sync"
    /\ LeaderResult(callNo) \in {"value", "vm_error"}
    /\ det' = IF LeaderResult(callNo) = "value" THEN "charge" ELSE "close"
    /\ UNCHANGED <<nondetResults, sending, waitVars, disagree, fate>>

(* Mutant of RunNondetSubmit: the task is not counted in.                  *)
RunNondetSubmit_Uncounted ==
    /\ TakeCallNo
    /\ callNo < NondetBlocks
    /\ role = "validator"
    /\ LeaderResult(callNo) \in {"value", "vm_error"}
    /\ sending' = callNo
    /\ fate' = [fate EXCEPT ![callNo] = "submitted"]
    /\ det' = "send"
    /\ UNCHANGED <<waitVars, nondetResults, disagree>>

(* A validator counts the task in before it is sent.                       *)
RunNondetSubmit ==
    /\ TakeCallNo
    /\ callNo < NondetBlocks
    /\ role = "validator"
    /\ LeaderResult(callNo) \in {"value", "vm_error"}
    /\ Increment
    /\ sending' = callNo
    /\ fate' = [fate EXCEPT ![callNo] = "submitted"]
    /\ det' = "send"
    /\ UNCHANGED <<nondetResults, disagree>>

(* sender.send waits while the channel is full.  It can fail only on a     *)
(* closed channel, and only this thread closes it, later.                  *)
SendTask ==
    /\ det = "send"
    /\ Len(queue) < Capacity
    /\ queue' = Append(queue, sending)
    /\ sending' = NoCall
    /\ det' = IF LeaderResult(sending) = "value" THEN "charge" ELSE "close"
    /\ UNCHANGED <<detVars, closed, waitVars, procVars, disagree, failed, fate, verdict>>

(* consume_nondet_output: the fee bucket has room, or the VM traps.        *)
ChargeOutput ==
    /\ det = "charge"
    /\ det' \in {"run", "close"}
    /\ UNCHANGED <<detVars, sending, queue, closed, waitVars, procVars,
                   disagree, failed, fate, verdict>>

(* The deterministic VM ends for a reason of its own.                      *)
DetEnds ==
    /\ det = "run"
    /\ det' = "close"
    /\ UNCHANGED <<detVars, sending, queue, closed, waitVars, procVars,
                   disagree, failed, fate, verdict>>

RunNondet ==
    \/ RunNondetRejected \/ RunNondetEmpty \/ RunNondetLeader
    \/ RunNondetSync \/ RunNondetSubmit \/ SendTask \/ ChargeOutput

-----------------------------------------------------------------------------
(* await_nondet_vms, still on the deterministic thread.                    *)

AwaitClose ==
    /\ det = "close"
    /\ closed' = TRUE
    /\ det' = "decrement"
    /\ UNCHANGED <<detVars, sending, queue, waitVars, procVars,
                   disagree, failed, fate, verdict>>

AwaitDecrement ==
    /\ det = "decrement"
    /\ Decrement
    /\ det' = "inspect"
    /\ UNCHANGED <<detVars, sending, queue, closed, procVars,
                   disagree, failed, fate, verdict>>

(* A queue seen non-empty gets a second processor, which takes a read      *)
(* permit of tasks_loop_done.                                              *)
AwaitInspect ==
    /\ det = "inspect"
    /\ proc' = IF queue # <<>> THEN [proc EXCEPT !["secondary"] = "select"] ELSE proc
    /\ det' = "wait"
    /\ UNCHANGED <<detVars, sending, queue, closed, waitVars, task, outcome,
                   disagree, failed, fate, verdict>>

(* Who holds a read permit of tasks_loop_done.                             *)
ReadPermits == {p \in Processors : proc[p] \notin {"idle", "exited"}}

(* The write lock is granted when every permit is back.                    *)
AwaitVerdict ==
    /\ det = "wait"
    /\ ReadPermits = {}
    /\ verdict' = IF failed # NoCall THEN Verdict("error", failed)
                  ELSE IF disagree = U32Max THEN Verdict("agreed", NoCall)
                  ELSE Verdict("disagreed", disagree)
    /\ failed' = NoCall
    /\ det' = "done"
    /\ UNCHANGED <<detVars, sending, queue, closed, waitVars, procVars, disagree, fate>>

AwaitNondetVms == AwaitClose \/ AwaitDecrement \/ AwaitInspect \/ AwaitVerdict

-----------------------------------------------------------------------------
(* nondet_vm_processor.                                                    *)

Enter(p, s) == proc' = [proc EXCEPT ![p] = s]

(* wait() reads a positive counter and goes on to await the Notify; it     *)
(* reads the counter no more in this iteration of the select!.             *)
ProcessorParks(p) ==
    /\ proc[p] = "select"
    /\ counter > 0
    /\ Enter(p, "parked")
    /\ UNCHANGED <<detVars, det, sending, queue, closed, waitVars, task, outcome,
                   disagree, failed, fate, verdict>>

(* Mutant of ProcessorSeesZero: the countdown is taken to be over when     *)
(* only the deterministic thread's token is left.                          *)
ProcessorSeesZero_Early(p) ==
    /\ proc[p] = "select"
    /\ counter <= 1
    /\ Enter(p, "exited")
    /\ UNCHANGED <<detVars, det, sending, queue, closed, waitVars, task, outcome,
                   disagree, failed, fate, verdict>>

(* wait() returned: the counter was read as 0, or the permit was taken.    *)
ProcessorSeesZero(p) ==
    /\ \/ /\ proc[p] = "select"
          /\ counter = 0
          /\ UNCHANGED permit
       \/ /\ proc[p] = "parked"
          /\ permit
          /\ permit' = FALSE
    /\ Enter(p, "exited")
    /\ UNCHANGED <<detVars, det, sending, queue, closed, counter, task, outcome,
                   disagree, failed, fate, verdict>>

(* recv() returned None: closed and drained.                               *)
ProcessorSeesClosed(p) ==
    /\ proc[p] \in {"select", "parked"}
    /\ closed /\ queue = <<>>
    /\ Enter(p, "exited")
    /\ UNCHANGED <<detVars, det, sending, queue, closed, waitVars, task, outcome,
                   disagree, failed, fate, verdict>>

ProcessorReceives(p) ==
    /\ proc[p] \in {"select", "parked"}
    /\ queue # <<>>
    /\ task' = [task EXCEPT ![p] = Head(queue)]
    /\ queue' = Tail(queue)
    /\ Enter(p, "check")
    /\ UNCHANGED <<detVars, det, sending, closed, waitVars, outcome,
                   disagree, failed, fate, verdict>>

(* Any disagreement recorded so far, whichever call it is for, skips the   *)
(* task.                                                                   *)
ProcessorChecks(p) ==
    /\ proc[p] = "check"
    /\ IF disagree # U32Max
       THEN Enter(p, "drop") /\ fate' = [fate EXCEPT ![task[p]] = "skipped"]
       ELSE Enter(p, "run") /\ UNCHANGED fate
    /\ UNCHANGED <<detVars, det, sending, queue, closed, waitVars, task, outcome,
                   disagree, failed, verdict>>

ProcessorRuns(p) ==
    /\ proc[p] = "run"
    /\ \E r \in Outcomes : outcome' = [outcome EXCEPT ![p] = r]
    /\ Enter(p, "publish")
    /\ UNCHANGED <<detVars, det, sending, queue, closed, waitVars, task,
                   disagree, failed, fate, verdict>>

(* Mutant of ProcessorPublishes: a block that failed is run again.         *)
ProcessorPublishes_Retries(p) ==
    /\ proc[p] = "publish"
    /\ IF outcome[p] = "fail"
       THEN Enter(p, "run") /\ UNCHANGED <<fate, disagree>>
       ELSE /\ fate' = [fate EXCEPT ![task[p]] =
                            IF outcome[p] = "agree" THEN "agreed" ELSE "disagreed"]
            /\ disagree' = IF outcome[p] = "agree" THEN disagree ELSE Lower(disagree, task[p])
            /\ Enter(p, "drop")
    /\ UNCHANGED <<detVars, det, sending, queue, closed, waitVars, task, outcome,
                   failed, verdict>>

(* fetch_min for a disagreement, swap (overwriting an earlier error) for   *)
(* an internal error.                                                      *)
ProcessorPublishes(p) ==
    /\ proc[p] = "publish"
    /\ CASE outcome[p] = "agree" ->
              /\ fate' = [fate EXCEPT ![task[p]] = "agreed"]
              /\ UNCHANGED <<disagree, failed>>
         [] outcome[p] = "disagree" ->
              /\ fate' = [fate EXCEPT ![task[p]] = "disagreed"]
              /\ disagree' = Lower(disagree, task[p])
              /\ UNCHANGED failed
         [] outcome[p] = "fail" ->
              /\ fate' = [fate EXCEPT ![task[p]] = "failed"]
              /\ failed' = task[p]
              /\ UNCHANGED disagree
    /\ Enter(p, "drop")
    /\ UNCHANGED <<detVars, det, sending, queue, closed, waitVars, task, outcome, verdict>>

(* VMCountDecrementer::drop, at the end of the iteration.                  *)
ProcessorDrops(p) ==
    /\ proc[p] = "drop"
    /\ Decrement
    /\ task' = [task EXCEPT ![p] = NoCall]
    /\ Enter(p, "select")
    /\ UNCHANGED <<detVars, det, sending, queue, closed, outcome,
                   disagree, failed, fate, verdict>>

Processor(p) ==
    \/ ProcessorParks(p) \/ ProcessorSeesZero(p) \/ ProcessorSeesClosed(p)
    \/ ProcessorReceives(p) \/ ProcessorChecks(p) \/ ProcessorRuns(p)
    \/ ProcessorPublishes(p) \/ ProcessorDrops(p)

-----------------------------------------------------------------------------
(* The process exits once the verdict is known.                            *)
Done == det = "done" /\ UNCHANGED vars

Next ==
    \/ RunNondet \/ DetEnds \/ AwaitNondetVms
    \/ \E p \in Processors : Processor(p)
    \/ Done

(* tokio polls every task that is ready, blocks end (the deterministic     *)
(* contract's own code is not assumed to: DetEnds is not fair).            *)
Fairness ==
    /\ WF_vars(SendTask) /\ WF_vars(ChargeOutput) /\ WF_vars(AwaitNondetVms)
    /\ \A p \in Processors : WF_vars(Processor(p))

Spec == Init /\ [][Next]_vars
FairSpec == Spec /\ Fairness

-----------------------------------------------------------------------------
(* Properties.                                                             *)

(* Type invariant: in particular the Waiter's counter is never decremented *)
(* below zero (Waiter::decrement panics there in debug builds).            *)
TypeOK ==
    /\ role \in Roles
    /\ leaderResults \in UNION {[1 .. n -> LeaderKinds] : n \in 0 .. NondetBlocks}
    /\ det \in {"run", "send", "charge", "close", "decrement", "inspect", "wait", "done"}
    /\ callNo \in 0 .. NondetBlocks + 1
    /\ sending \in Calls \cup {NoCall}
    /\ nondetResults \in Seq({"value", "vm_error", "empty"})
    /\ queue \in Seq(Calls) /\ Len(queue) <= Capacity
    /\ closed \in BOOLEAN
    /\ counter \in Nat
    /\ permit \in BOOLEAN
    /\ proc \in [Processors ->
                 {"idle", "select", "parked", "check", "run", "publish", "drop", "exited"}]
    /\ task \in [Processors -> Calls \cup {NoCall}]
    /\ outcome \in [Processors -> Outcomes]
    /\ disagree \in Calls \cup {U32Max}
    /\ failed \in Calls \cup {NoCall}
    /\ fate \in [Calls -> {"unused", "marked", "submitted", "skipped",
                           "agreed", "disagreed", "failed"}]
    /\ verdict \in [kind : {"pending", "error", "agreed", "disagreed"},
                    call : Calls \cup {NoCall}]

(* The VMCountDecrementer tokens alive: of the call being sent, of those   *)
(* in the channel and of those a processor holds; and the deterministic    *)
(* thread's own token, until await_nondet_vms gives it up.                 *)
Queued == {queue[i] : i \in 1 .. Len(queue)}
Held == {task[p] : p \in Processors}
Tokens == (Queued \cup Held \cup {sending}) \ {NoCall}
OwnToken == IF det \in {"run", "send", "charge", "close", "decrement"} THEN 1 ELSE 0

(* vm_countdown counts exactly the live tokens: each task increments once  *)
(* before it is sent and decrements once, whichever way its iteration ends *)
(* (run, skipped, or left by `continue` on an error).                      *)
CounterMatchesTokens == counter = Cardinality(Tokens) + OwnToken

(* The countdown is exact and every variable has its type: the counter     *)
(* that Waiter::decrement lowers is never below zero and counts the tasks  *)
(* still to be settled.                                                    *)
ExactCountdown == TypeOK /\ CounterMatchesTokens

(* A processor leaves its loop, by the countdown or by the closed channel, *)
(* only when no task can reach it any more: nothing is ever left behind in *)
(* the queue.                                                              *)
ExitedMeansDrained ==
    \A p \in Processors : proc[p] = "exited" => closed /\ queue = <<>> /\ sending = NoCall

(* await_nondet_vms answers only when every block handed over has been     *)
(* settled; "no disagreement" means that every one of them ran and agreed; *)
(* a disagreement is the lowest of those recorded; an internal error of    *)
(* any block outranks both.                                                *)
VerdictIsSound ==
    LET recorded == {c \in Calls : fate[c] \in {"disagreed", "marked"}}
        erred == {c \in Calls : fate[c] = "failed"}
    IN  /\ verdict.kind # "pending" => \A c \in Calls : fate[c] # "submitted"
        /\ verdict.kind = "agreed" => \A c \in Calls : fate[c] \in {"unused", "agreed"}
        /\ verdict.kind = "disagreed" =>
              /\ verdict.call \in recorded
              /\ \A c \in recorded : verdict.call <= c
              /\ erred = {}
        /\ verdict.kind = "error" => verdict.call \in erred

(* No block gets lost between run_nondet and the verdict, however the      *)
(* processors leave: what they leave behind is nothing, and the verdict    *)
(* accounts for every block.                                               *)
CompleteVerdict == ExitedMeansDrained /\ VerdictIsSound

(* What a leader publishes has a result for every block it finished and no *)
(* empty (padding) entry, so a validator that replays it meets the "empty" *)
(* case of run_nondet only if the leader was not this program.             *)
NoHoleInLeaderResults ==
    /\ Len(nondetResults) <= callNo
    /\ \A i \in 1 .. Len(nondetResults) : nondetResults[i] # "empty"

(* The components above implement the abstract verdict.                    *)
Abstract == INSTANCE NondetVerdict WITH fate <- fate, verdict <- verdict
ImplementsVerdict == Abstract!Spec

(* Once the deterministic VM has ended, await_nondet_vms returns: both     *)
(* processors leave although the Waiter wakes only one of them.            *)
AwaitReturns == det = "close" ~> det = "done"

(* The deterministic VM is never stuck submitting a block: a full channel  *)
(* has a processor that will make room, because the countdown cannot reach *)
(* zero, nor the channel close, while that VM runs.                        *)
SubmitReturns == det = "send" ~> det # "send"

(* Whoever waits for the processors gets on: submit_nondet_vm_task on a    *)
(* full channel, and await_nondet_vms.                                     *)
CallersReturn == AwaitReturns /\ SubmitReturns

=============================================================================
