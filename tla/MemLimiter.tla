----------------------------- MODULE MemLimiter -----------------------------
(***************************************************************************)
(* rt::memlimiter::Limiter: one atomic counter of remaining memory shared  *)
(* by a root limiter and every limiter derived from it, and in each        *)
(* limiter an atomic count of what it has consumed, given back when the    *)
(* limiter is dropped.                                                     *)
(*                                                                         *)
(* A limiter is used by the thread of its VM.  Threads meet in the shared  *)
(* counters only, and every load, compare_exchange, fetch_add, fetch_sub   *)
(* and fetch_min is one action.  The counters are u32: additions wrap.     *)
(***************************************************************************)
EXTENDS Integers, Sequences, FiniteSetsExt

CONSTANTS
    Limiters,     \* the root limiter and the derived ones, one per VM
    U32Max,       \* u32::MAX, the budget a root limiter starts with
    TableEntry,   \* memory_limiter_consts::TABLE_ENTRY
    Requests      \* requests a VM makes: [kind, current, delta]

ASSUME ConstantsAssumption ==
    /\ IsFiniteSet(Limiters)   \* VM_RECURSION and the number of blocks bound the VMs
    /\ U32Max \in Nat /\ TableEntry \in Nat \ {0}
    /\ Requests \subseteq [kind : {"plain", "memory", "table"}, current : Nat, delta : Nat]

Wrap(n) == n % (U32Max + 1)
LowerOf(a, b) == IF a <= b THEN a ELSE b

VARIABLES
    remaining,   \* LimiterInnerData.remaining_memory, shared
    least,       \* LimiterInnerData.least_remaining_memory, shared
    consumed,    \* consumed_memory of each limiter
    at,          \* where the thread of each limiter is
    request,     \* the request it is serving
    seen,        \* `remaining` of its CAS loop, or `consumed` of its drop
    blocks,      \* what it consumed and may release one by one (the VFS's files)
    answer,      \* what its last request returned
    lowest,      \* history: the lowest value remaining ever had
    overflowed   \* history: release_no_consumed's assert has failed

vars == <<remaining, least, consumed, at, request, seen, blocks, answer, lowest, overflowed>>

NoRequest == [kind |-> "plain", current |-> 0, delta |-> 0]

Init ==
    /\ remaining = U32Max
    /\ least = U32Max
    /\ consumed = [l \in Limiters |-> 0]
    /\ at = [l \in Limiters |-> "unborn"]
    /\ request = [l \in Limiters |-> NoRequest]
    /\ seen = [l \in Limiters |-> 0]
    /\ blocks = [l \in Limiters |-> <<>>]
    /\ answer = [l \in Limiters |-> "none"]
    /\ lowest = U32Max
    /\ overflowed = FALSE

Goto(l, s) == at' = [at EXCEPT ![l] = s]

(* The call returns: its locals are gone.                                  *)
Return(l, a) ==
    /\ Goto(l, "idle")
    /\ answer' = [answer EXCEPT ![l] = a]
    /\ request' = [request EXCEPT ![l] = NoRequest]
    /\ seen' = [seen EXCEPT ![l] = 0]

(* derived(): the shared counters are kept, the own count starts at zero.  *)
Derive(l) ==
    /\ at[l] = "unborn"
    /\ Goto(l, "idle")
    /\ UNCHANGED <<remaining, least, consumed, request, seen, blocks, answer, lowest, overflowed>>

(* The bytes a request stands for; consume_mul's checked_mul.              *)
Scale(r) == IF r.kind = "table" THEN TableEntry ELSE 1
Amount(l) == request[l].delta * Scale(request[l])

(* How each entry point reports a refusal: memory_growing and              *)
(* table_growing trap when nothing had been allocated yet.                 *)
Refusal(r) == IF r.kind # "plain" /\ r.current = 0 THEN "trap" ELSE "no"

Ask(l) ==
    /\ at[l] = "idle"
    /\ \E r \in Requests : request' = [request EXCEPT ![l] = r]
    /\ answer' = [answer EXCEPT ![l] = "none"]
    /\ Goto(l, "called")
    /\ UNCHANGED <<remaining, least, consumed, seen, blocks, lowest, overflowed>>

(* A delta that does not fit u32 is refused before consume and without a   *)
(* trap; a product that overflows, before consume and with one.            *)
Check(l) ==
    /\ at[l] = "called"
    /\ \/ request[l].delta > U32Max /\ Return(l, "no")
       \/ request[l].delta <= U32Max /\ Amount(l) > U32Max /\ Return(l, Refusal(request[l]))
       \/ Amount(l) <= U32Max /\ Goto(l, "load") /\ UNCHANGED <<request, seen, answer>>
    /\ UNCHANGED <<remaining, least, consumed, blocks, lowest, overflowed>>

(* Mutant of Consider: `delta >= remaining`.                               *)
Consider_Strict(l) ==
    \/ Amount(l) >= remaining /\ Return(l, Refusal(request[l]))
    \/ /\ Amount(l) < remaining
       /\ Goto(l, "cas")
       /\ seen' = [seen EXCEPT ![l] = remaining]
       /\ UNCHANGED <<request, answer>>
(* The value the loop works with was just read: refuse, or try the CAS.    *)
Consider(l) ==
    \/ Amount(l) > remaining /\ Return(l, Refusal(request[l]))
    \/ /\ Amount(l) <= remaining
       /\ Goto(l, "cas")
       /\ seen' = [seen EXCEPT ![l] = remaining]
       /\ UNCHANGED <<request, answer>>

ConsumeLoad(l) ==
    /\ at[l] = "load"
    /\ Consider(l)
    /\ UNCHANGED <<remaining, least, consumed, blocks, lowest, overflowed>>

(* Mutant of ConsumeCas: a plain store of the difference.                  *)
ConsumeCas_Store(l) ==
    /\ at[l] = "cas"
    /\ remaining' = seen[l] - Amount(l)
    /\ lowest' = LowerOf(lowest, remaining')
    /\ Goto(l, "min")
    /\ UNCHANGED <<least, consumed, request, seen, blocks, answer, overflowed>>

(* compare_exchange: it succeeds on an equal value, even if that value was *)
(* left and come back to; on failure it yields the current one.            *)
ConsumeCas(l) ==
    /\ at[l] = "cas"
    /\ \/ /\ remaining = seen[l]
          /\ remaining' = seen[l] - Amount(l)
          /\ lowest' = LowerOf(lowest, remaining')
          /\ Goto(l, "min")
          /\ UNCHANGED <<request, seen, answer>>
       \/ remaining # seen[l] /\ Consider(l) /\ UNCHANGED <<remaining, lowest>>
    /\ UNCHANGED <<least, consumed, blocks, overflowed>>

(* Mutant of ConsumeMin: a store where the code takes the minimum.         *)
ConsumeMin_Store(l) ==
    /\ at[l] = "min"
    /\ least' = seen[l] - Amount(l)
    /\ Goto(l, "add")
    /\ UNCHANGED <<remaining, consumed, request, seen, blocks, answer, lowest, overflowed>>

ConsumeMin(l) ==
    /\ at[l] = "min"
    /\ least' = LowerOf(least, seen[l] - Amount(l))
    /\ Goto(l, "add")
    /\ UNCHANGED <<remaining, consumed, request, seen, blocks, answer, lowest, overflowed>>

ConsumeAdd(l) ==
    /\ at[l] = "add"
    /\ consumed' = [consumed EXCEPT ![l] = Wrap(@ + Amount(l))]
    /\ blocks' = IF request[l].kind = "plain"
                 THEN [blocks EXCEPT ![l] = Append(@, Amount(l))] ELSE blocks
    /\ Return(l, "yes")
    /\ UNCHANGED <<remaining, least, lowest, overflowed>>

(* release_no_consumed: the counter is raised first and checked after.     *)
GiveBack(delta) ==
    /\ remaining' = Wrap(remaining + delta)
    /\ overflowed' = (overflowed \/ remaining + delta > U32Max)

(* release of one block: the shared counter first, the own count after.    *)
ReleaseShared(l) ==
    /\ at[l] = "idle"
    /\ blocks[l] # <<>>
    /\ GiveBack(Head(blocks[l]))
    /\ Goto(l, "sub")
    /\ UNCHANGED <<least, consumed, request, seen, blocks, answer, lowest>>

ReleaseOwn(l) ==
    /\ at[l] = "sub"
    /\ consumed' = [consumed EXCEPT ![l] = Wrap(@ - Head(blocks[l]))]
    /\ blocks' = [blocks EXCEPT ![l] = Tail(@)]
    /\ Goto(l, "idle")
    /\ UNCHANGED <<remaining, least, request, seen, answer, lowest, overflowed>>

(* Drop for LimiterInner: what was consumed and not released goes back.    *)
DropLoad(l) ==
    /\ at[l] = "idle"
    /\ seen' = [seen EXCEPT ![l] = consumed[l]]
    /\ Goto(l, "drop")
    /\ UNCHANGED <<remaining, least, consumed, request, blocks, answer, lowest, overflowed>>

DropRelease(l) ==
    /\ at[l] = "drop"
    /\ GiveBack(seen[l])
    /\ Goto(l, "dead")
    /\ UNCHANGED <<least, consumed, request, seen, blocks, answer, lowest>>

AllDead == (\A l \in Limiters : at[l] = "dead") /\ UNCHANGED vars

Next ==
    \/ \E l \in Limiters :
        \/ Derive(l) \/ Ask(l) \/ Check(l) \/ ConsumeLoad(l) \/ ConsumeCas(l) \/ ConsumeMin(l)
        \/ ConsumeAdd(l) \/ ReleaseShared(l) \/ ReleaseOwn(l) \/ DropLoad(l) \/ DropRelease(l)
    \/ AllDead

Spec == Init /\ [][Next]_vars

-----------------------------------------------------------------------------
(* Properties.                                                             *)

TypeOK ==
    /\ remaining \in 0 .. U32Max /\ least \in 0 .. U32Max /\ lowest \in 0 .. U32Max
    /\ consumed \in [Limiters -> 0 .. U32Max]
    /\ at \in [Limiters -> {"unborn", "idle", "called", "load", "cas", "min", "add", "sub", "drop", "dead"}]
    /\ request \in [Limiters -> Requests \cup {NoRequest}]
    /\ seen \in [Limiters -> 0 .. U32Max]
    /\ blocks \in [Limiters -> Seq(Nat)]
    /\ answer \in [Limiters -> {"none", "yes", "no", "trap"}]
    /\ overflowed \in BOOLEAN

(* What limiter l has taken out of the shared counter: its own count, plus *)
(* a successful CAS not yet counted, less a release not yet discounted.    *)
Owns(l) ==
    CASE at[l] \in {"min", "add"} -> consumed[l] + Amount(l)
      [] at[l] = "sub" -> consumed[l] - Head(blocks[l])
      [] at[l] = "dead" -> 0
      [] OTHER -> consumed[l]

(* No unit of memory is ever lost or counted twice, whatever the order in  *)
(* which VMs consume, release and are dropped: the shared counter and what *)
(* the limiters own add up to the budget at every instant.                 *)
Holding == [l \in Limiters |-> Owns(l)]
Conserved == remaining + SumFunctionOnSet(Holding, Limiters) = U32Max

(* The assert in release_no_consumed never fails.                          *)
ReleaseNeverOverflows == ~overflowed

(* Memory is conserved however consume, release and drop interleave: every *)
(* counter stays a u32, they add up, and the assert holds.                 *)
MemoryConserved == TypeOK /\ Conserved /\ ReleaseNeverOverflows

(* get_least_remaining_memory is the true low-water mark whenever no       *)
(* consume is between its CAS and its fetch_min.                           *)
LowWaterIsExact ==
    /\ lowest <= least
    /\ (\A l \in Limiters : at[l] # "min") => least = lowest

(* A limiter behaves as the atomic budget: a request is granted or refused *)
(* at one instant between its call and its return, and refused only if the *)
(* budget could not cover it at that instant.                              *)
Asked == [l \in Limiters |-> IF at[l] \in {"called", "load", "cas"} THEN Amount(l) ELSE -1]
Answered == [l \in Limiters |->
    CASE at[l] \in {"min", "add"} -> "yes"
      [] answer[l] = "trap" -> "no"
      [] OTHER -> answer[l]]
Budget == INSTANCE MemBudget
            WITH Holders <- Limiters, Total <- U32Max,
                 held <- Holding, asked <- Asked, answer <- Answered
ImplementsBudget == Budget!Spec

=============================================================================
