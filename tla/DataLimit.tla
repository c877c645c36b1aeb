----------------------------- MODULE DataLimit -----------------------------
(***************************************************************************)
(* rt::fees::DataLimit: the fee buckets a transaction pays from.  Each     *)
(* category of effects names the buckets it is charged to; two categories, *)
(* or two entries of one category, may name the same bucket.  A charge is  *)
(* a vector of costs, one per entry, and is taken whole or not at all.     *)
(*                                                                         *)
(* All charges are made by the deterministic thread, so each call is one   *)
(* action.  What an expression of the fee config evaluates to is a choice  *)
(* among the cost vectors in Costs.                                        *)
(***************************************************************************)
EXTENDS Integers, SequencesExt

Categories == {"storage", "message_receipt", "nondet_output", "message_fee", "event"}
InitialOrder == <<"storage", "message_receipt", "nondet_output", "message_fee", "event">>

CONSTANTS
    Buckets,        \* bucket numbers the host provides
    BucketTotals,   \* values ExecutionData.bucket_totals may have
    BucketNos,      \* FeesBucketConfig.bucket_no of each category
    Initials,       \* subtract_on_start of each category
    Costs           \* cost vectors the delta expression of each category may give

CostVecs(cat) == [1 .. Len(BucketNos[cat]) -> Nat]

(* handle() refuses a config that names a bucket the host did not provide, *)
(* and build_bucket one without buckets.                                   *)
ASSUME FeesAssumption ==
    /\ BucketTotals \subseteq [Buckets -> Nat]
    /\ \A cat \in Categories :
        /\ BucketNos[cat] \in Seq(Buckets) /\ BucketNos[cat] # <<>>
        /\ Initials[cat] \in CostVecs(cat)
        /\ Costs[cat] \subseteq CostVecs(cat)

VARIABLES
    totals,      \* bucket_totals
    remaining,   \* DataLimit.buckets
    consumed,    \* total_consumed of each category's entries
    charging     \* consume_initial's position; past the end when it is done,
                 \* 0 when it failed

feeVars == <<totals, remaining, consumed, charging>>

FeesInit ==
    /\ totals \in BucketTotals
    /\ remaining = totals
    /\ consumed = [cat \in Categories |-> [i \in 1 .. Len(BucketNos[cat]) |-> 0]]
    /\ charging = 1

Entries(cat) == 1 .. Len(BucketNos[cat])

(* Sum of the costs of the entries in I.                                   *)
SumOver(costs, I) == SumFunctionOnSet(costs, I)
CostSum(costs) == SumOver(costs, DOMAIN costs)

(* What entries of category cat take from bucket b.                        *)
Deduction(cat, costs, b) == SumOver(costs, {i \in Entries(cat) : BucketNos[cat][i] = b})

-----------------------------------------------------------------------------
(* Mutant of RawFits: the entries are checked one by one.                  *)
RawFits_NoCumulative(cat, costs) ==
    \A i \in Entries(cat) : costs[i] <= remaining[BucketNos[cat][i]]

(* consume_bucket_raw's checks: each entry alone, and each together with   *)
(* the earlier entries of the same bucket.                                 *)
RawFits(cat, costs) ==
    \A i \in Entries(cat) :
        LET b == BucketNos[cat][i]
            earlier == {j \in 1 .. i - 1 : BucketNos[cat][j] = b}
        IN  /\ costs[i] <= remaining[b]
            /\ costs[i] + SumOver(costs, earlier) <= remaining[b]

Count(cat, costs) == [consumed EXCEPT ![cat] = [i \in Entries(cat) |-> @[i] + costs[i]]]

ConsumeBucketRaw(cat, costs) ==
    /\ RawFits(cat, costs)
    /\ remaining' = [b \in Buckets |-> remaining[b] - Deduction(cat, costs, b)]
    /\ consumed' = Count(cat, costs)

(* consume_message_fee: the fee and the receipt are charged together, from *)
(* a map of the total per bucket.                                          *)
MessageDeduction(fee, receipt, b) ==
    Deduction("message_fee", fee, b) + Deduction("message_receipt", receipt, b)

MessageFits(fee, receipt) ==
    \A b \in Buckets : MessageDeduction(fee, receipt, b) <= remaining[b]

ConsumeMessageFee(fee, receipt) ==
    /\ MessageFits(fee, receipt)
    /\ remaining' = [b \in Buckets |-> remaining[b] - MessageDeduction(fee, receipt, b)]
    /\ consumed' =
         [consumed EXCEPT
            !["message_fee"] = [i \in DOMAIN @ |-> @[i] + fee[i]],
            !["message_receipt"] = [i \in DOMAIN @ |-> @[i] + receipt[i]]]

(* consume_initial: category by category; the first that cannot be paid    *)
(* ends it, and what the earlier ones paid stays paid.                     *)
ChargingDone == charging = Len(InitialOrder) + 1

ConsumeInitial ==
    /\ charging \in 1 .. Len(InitialOrder)
    /\ LET cat == InitialOrder[charging]
       IN  \/ ConsumeBucketRaw(cat, Initials[cat]) /\ charging' = charging + 1
           \/ ~RawFits(cat, Initials[cat]) /\ charging' = 0 /\ UNCHANGED <<remaining, consumed>>
    /\ UNCHANGED totals

(* A charge that does not fit is refused and takes nothing.                *)
Refused == UNCHANGED <<remaining, consumed>>

(* consume_storage_pages, consume_nondet_output, consume_event.            *)
Consume ==
    /\ ChargingDone
    /\ \E cat \in {"storage", "nondet_output", "event"} :
        \E costs \in Costs[cat] :
            ConsumeBucketRaw(cat, costs) \/ (~RawFits(cat, costs) /\ Refused)
    /\ UNCHANGED <<totals, charging>>

ConsumeMessage ==
    /\ ChargingDone
    /\ \E fee \in Costs["message_fee"], receipt \in Costs["message_receipt"] :
        ConsumeMessageFee(fee, receipt) \/ (~MessageFits(fee, receipt) /\ Refused)
    /\ UNCHANGED <<totals, charging>>

(* handle() reports the failure and the process ends.                      *)
NotStarted == charging = 0 /\ UNCHANGED feeVars

FeesNext == ConsumeInitial \/ Consume \/ ConsumeMessage \/ NotStarted

(* What the VMs may do to the buckets, whatever they run: take whole       *)
(* charges, and never give one back (a failed sandbox, deployment or       *)
(* message is paid for all the same).                                      *)
FeesSpec == FeesInit /\ [][FeesNext]_feeVars

-----------------------------------------------------------------------------
(* Properties.                                                             *)

(* Type invariant: in particular no bucket is ever overdrawn (the code     *)
(* subtracts U256s and would panic).                                       *)
FeesTypeOK ==
    /\ totals \in BucketTotals
    /\ remaining \in [Buckets -> Nat]
    /\ \A cat \in Categories : consumed[cat] \in CostVecs(cat)
    /\ charging \in 0 .. Len(InitialOrder) + 1

(* What is reported as consumed, entry by entry of all the categories that *)
(* name a bucket, is exactly what is missing from that bucket, also after  *)
(* a consume_initial that failed half way.                                 *)
ConsumedFrom(b) == [cat \in Categories |-> Deduction(cat, consumed[cat], b)]
AccountsBalance ==
    \A b \in Buckets : remaining[b] + SumFunctionOnSet(ConsumedFrom(b), Categories) = totals[b]

(* A charge is refused only when some bucket could not bear what its       *)
(* entries take from it in all.                                            *)
RefusedOnlyIfShort ==
    /\ \A cat \in Categories : \A costs \in Costs[cat] \cup {Initials[cat]} :
          RawFits(cat, costs) <=> \A b \in Buckets : Deduction(cat, costs, b) <= remaining[b]
    /\ \A fee \in Costs["message_fee"], receipt \in Costs["message_receipt"] :
          MessageFits(fee, receipt) =>
             RawFits("message_fee", fee) /\ RawFits("message_receipt", receipt)

=============================================================================
