-------------------------- MODULE VmEffectsProofs --------------------------
(***************************************************************************)
(* Proofs about DataLimit and VmEffects: for every fee configuration,      *)
(* every cost, every allocation of budgets, every depth of nesting.        *)
(***************************************************************************)
EXTENDS VmEffects, SumTheorems

-----------------------------------------------------------------------------
(* Sums of costs.                                                          *)

InBucket(cat, b) == {i \in Entries(cat) : BucketNos[cat][i] = b}

LEMMA EntriesFinite ==
    \A cat \in Categories :
        /\ Len(BucketNos[cat]) \in Nat
        /\ \A i \in Entries(cat) : BucketNos[cat][i] \in Buckets
        /\ \A I \in SUBSET Entries(cat) : IsFiniteSet(I)
<1> TAKE cat \in Categories
<1>1. BucketNos[cat] \in Seq(Buckets)
  BY FeesAssumption
<1>2. Len(BucketNos[cat]) \in Nat /\ \A i \in 1 .. Len(BucketNos[cat]) : BucketNos[cat][i] \in Buckets
  BY <1>1
<1>3. IsFiniteSet(Entries(cat))
  BY <1>2, FS_Interval DEF Entries
<1> QED BY <1>2, <1>3, FS_Subset DEF Entries

LEMMA CostsAreNat ==
    ASSUME NEW cat \in Categories, NEW costs \in CostVecs(cat), NEW I \in SUBSET Entries(cat)
    PROVE  SumOver(costs, I) \in Nat
<1>1. IsFiniteSet(I) /\ \A i \in I : costs[i] \in Nat
  BY EntriesFinite DEF CostVecs, Entries
<1> QED BY <1>1, SumNat DEF SumOver

LEMMA DeductionType ==
    ASSUME NEW cat \in Categories, NEW costs \in CostVecs(cat), NEW b
    PROVE  Deduction(cat, costs, b) \in Nat
<1>1. InBucket(cat, b) \in SUBSET Entries(cat)
  BY DEF InBucket
<1> QED BY <1>1, CostsAreNat DEF Deduction, InBucket

(* Costs are added entry by entry.                                         *)
LEMMA CostsAdd ==
    ASSUME NEW cat \in Categories, NEW c1 \in CostVecs(cat), NEW c2 \in CostVecs(cat),
           NEW I \in SUBSET Entries(cat)
    PROVE  /\ SumOver([i \in Entries(cat) |-> c1[i] + c2[i]], I) = SumOver(c1, I) + SumOver(c2, I)
           /\ [i \in Entries(cat) |-> c1[i] + c2[i]] \in CostVecs(cat)
<1>1. PICK c3 : c3 = [i \in Entries(cat) |-> c1[i] + c2[i]]
  OBVIOUS
<1>2. IsFiniteSet(I) /\ \A i \in I : c1[i] \in Int /\ c2[i] \in Int /\ c3[i] = c1[i] + c2[i]
  BY <1>1, EntriesFinite DEF CostVecs, Entries
<1>3. SumFunctionOnSet(c3, I) = SumFunctionOnSet(c1, I) + SumFunctionOnSet(c2, I)
  BY ONLY <1>2, SumPlus
<1>4. c3 \in CostVecs(cat)
  BY <1>1 DEF CostVecs, Entries
<1> QED BY <1>1, <1>3, <1>4 DEF SumOver

LEMMA DeductionAdds ==
    ASSUME NEW cat \in Categories, NEW c1 \in CostVecs(cat), NEW c2 \in CostVecs(cat), NEW b
    PROVE  Deduction(cat, [i \in Entries(cat) |-> c1[i] + c2[i]], b)
             = Deduction(cat, c1, b) + Deduction(cat, c2, b)
<1>1. InBucket(cat, b) \in SUBSET Entries(cat)
  BY DEF InBucket
<1> QED BY <1>1, CostsAdd DEF Deduction, InBucket

LEMMA CostSumAdds ==
    ASSUME NEW cat \in Categories, NEW c1 \in CostVecs(cat), NEW c2 \in CostVecs(cat)
    PROVE  /\ CostSum([i \in Entries(cat) |-> c1[i] + c2[i]]) = CostSum(c1) + CostSum(c2)
           /\ CostSum(c1) \in Nat
<1>1. DOMAIN c1 = Entries(cat) /\ DOMAIN c2 = Entries(cat)
      /\ DOMAIN [i \in Entries(cat) |-> c1[i] + c2[i]] = Entries(cat)
  BY DEF CostVecs, Entries
<1>2. Entries(cat) \in SUBSET Entries(cat)
  OBVIOUS
<1> QED BY <1>1, <1>2, CostsAdd, CostsAreNat DEF CostSum

(* The last entry of a category that names a bucket.                       *)
LEMMA LargestOf ==
    ASSUME NEW n \in Nat, NEW I \in SUBSET (1 .. n), I # {}
    PROVE  \E i \in I : \A j \in I : j <= i
<1> DEFINE T == {t \in Nat : \E i \in I : t = n - i}
<1>0. \A i \in I : n - i \in T
  OBVIOUS
<1>1. T \subseteq Nat /\ T # {}
  BY <1>0
<1> HIDE DEF T
<1>2. PICK t \in T : \A u \in T : t <= u
  BY <1>1, LeastNat
<1>3. PICK i \in I : t = n - i
  BY DEF T
<1>4. \A j \in I : n - i <= n - j
  BY <1>0, <1>2, <1>3
<1> QED BY <1>4

(* consume_bucket_raw's checks, entry by entry and together with the       *)
(* earlier entries, ask exactly that each bucket bears what it is asked.   *)
LEMMA FitsIffBucketsBear ==
    ASSUME remaining \in [Buckets -> Nat], NEW cat \in Categories, NEW costs \in CostVecs(cat)
    PROVE  RawFits(cat, costs) <=> \A b \in Buckets : Deduction(cat, costs, b) <= remaining[b]
<1> DEFINE B(i) == BucketNos[cat][i]
           Earlier(i) == {j \in 1 .. i - 1 : BucketNos[cat][j] = B(i)}
<1>1. /\ Len(BucketNos[cat]) \in Nat /\ \A i \in Entries(cat) : B(i) \in Buckets
      /\ \A I \in SUBSET Entries(cat) : IsFiniteSet(I)
  BY EntriesFinite
<1>2. /\ \A i \in Entries(cat) : costs[i] \in Nat /\ i \in Nat
      /\ \A b \in Buckets : remaining[b] \in Nat
  BY DEF CostVecs, Entries
<1>3. \A i \in Entries(cat) :
        /\ Earlier(i) \in SUBSET Entries(cat) /\ i \notin Earlier(i)
        /\ Earlier(i) \cup {i} \subseteq InBucket(cat, B(i))
        /\ Earlier(i) \cup {i} \in SUBSET Entries(cat)
  BY <1>1, <1>2 DEF Entries, InBucket
<1>4. ASSUME NEW i \in Entries(cat)
      PROVE  /\ SumOver(costs, Earlier(i) \cup {i}) = costs[i] + SumOver(costs, Earlier(i))
             /\ SumOver(costs, Earlier(i)) \in Nat
  <2>1. PICK S, T : S = Earlier(i) \cup {i} /\ T = Earlier(i)
    OBVIOUS
  <2>2. S \ {i} = T /\ i \in S /\ S \in SUBSET Entries(cat) /\ T \in SUBSET Entries(cat)
    BY <1>3, <2>1
  <2>3. IsFiniteSet(S) /\ \A x \in S : costs[x] \in Int
    BY <1>1, <1>2, <2>2
  <2>4. SumFunctionOnSet(costs, S) = costs[i] + SumFunctionOnSet(costs, S \ {i})
    BY ONLY <2>2, <2>3, SumSplit
  <2>5. SumOver(costs, T) \in Nat
    BY <2>2, CostsAreNat
  <2> QED BY <2>1, <2>2, <2>4, <2>5 DEF SumOver
<1>5. ASSUME RawFits(cat, costs), NEW b \in Buckets
      PROVE  Deduction(cat, costs, b) <= remaining[b]
  <2>1. InBucket(cat, b) \in SUBSET (1 .. Len(BucketNos[cat]))
    BY DEF InBucket, Entries
  <2>2. Deduction(cat, costs, b) = SumOver(costs, InBucket(cat, b))
    BY DEF Deduction, InBucket
  <2>3. CASE InBucket(cat, b) = {}
    <3>1. SumFunctionOnSet(costs, {}) = 0
      BY SumEmpty
    <3> QED BY <1>2, <2>2, <2>3, <3>1 DEF SumOver
  <2>4. CASE InBucket(cat, b) # {}
    <3>1. PICK i \in InBucket(cat, b) : \A j \in InBucket(cat, b) : j <= i
      BY <1>1, <2>1, <2>4, LargestOf
    <3>2. i \in Entries(cat) /\ B(i) = b
      BY DEF InBucket
    <3>3. InBucket(cat, b) = Earlier(i) \cup {i}
      BY <1>1, <1>2, <3>1, <3>2 DEF InBucket, Entries
    <3>4. costs[i] + SumOver(costs, Earlier(i)) <= remaining[B(i)]
      BY <1>5, <3>2 DEF RawFits
    <3> QED BY <1>4, <2>2, <3>2, <3>3, <3>4
  <2> QED BY <2>3, <2>4
<1>6. ASSUME \A b \in Buckets : Deduction(cat, costs, b) <= remaining[b], NEW i \in Entries(cat)
      PROVE  /\ costs[i] <= remaining[B(i)]
             /\ costs[i] + SumOver(costs, Earlier(i)) <= remaining[B(i)]
  <2>1. PICK S, T : S = InBucket(cat, B(i)) /\ T = Earlier(i) \cup {i}
    OBVIOUS
  <2>2. S \in SUBSET Entries(cat) /\ T \in SUBSET S
    BY <1>3, <2>1 DEF InBucket
  <2>3. IsFiniteSet(S) /\ \A x \in S : costs[x] \in Nat
    BY <1>1, <1>2, <2>2
  <2>4. SumFunctionOnSet(costs, T) <= SumFunctionOnSet(costs, S)
    BY ONLY <2>2, <2>3, SumSubset
  <2>5. SumOver(costs, T) <= Deduction(cat, costs, B(i)) /\ Deduction(cat, costs, B(i)) \in Nat
    BY <2>1, <2>4, DeductionType DEF SumOver, Deduction, InBucket
  <2>6. Deduction(cat, costs, B(i)) <= remaining[B(i)] /\ remaining[B(i)] \in Nat
    BY <1>1, <1>2, <1>6
  <2>7. SumOver(costs, T) = costs[i] + SumOver(costs, Earlier(i)) /\ SumOver(costs, Earlier(i)) \in Nat
    BY <1>4, <2>1
  <2>8. PICK s \in Nat, c \in Nat, e \in Nat, d \in Nat, r \in Nat :
          /\ s = SumOver(costs, T) /\ c = costs[i] /\ e = SumOver(costs, Earlier(i))
          /\ d = Deduction(cat, costs, B(i)) /\ r = remaining[B(i)]
    <3>1. SumOver(costs, T) \in Nat
      BY <2>2, CostsAreNat
    <3>2. costs[i] \in Nat
      BY <1>2
    <3> QED BY <2>5, <2>6, <2>7, <3>1, <3>2, Zenon
  <2>9. s <= d /\ d <= r /\ s = c + e
    BY ONLY <2>5, <2>6, <2>7, <2>8
  <2>10. c <= r /\ c + e <= r
    BY ONLY <2>9
  <2> QED BY ONLY <2>8, <2>10
<1>7. ASSUME \A b \in Buckets : Deduction(cat, costs, b) <= remaining[b]
      PROVE  RawFits(cat, costs)
  BY <1>6, <1>7 DEF RawFits
<1> QED BY <1>5, <1>7

-----------------------------------------------------------------------------
(* The buckets.                                                            *)

(* consumed is a function of the categories: what FeesTypeOK leaves open.  *)
IsByCategory == consumed = [cat \in Categories |-> consumed[cat]]
FeesInv == FeesTypeOK /\ IsByCategory /\ AccountsBalance

LEMMA CategoriesFinite == IsFiniteSet(Categories)
<1>1. IsFiniteSet({"storage"})
  BY FS_Singleton
<1>2. IsFiniteSet({"storage"} \cup {"message_receipt"})
  BY <1>1, FS_AddElement
<1>3. IsFiniteSet({"storage"} \cup {"message_receipt"} \cup {"nondet_output"})
  BY <1>2, FS_AddElement
<1>4. IsFiniteSet({"storage"} \cup {"message_receipt"} \cup {"nondet_output"} \cup {"message_fee"})
  BY <1>3, FS_AddElement
<1>5. IsFiniteSet({"storage"} \cup {"message_receipt"} \cup {"nondet_output"} \cup {"message_fee"}
                    \cup {"event"})
  BY <1>4, FS_AddElement
<1>6. Categories = {"storage"} \cup {"message_receipt"} \cup {"nondet_output"} \cup {"message_fee"}
                     \cup {"event"}
  BY DEF Categories
<1> QED BY <1>5, <1>6

LEMMA ConsumedType ==
    ASSUME FeesInv
    PROVE  /\ totals \in [Buckets -> Nat] /\ remaining \in [Buckets -> Nat]
           /\ \A cat \in Categories : consumed[cat] \in CostVecs(cat)
           /\ \A b \in Buckets : /\ \A cat \in Categories : ConsumedFrom(b)[cat] \in Nat
                                 /\ SumFunctionOnSet(ConsumedFrom(b), Categories) \in Nat
<1>1. /\ totals \in [Buckets -> Nat] /\ remaining \in [Buckets -> Nat]
      /\ \A cat \in Categories : consumed[cat] \in CostVecs(cat)
  BY FeesAssumption DEF FeesInv, FeesTypeOK
<1>2. ASSUME NEW b \in Buckets PROVE \A cat \in Categories : ConsumedFrom(b)[cat] \in Nat
  BY <1>1, DeductionType DEF ConsumedFrom
<1>3. ASSUME NEW b \in Buckets PROVE SumFunctionOnSet(ConsumedFrom(b), Categories) \in Nat
  <2>1. PICK f : f = ConsumedFrom(b)
    OBVIOUS
  <2>2. \A cat \in Categories : f[cat] \in Nat
    BY <1>2, <2>1
  <2>3. SumFunctionOnSet(f, Categories) \in Nat
    BY ONLY <2>2, CategoriesFinite, SumNat
  <2> QED BY <2>1, <2>3
<1> QED BY <1>1, <1>2, <1>3

(* A charge d, taken from a bucket for category cat alone.                 *)
Moves(f, e, cat, d) ==
    /\ \A c \in Categories : f[c] \in Nat
    /\ \A c \in Categories \ {cat} : e[c] = f[c]
    /\ e[cat] = f[cat] + d

LEMMA BucketBalances ==
    \A f, e : \A cat \in Categories, r, r2, d, t \in Int :
        /\ Moves(f, e, cat, d) /\ r2 = r - d
        /\ r + SumFunctionOnSet(f, Categories) = t
        => r2 + SumFunctionOnSet(e, Categories) = t
<1> TAKE f, e
<1> TAKE cat \in Categories, r, r2, d, t \in Int
<1> HAVE /\ Moves(f, e, cat, d) /\ r2 = r - d
         /\ r + SumFunctionOnSet(f, Categories) = t
<1>0. /\ \A c \in Categories : f[c] \in Nat
      /\ \A c \in Categories \ {cat} : e[c] = f[c]
      /\ e[cat] = f[cat] + d
  BY DEF Moves
<1>1. \A c \in Categories : f[c] \in Int /\ e[c] \in Int
  BY <1>0
<1>2. /\ SumFunctionOnSet(e, Categories) = SumFunctionOnSet(f, Categories) + e[cat] - f[cat]
      /\ SumFunctionOnSet(f, Categories) \in Int
  <2>1. \A c \in Categories \ {cat} : e[c] = f[c]
    BY <1>0
  <2>2. PICK S : S = Categories
    OBVIOUS
  <2>3. /\ IsFiniteSet(S) /\ cat \in S /\ \A c \in S : f[c] \in Int /\ e[c] \in Int
        /\ \A c \in S \ {cat} : e[c] = f[c]
    BY <1>1, <2>1, <2>2, CategoriesFinite
  <2>4. SumFunctionOnSet(e, S) = SumFunctionOnSet(f, S) + e[cat] - f[cat]
    BY ONLY <2>3, SumUpdate
  <2>5. SumFunctionOnSet(f, S) \in Int
    BY ONLY <2>3, SumType
  <2> QED BY ONLY <2>2, <2>4, <2>5
<1>3. PICK s \in Int, x \in Int, y \in Int, s2 \in Int :
        /\ s = SumFunctionOnSet(f, Categories) /\ x = f[cat] /\ y = e[cat]
        /\ s2 = SumFunctionOnSet(e, Categories)
  <2>1. SumFunctionOnSet(e, Categories) \in Int
    BY <1>1, CategoriesFinite, SumType
  <2> QED BY <1>1, <1>2, <2>1, Zenon
<1>4. s2 = s + y - x /\ y = x + d /\ r2 = r - d /\ r + s = t
  BY <1>0, <1>2, <1>3
<1>5. r2 + s2 = t
  BY ONLY <1>4
<1> QED BY <1>3, <1>5

LEMMA RawConsumes ==
    ASSUME FeesInv, NEW cat \in Categories, NEW costs \in CostVecs(cat),
           ConsumeBucketRaw(cat, costs)
    PROVE  /\ consumed' = [c \in Categories |-> consumed'[c]]
           /\ consumed'[cat] = [i \in Entries(cat) |-> consumed[cat][i] + costs[i]]
           /\ \A c \in Categories \ {cat} : consumed'[c] = consumed[c]
<1>1. consumed = [c \in Categories |-> consumed[c]]
  BY DEF FeesInv, IsByCategory
<1> QED BY <1>1 DEF ConsumeBucketRaw, Count

LEMMA RawKeeps ==
    ASSUME FeesInv, NEW cat \in Categories, NEW costs \in CostVecs(cat),
           ConsumeBucketRaw(cat, costs), totals' = totals,
           charging' \in 0 .. Len(InitialOrder) + 1
    PROVE  FeesInv'
<1>1. /\ totals \in [Buckets -> Nat] /\ remaining \in [Buckets -> Nat]
      /\ \A c \in Categories : consumed[c] \in CostVecs(c)
      /\ \A b \in Buckets : /\ \A c \in Categories : ConsumedFrom(b)[c] \in Nat
                            /\ SumFunctionOnSet(ConsumedFrom(b), Categories) \in Nat
  BY ConsumedType
<1>2. /\ IsByCategory'
      /\ consumed'[cat] = [i \in Entries(cat) |-> consumed[cat][i] + costs[i]]
      /\ \A c \in Categories \ {cat} : consumed'[c] = consumed[c]
  BY RawConsumes DEF IsByCategory
<1>3. \A b \in Buckets : /\ Deduction(cat, costs, b) \in Nat
                         /\ Deduction(cat, costs, b) <= remaining[b]
                         /\ remaining'[b] = remaining[b] - Deduction(cat, costs, b)
  BY <1>1, FitsIffBucketsBear, DeductionType DEF ConsumeBucketRaw
<1>4. FeesTypeOK'
  <2>1. remaining' \in [Buckets -> Nat]
    <3>1. \A b \in Buckets : remaining[b] - Deduction(cat, costs, b) \in Nat
      BY <1>1, <1>3
    <3> QED BY <3>1 DEF ConsumeBucketRaw
  <2>2. \A c \in Categories : consumed'[c] \in CostVecs(c)
    <3>1. [i \in Entries(cat) |-> consumed[cat][i] + costs[i]] \in CostVecs(cat)
      BY <1>1, CostsAdd
    <3> QED BY <1>1, <1>2, <3>1
  <2> QED BY <2>1, <2>2 DEF FeesInv, FeesTypeOK
<1>5. ASSUME NEW b \in Buckets
      PROVE  remaining'[b] + SumFunctionOnSet(ConsumedFrom(b)', Categories) = totals'[b]
  <2>0. PICK d \in Int : d = Deduction(cat, costs, b)
    BY <1>3
  <2>1. PICK f, e : f = ConsumedFrom(b) /\ e = ConsumedFrom(b)' /\ d = Deduction(cat, costs, b)
    BY <2>0, Zenon
  <2>2. e[cat] = f[cat] + d
    <3>1. ConsumedFrom(b)'[cat] = Deduction(cat, consumed'[cat], b)
      BY DEF ConsumedFrom, Deduction
    <3>2. Deduction(cat, [i \in Entries(cat) |-> consumed[cat][i] + costs[i]], b)
            = Deduction(cat, consumed[cat], b) + Deduction(cat, costs, b)
      BY <1>1, DeductionAdds
    <3> QED BY <1>2, <2>1, <3>1, <3>2 DEF ConsumedFrom
  <2>3. \A c \in Categories \ {cat} : e[c] = f[c]
    BY <1>2, <2>1 DEF ConsumedFrom, Deduction
  <2>4. PICK r \in Int, r2 \in Int, t \in Int : r = remaining[b] /\ r2 = remaining'[b] /\ t = totals[b]
    <3>1. remaining[b] \in Int /\ remaining'[b] \in Int /\ totals[b] \in Int
      BY <1>1, <1>3
    <3> QED BY <3>1, Zenon
  <2>5. r2 = r - d /\ r + SumFunctionOnSet(f, Categories) = t
    BY <1>3, <2>1, <2>4 DEF FeesInv, AccountsBalance
  <2>6. \A c \in Categories : f[c] \in Nat
    BY <1>1, <2>1
  <2>7. r2 + SumFunctionOnSet(e, Categories) = t
    <3>1. Moves(f, e, cat, d)
      BY <2>2, <2>3, <2>6 DEF Moves
    <3> QED BY ONLY <2>5, <3>1, BucketBalances, cat \in Categories
  <2> QED BY <2>1, <2>4, <2>7
<1>6. AccountsBalance'
  BY <1>5 DEF AccountsBalance
<1> QED BY <1>2, <1>4, <1>6 DEF FeesInv

(* Fee and receipt of a message, charged together.                         *)
LEMMA MessageConsumes ==
    ASSUME FeesInv, NEW fee \in CostVecs("message_fee"), NEW receipt \in CostVecs("message_receipt"),
           ConsumeMessageFee(fee, receipt)
    PROVE  /\ consumed' = [c \in Categories |-> consumed'[c]]
           /\ consumed'["message_fee"]
                = [i \in Entries("message_fee") |-> consumed["message_fee"][i] + fee[i]]
           /\ consumed'["message_receipt"]
                = [i \in Entries("message_receipt") |-> consumed["message_receipt"][i] + receipt[i]]
           /\ \A c \in Categories \ {"message_fee", "message_receipt"} : consumed'[c] = consumed[c]
<1>1. consumed = [c \in Categories |-> consumed[c]]
  BY DEF FeesInv, IsByCategory
<1>2. \A c \in {"message_fee", "message_receipt"} : c \in Categories /\ DOMAIN consumed[c] = Entries(c)
  <2>1. \A c \in {"message_fee", "message_receipt"} : c \in Categories
    BY DEF Categories
  <2> QED BY <2>1 DEF FeesInv, FeesTypeOK, CostVecs, Entries
<1> QED BY <1>1, <1>2 DEF ConsumeMessageFee

LEMMA MessageKeeps ==
    ASSUME FeesInv, NEW fee \in CostVecs("message_fee"), NEW receipt \in CostVecs("message_receipt"),
           ConsumeMessageFee(fee, receipt), totals' = totals,
           charging' \in 0 .. Len(InitialOrder) + 1
    PROVE  FeesInv'
<1> DEFINE F == "message_fee"
           R == "message_receipt"
<1>0. F \in Categories /\ R \in Categories /\ F # R
  BY DEF Categories
<1>1. /\ totals \in [Buckets -> Nat] /\ remaining \in [Buckets -> Nat]
      /\ \A c \in Categories : consumed[c] \in CostVecs(c)
      /\ \A b \in Buckets : /\ \A c \in Categories : ConsumedFrom(b)[c] \in Nat
                            /\ SumFunctionOnSet(ConsumedFrom(b), Categories) \in Nat
  BY ConsumedType
<1>2. /\ IsByCategory'
      /\ consumed'[F] = [i \in Entries(F) |-> consumed[F][i] + fee[i]]
      /\ consumed'[R] = [i \in Entries(R) |-> consumed[R][i] + receipt[i]]
      /\ \A c \in Categories \ {F, R} : consumed'[c] = consumed[c]
  BY MessageConsumes DEF IsByCategory
<1>3. \A b \in Buckets : /\ Deduction(F, fee, b) \in Nat /\ Deduction(R, receipt, b) \in Nat
                         /\ Deduction(F, fee, b) + Deduction(R, receipt, b) <= remaining[b]
                         /\ remaining'[b] = remaining[b] - (Deduction(F, fee, b) + Deduction(R, receipt, b))
  BY <1>0, <1>1, DeductionType DEF ConsumeMessageFee, MessageFits, MessageDeduction
<1>4. FeesTypeOK'
  <2>1. remaining' \in [Buckets -> Nat]
    <3>1. \A b \in Buckets : remaining[b] - MessageDeduction(fee, receipt, b) \in Nat
      BY <1>1, <1>3 DEF MessageDeduction
    <3> QED BY <3>1 DEF ConsumeMessageFee
  <2>2. \A c \in Categories : consumed'[c] \in CostVecs(c)
    <3>1. [i \in Entries(F) |-> consumed[F][i] + fee[i]] \in CostVecs(F)
      BY <1>0, <1>1, CostsAdd
    <3>2. [i \in Entries(R) |-> consumed[R][i] + receipt[i]] \in CostVecs(R)
      BY <1>0, <1>1, CostsAdd
    <3> QED BY <1>1, <1>2, <3>1, <3>2
  <2> QED BY <2>1, <2>2 DEF FeesInv, FeesTypeOK
<1>5. ASSUME NEW b \in Buckets
      PROVE  remaining'[b] + SumFunctionOnSet(ConsumedFrom(b)', Categories) = totals'[b]
  <2>0. PICK d \in Int, x \in Int : d = Deduction(F, fee, b) /\ x = Deduction(R, receipt, b)
    BY <1>3
  <2>1. PICK f, e : /\ f = ConsumedFrom(b) /\ e = ConsumedFrom(b)'
                    /\ d = Deduction(F, fee, b) /\ x = Deduction(R, receipt, b)
    BY <2>0, Zenon
  <2>2. e[F] = f[F] + d /\ e[R] = f[R] + x
    <3>1. /\ ConsumedFrom(b)'[F] = Deduction(F, consumed'[F], b)
          /\ ConsumedFrom(b)'[R] = Deduction(R, consumed'[R], b)
      BY <1>0 DEF ConsumedFrom, Deduction
    <3>2. Deduction(F, [i \in Entries(F) |-> consumed[F][i] + fee[i]], b)
            = Deduction(F, consumed[F], b) + Deduction(F, fee, b)
      BY <1>0, <1>1, DeductionAdds
    <3>3. Deduction(R, [i \in Entries(R) |-> consumed[R][i] + receipt[i]], b)
            = Deduction(R, consumed[R], b) + Deduction(R, receipt, b)
      BY <1>0, <1>1, DeductionAdds
    <3> QED BY <1>0, <1>2, <2>1, <3>1, <3>2, <3>3 DEF ConsumedFrom
  <2>3. \A c \in Categories \ {F, R} : e[c] = f[c]
    BY <1>2, <2>1 DEF ConsumedFrom, Deduction
  <2>4. PICK r \in Int, r2 \in Int, t \in Int : r = remaining[b] /\ r2 = remaining'[b] /\ t = totals[b]
    <3>1. remaining[b] \in Int /\ remaining'[b] \in Int /\ totals[b] \in Int
      BY <1>1, <1>3
    <3> QED BY <3>1, Zenon
  <2>5. r2 = r - (d + x) /\ r + SumFunctionOnSet(f, Categories) = t
    BY <1>3, <2>1, <2>4 DEF FeesInv, AccountsBalance
  <2>6. \A c \in Categories : f[c] \in Nat
    BY <1>1, <2>1
  (* The fee first, the receipt after it.                                  *)
  <2>q. PICK q \in Int : q = r - d
    OBVIOUS
  <2>7. PICK g : g = [c \in Categories |-> IF c = F THEN f[c] + d ELSE f[c]] /\ q = r - d
    BY <2>q
  <2>8. /\ g[F] = f[F] + d /\ \A c \in Categories \ {F} : g[c] = f[c]
        /\ \A c \in Categories : g[c] \in Nat
    <3>1. d \in Nat
      BY <1>3, <2>1
    <3> QED BY <1>0, <2>6, <2>7, <3>1
  <2>9. q + SumFunctionOnSet(g, Categories) = t
    <3>1. q = r - d
      BY <2>7
    <3>2. Moves(f, g, F, d)
      BY <2>6, <2>8 DEF Moves
    <3> HIDE DEF F
    <3> QED BY ONLY <1>0, <2>5, <3>1, <3>2, BucketBalances
  <2>10. e[R] = g[R] + x /\ \A c \in Categories \ {R} : e[c] = g[c]
    BY <1>0, <2>2, <2>3, <2>8
  <2>11. r2 = q - x
    BY ONLY <2>5, <2>7
  <2>12. r2 + SumFunctionOnSet(e, Categories) = t
    <3>1. Moves(g, e, R, x)
      BY <2>8, <2>10 DEF Moves
    <3> HIDE DEF R
    <3> QED BY ONLY <1>0, <2>9, <2>11, <3>1, BucketBalances
  <2> QED BY <2>1, <2>4, <2>12
<1>6. AccountsBalance'
  BY <1>5 DEF AccountsBalance
<1> QED BY <1>2, <1>4, <1>6 DEF FeesInv

-----------------------------------------------------------------------------
(* What a log of emissions comes to.                                       *)

EmissionSet ==
    [kind : {"message", "event"}, node : Nat, value : Nat, fee : Nat, receipt : Nat]

LEMMA AmountsAppend ==
    \A n \in Nat :
        \A s, t :
            /\ s \in [1 .. n -> Int] /\ t \in [1 .. n + 1 -> Int]
            /\ \A i \in 1 .. n : t[i] = s[i]
            => /\ SumFunctionOnSet(t, 1 .. n + 1) = SumFunctionOnSet(s, 1 .. n) + t[n + 1]
               /\ SumFunctionOnSet(s, 1 .. n) \in Int
<1> TAKE n \in Nat
<1> TAKE s, t
<1> HAVE /\ s \in [1 .. n -> Int] /\ t \in [1 .. n + 1 -> Int]
         /\ \A i \in 1 .. n : t[i] = s[i]
<1>1. \A i \in 1 .. n + 1 : t[i] \in Int
  OBVIOUS
<1>2. /\ SumFunctionOnSet(t, 1 .. n + 1) = SumFunctionOnSet(t, 1 .. n) + t[n + 1]
      /\ SumFunctionOnSet(t, 1 .. n) \in Int
  BY ONLY <1>1, SumInterval, n \in Nat
<1>3. PICK S : S = 1 .. n
  OBVIOUS
<1>4. IsFiniteSet(S)
  BY <1>3, FS_Interval
<1>5. \A i \in S : s[i] \in Int /\ t[i] = s[i]
  BY <1>3
<1>6. SumFunctionOnSet(t, S) = SumFunctionOnSet(s, S)
  BY ONLY <1>4, <1>5, SumSame
<1> QED BY ONLY <1>2, <1>3, <1>6

LEMMA LogAppend ==
    ASSUME NEW log \in Seq(EmissionSet), NEW e \in EmissionSet, NEW k
    PROVE  /\ EventFees(Append(log, e)) = EventFees(log) + (IF e.kind = "event" THEN e.fee ELSE 0)
           /\ EventFees(log) \in Int
           /\ MessageFees(Append(log, e)) = MessageFees(log) + (IF e.kind = "message" THEN e.fee ELSE 0)
           /\ MessageFees(log) \in Int
           /\ MessageReceipts(Append(log, e))
                = MessageReceipts(log) + (IF e.kind = "message" THEN e.receipt ELSE 0)
           /\ MessageReceipts(log) \in Int
           /\ NodeFees(Append(log, e), k) = NodeFees(log, k) + (IF e.node = k THEN e.fee ELSE 0)
           /\ NodeFees(log, k) \in Int
           /\ MessageValues(Append(log, e)) = MessageValues(log) + e.value
           /\ MessageValues(log) \in Int
<1>0. PICK n \in Nat : n = Len(log)
  OBVIOUS
<1>1. PICK l2 : n = Len(log) /\ l2 = Append(log, e)
  BY <1>0
<1>2. /\ DOMAIN log = 1 .. n /\ DOMAIN l2 = 1 .. n + 1 /\ l2[n + 1] = e
      /\ \A i \in 1 .. n : l2[i] = log[i] /\ log[i] \in EmissionSet
  BY <1>1
<1>3. \A x \in EmissionSet : x.fee \in Int /\ x.receipt \in Int /\ x.value \in Int
  BY DEF EmissionSet
<1>4. /\ n + 1 \in 1 .. n + 1 /\ \A i \in 1 .. n : i \in 1 .. n + 1
      /\ \A i \in 1 .. n + 1 : l2[i] \in EmissionSet
  BY <1>2
<1>5. EventFees(l2) = EventFees(log) + (IF e.kind = "event" THEN e.fee ELSE 0) /\ EventFees(log) \in Int
  <2>1. PICK s, t : /\ s = [i \in 1 .. n |-> IF log[i].kind = "event" THEN log[i].fee ELSE 0]
                    /\ t = [i \in 1 .. n + 1 |-> IF l2[i].kind = "event" THEN l2[i].fee ELSE 0]
    OBVIOUS
  <2>2. /\ s \in [1 .. n -> Int] /\ t \in [1 .. n + 1 -> Int]
        /\ \A i \in 1 .. n : t[i] = s[i]
        /\ t[n + 1] = (IF e.kind = "event" THEN e.fee ELSE 0)
    <3>1. s \in [1 .. n -> Int]
      BY <1>2, <1>3, <2>1
    <3>2. t \in [1 .. n + 1 -> Int]
      BY <1>3, <1>4, <2>1
    <3>3. \A i \in 1 .. n : t[i] = s[i]
      BY <1>2, <1>4, <2>1
    <3>4. t[n + 1] = (IF e.kind = "event" THEN e.fee ELSE 0)
      BY <1>2, <1>4, <2>1
    <3> QED BY <3>1, <3>2, <3>3, <3>4
  <2>3. /\ SumFunctionOnSet(t, 1 .. n + 1) = SumFunctionOnSet(s, 1 .. n) + t[n + 1]
        /\ SumFunctionOnSet(s, 1 .. n) \in Int
    BY ONLY <2>2, AmountsAppend, n \in Nat
  <2>4. EventFees(l2) = SumFunctionOnSet(t, 1 .. n + 1) /\ EventFees(log) = SumFunctionOnSet(s, 1 .. n)
    BY <1>2, <2>1 DEF EventFees, SumFunction
  <2> QED BY <2>2, <2>3, <2>4
<1>6. MessageFees(l2) = MessageFees(log) + (IF e.kind = "message" THEN e.fee ELSE 0) /\ MessageFees(log) \in Int
  <2>1. PICK s, t : /\ s = [i \in 1 .. n |-> IF log[i].kind = "message" THEN log[i].fee ELSE 0]
                    /\ t = [i \in 1 .. n + 1 |-> IF l2[i].kind = "message" THEN l2[i].fee ELSE 0]
    OBVIOUS
  <2>2. /\ s \in [1 .. n -> Int] /\ t \in [1 .. n + 1 -> Int]
        /\ \A i \in 1 .. n : t[i] = s[i]
        /\ t[n + 1] = (IF e.kind = "message" THEN e.fee ELSE 0)
    <3>1. s \in [1 .. n -> Int]
      BY <1>2, <1>3, <2>1
    <3>2. t \in [1 .. n + 1 -> Int]
      BY <1>3, <1>4, <2>1
    <3>3. \A i \in 1 .. n : t[i] = s[i]
      BY <1>2, <1>4, <2>1
    <3>4. t[n + 1] = (IF e.kind = "message" THEN e.fee ELSE 0)
      BY <1>2, <1>4, <2>1
    <3> QED BY <3>1, <3>2, <3>3, <3>4
  <2>3. /\ SumFunctionOnSet(t, 1 .. n + 1) = SumFunctionOnSet(s, 1 .. n) + t[n + 1]
        /\ SumFunctionOnSet(s, 1 .. n) \in Int
    BY ONLY <2>2, AmountsAppend, n \in Nat
  <2>4. MessageFees(l2) = SumFunctionOnSet(t, 1 .. n + 1) /\ MessageFees(log) = SumFunctionOnSet(s, 1 .. n)
    BY <1>2, <2>1 DEF MessageFees, SumFunction
  <2> QED BY <2>2, <2>3, <2>4
<1>7. MessageReceipts(l2) = MessageReceipts(log) + (IF e.kind = "message" THEN e.receipt ELSE 0) /\ MessageReceipts(log) \in Int
  <2>1. PICK s, t : /\ s = [i \in 1 .. n |-> IF log[i].kind = "message" THEN log[i].receipt ELSE 0]
                    /\ t = [i \in 1 .. n + 1 |-> IF l2[i].kind = "message" THEN l2[i].receipt ELSE 0]
    OBVIOUS
  <2>2. /\ s \in [1 .. n -> Int] /\ t \in [1 .. n + 1 -> Int]
        /\ \A i \in 1 .. n : t[i] = s[i]
        /\ t[n + 1] = (IF e.kind = "message" THEN e.receipt ELSE 0)
    <3>1. s \in [1 .. n -> Int]
      BY <1>2, <1>3, <2>1
    <3>2. t \in [1 .. n + 1 -> Int]
      BY <1>3, <1>4, <2>1
    <3>3. \A i \in 1 .. n : t[i] = s[i]
      BY <1>2, <1>4, <2>1
    <3>4. t[n + 1] = (IF e.kind = "message" THEN e.receipt ELSE 0)
      BY <1>2, <1>4, <2>1
    <3> QED BY <3>1, <3>2, <3>3, <3>4
  <2>3. /\ SumFunctionOnSet(t, 1 .. n + 1) = SumFunctionOnSet(s, 1 .. n) + t[n + 1]
        /\ SumFunctionOnSet(s, 1 .. n) \in Int
    BY ONLY <2>2, AmountsAppend, n \in Nat
  <2>4. MessageReceipts(l2) = SumFunctionOnSet(t, 1 .. n + 1) /\ MessageReceipts(log) = SumFunctionOnSet(s, 1 .. n)
    BY <1>2, <2>1 DEF MessageReceipts, SumFunction
  <2> QED BY <2>2, <2>3, <2>4
<1>8. NodeFees(l2, k) = NodeFees(log, k) + (IF e.node = k THEN e.fee ELSE 0) /\ NodeFees(log, k) \in Int
  <2>1. PICK s, t : /\ s = [i \in 1 .. n |-> IF log[i].node = k THEN log[i].fee ELSE 0]
                    /\ t = [i \in 1 .. n + 1 |-> IF l2[i].node = k THEN l2[i].fee ELSE 0]
    OBVIOUS
  <2>2. /\ s \in [1 .. n -> Int] /\ t \in [1 .. n + 1 -> Int]
        /\ \A i \in 1 .. n : t[i] = s[i]
        /\ t[n + 1] = (IF e.node = k THEN e.fee ELSE 0)
    <3>1. s \in [1 .. n -> Int]
      BY <1>2, <1>3, <2>1
    <3>2. t \in [1 .. n + 1 -> Int]
      BY <1>3, <1>4, <2>1
    <3>3. \A i \in 1 .. n : t[i] = s[i]
      BY <1>2, <1>4, <2>1
    <3>4. t[n + 1] = (IF e.node = k THEN e.fee ELSE 0)
      BY <1>2, <1>4, <2>1
    <3> QED BY <3>1, <3>2, <3>3, <3>4
  <2>3. /\ SumFunctionOnSet(t, 1 .. n + 1) = SumFunctionOnSet(s, 1 .. n) + t[n + 1]
        /\ SumFunctionOnSet(s, 1 .. n) \in Int
    BY ONLY <2>2, AmountsAppend, n \in Nat
  <2>4. NodeFees(l2, k) = SumFunctionOnSet(t, 1 .. n + 1) /\ NodeFees(log, k) = SumFunctionOnSet(s, 1 .. n)
    BY <1>2, <2>1 DEF NodeFees, SumFunction
  <2> QED BY <2>2, <2>3, <2>4
<1>9. MessageValues(l2) = MessageValues(log) + e.value /\ MessageValues(log) \in Int
  <2>1. PICK s, t : /\ s = [i \in 1 .. n |-> log[i].value]
                    /\ t = [i \in 1 .. n + 1 |-> l2[i].value]
    OBVIOUS
  <2>2. /\ s \in [1 .. n -> Int] /\ t \in [1 .. n + 1 -> Int]
        /\ \A i \in 1 .. n : t[i] = s[i]
        /\ t[n + 1] = e.value
    <3>1. s \in [1 .. n -> Int]
      BY <1>2, <1>3, <2>1
    <3>2. t \in [1 .. n + 1 -> Int]
      BY <1>3, <1>4, <2>1
    <3>3. \A i \in 1 .. n : t[i] = s[i]
      BY <1>2, <1>4, <2>1
    <3>4. t[n + 1] = e.value
      BY <1>2, <1>4, <2>1
    <3> QED BY <3>1, <3>2, <3>3, <3>4
  <2>3. /\ SumFunctionOnSet(t, 1 .. n + 1) = SumFunctionOnSet(s, 1 .. n) + t[n + 1]
        /\ SumFunctionOnSet(s, 1 .. n) \in Int
    BY ONLY <2>2, AmountsAppend, n \in Nat
  <2>4. MessageValues(l2) = SumFunctionOnSet(t, 1 .. n + 1) /\ MessageValues(log) = SumFunctionOnSet(s, 1 .. n)
    BY <1>2, <2>1 DEF MessageValues, SumFunction
  <2> QED BY <2>2, <2>3, <2>4
<1> QED BY <1>1, <1>5, <1>6, <1>7, <1>8, <1>9

(* Nothing emitted, nothing spent.                                         *)
LEMMA LogEmpty ==
    ASSUME NEW k
    PROVE  /\ EventFees(<<>>) = 0 /\ MessageFees(<<>>) = 0 /\ MessageReceipts(<<>>) = 0
           /\ NodeFees(<<>>, k) = 0 /\ MessageValues(<<>>) = 0
<1>1. \A f : SumFunctionOnSet(f, {}) = 0
  BY SumEmpty
<1>2. DOMAIN <<>> = {}
  OBVIOUS
<1>3. EventFees(<<>>) = 0
  BY <1>1, <1>2 DEF EventFees, SumFunction
<1>4. MessageFees(<<>>) = 0
  BY <1>1, <1>2 DEF MessageFees, SumFunction
<1>5. MessageReceipts(<<>>) = 0
  BY <1>1, <1>2 DEF MessageReceipts, SumFunction
<1>6. NodeFees(<<>>, k) = 0
  BY <1>1, <1>2 DEF NodeFees, SumFunction
<1>7. MessageValues(<<>>) = 0
  BY <1>1, <1>2 DEF MessageValues, SumFunction
<1> QED BY <1>3, <1>4, <1>5, <1>6, <1>7

-----------------------------------------------------------------------------
(* The invariant.                                                          *)

AllPerms == {"write", "send", "call", "nondet"}
AccSet == [decremented : 0 .. U256Max, emissions : Seq(EmissionSet), nodes : Seq(Nat)]
VmSet ==
    [kind : {"main", "call", "sandbox", "nondet"}, det : BOOLEAN, perms : SUBSET AllPerms,
     main : BOOLEAN, acc : AccSet, pages : SUBSET PageIds,
     end : {"running", "return", "user_error", "vm_error"}]

NoEffects(acc) == acc.emissions = <<>> /\ acc.nodes = <<>>

(* What a VM and the one it has started have to do with each other.        *)
Link(p, c) ==
    /\ p.end = "running"
    /\ c.perms \subseteq p.perms
    /\ c.det => p.det
    /\ c.kind \in {"call", "sandbox", "nondet"}
    /\ c.kind = "sandbox" => c.main = p.main /\ c.det = p.det /\ NoEffects(p.acc)
    /\ c.kind = "call" => ~c.main /\ c.perms \subseteq {"call", "nondet"}
    /\ c.kind = "nondet" => ~c.det

(* A VM below a call or a nondet VM (or itself one) neither has effects    *)
(* nor may have any, and is not a VM of the main contract's own state.     *)
Quiet(vm) ==
    /\ NoEffects(vm.acc)
    /\ vm.det => vm.perms \subseteq {"call", "nondet"}
    /\ ~(vm.main /\ vm.det)

Inner(n) == \E k \in 2 .. n : stack[k].kind # "sandbox"

StackInv ==
    /\ stack \in Seq(VmSet)
    /\ Len(stack) <= VmRecursion + 1
    /\ Len(stack) > VmRecursion => stack[Len(stack)].end # "running"
    /\ stack # <<>> => stack[1].kind = "main"
    /\ \A n \in 2 .. Len(stack) : Link(stack[n - 1], stack[n])
    /\ \A n \in 1 .. Len(stack) : Inner(n) => Quiet(stack[n])

(* The VM whose accumulator will be reported, as HolderIndex finds it.     *)
IsHolder(h) ==
    h \in 1 .. Len(stack) /\ ~Inner(h) /\ (h < Len(stack) => Inner(h + 1))

(* What was charged is in the accumulator and the pages of the holder.     *)
Accounts(acc, pages) ==
    /\ IsFiniteSet(pages)
    /\ Charged("event") = EventFees(acc.emissions)
    /\ Charged("message_fee") = MessageFees(acc.emissions)
    /\ Charged("message_receipt") = MessageReceipts(acc.emissions)
    /\ \A cost \in Costs["storage"] : Charged("storage") = CostSum(cost) * Cardinality(pages)
    /\ DOMAIN acc.nodes = DOMAIN NodeBudgets
    /\ \A k \in DOMAIN NodeBudgets :
          acc.nodes[k] + NodeFees(acc.emissions, k) = NodeBudgets[k]
    /\ acc.decremented = MessageValues(acc.emissions)
    /\ acc.decremented <= Balance

(* What the holder of one state and that of the next have to do with each  *)
(* other: nothing emitted or written is taken back.                        *)
Extends(v, w) == IsPrefix(v.acc.emissions, w.acc.emissions) /\ v.pages \subseteq w.pages
Kept == \A h, g : IsHolder(h) /\ IsHolder(g)' => Extends(stack[h], stack'[g])

HolderInv == \A h : IsHolder(h) => Accounts(stack[h].acc, stack[h].pages)

(* Before the main VM: the categories before `charging` have paid their    *)
(* initial charge and no more, and then the code its pages.                *)
PrepInv ==
    stack = <<>> =>
        /\ charging \in 1 .. Len(InitialOrder) =>
             /\ written = {}
             /\ \A j \in 1 .. Len(InitialOrder) :
                   CostSum(consumed[InitialOrder[j]])
                     = IF j < charging THEN CostSum(Initials[InitialOrder[j]]) ELSE 0
        /\ ChargingDone =>
             /\ Charged("event") = 0 /\ Charged("message_fee") = 0 /\ Charged("message_receipt") = 0
             /\ \A cost \in Costs["storage"] :
                   Charged("storage") = CostSum(cost) * Cardinality(written)

RunInv ==
    /\ code \subseteq PageIds /\ written \subseteq code /\ IsFiniteSet(written)
    /\ result \in {"none", "return", "user_error", "vm_error"}
    /\ stack # <<>> => ChargingDone

IInv == FeesInv /\ StackInv /\ RunInv /\ PrepInv /\ HolderInv

-----------------------------------------------------------------------------
(* The stack.                                                              *)

SameConfig(v, w) ==
    v.kind = w.kind /\ v.det = w.det /\ v.perms = w.perms /\ v.main = w.main

LEMMA InnerSame ==
    ASSUME NEW n \in Int, \A k \in 2 .. n : stack'[k].kind = stack[k].kind
    PROVE  Inner(n)' <=> Inner(n)
BY DEF Inner

LEMMA InnerUp ==
    ASSUME NEW n \in Int, NEW m \in Int, n <= m, Inner(n)
    PROVE  Inner(m)
<1>1. PICK k \in 2 .. n : stack[k].kind # "sandbox"
  BY DEF Inner
<1>2. k \in 2 .. m
  OBVIOUS
<1> QED BY <1>1, <1>2 DEF Inner

LEMMA NotInnerFirst == ~Inner(1)
BY DEF Inner

LEMMA HolderUnique ==
    ASSUME stack \in Seq(VmSet), NEW h, NEW g, IsHolder(h), IsHolder(g)
    PROVE  h = g
<1>1. /\ h \in Int /\ g \in Int /\ Len(stack) \in Nat /\ h <= Len(stack) /\ g <= Len(stack)
      /\ ~Inner(h) /\ ~Inner(g)
      /\ (h < Len(stack) => Inner(h + 1)) /\ (g < Len(stack) => Inner(g + 1))
  BY DEF IsHolder
<1>2. ~(h < g)
  <2> SUFFICES ASSUME h < g PROVE FALSE
    OBVIOUS
  <2>1. Inner(h + 1) /\ h + 1 <= g /\ h + 1 \in Int
    BY <1>1
  <2> QED BY <1>1, <2>1, InnerUp
<1>3. ~(g < h)
  <2> SUFFICES ASSUME g < h PROVE FALSE
    OBVIOUS
  <2>1. Inner(g + 1) /\ g + 1 <= h /\ g + 1 \in Int
    BY <1>1
  <2> QED BY <1>1, <2>1, InnerUp
<1> QED BY <1>1, <1>2, <1>3

LEMMA HolderExists ==
    ASSUME stack \in Seq(VmSet), stack # <<>>
    PROVE  \E h : IsHolder(h)
<1> DEFINE I == {n \in 1 .. Len(stack) : ~Inner(n)}
<1>1. Len(stack) \in Nat /\ Len(stack) >= 1
  BY EmptySeq
<1>2. I \in SUBSET (1 .. Len(stack)) /\ I # {}
  BY <1>1, NotInnerFirst
<1>3. PICK h \in I : \A j \in I : j <= h
  BY <1>1, <1>2, LargestOf
<1>4. h < Len(stack) => Inner(h + 1)
  BY <1>1, <1>3
<1> QED BY <1>3, <1>4 DEF IsHolder

(* HolderIndex is that VM.                                                 *)
LEMMA HolderFound ==
    ASSUME stack \in Seq(VmSet), NEW h, IsHolder(h)
    PROVE  HolderIndex = h
<1> DEFINE S == {n \in 1 .. Depth : \A k \in 2 .. n : stack[k].kind = "sandbox"}
<1>1. Len(stack) \in Nat /\ h \in 1 .. Len(stack) /\ ~Inner(h)
  BY DEF IsHolder
<1>2. \A n \in 1 .. Len(stack) : n \in S <=> ~Inner(n)
  BY DEF Depth, Inner
<1>3. h \in S /\ S \subseteq Int
  BY <1>1, <1>2
<1>4. \A y \in S : h >= y
  <2> TAKE y \in S
  <2>1. y \in 1 .. Len(stack) /\ ~Inner(y)
    BY <1>2 DEF Depth
  <2> SUFFICES ASSUME h < y PROVE FALSE
    BY <1>1, <2>1
  <2>2. Inner(h + 1) /\ h + 1 <= y /\ h + 1 \in Int /\ y \in Int
    BY <1>1, <2>1 DEF IsHolder
  <2> QED BY <2>1, <2>2, InnerUp
<1> HIDE DEF S
<1>5. \A x \in S : (\A y \in S : x >= y) => x = h
  BY <1>3, <1>4
<1>6. Max(S) = h
  BY <1>3, <1>4, <1>5 DEF Max
<1> QED BY <1>6 DEF HolderIndex, S

LEMMA ExtendsSame ==
    \A v, w : v \in VmSet /\ w.acc = v.acc /\ w.pages = v.pages => Extends(v, w)
<1> TAKE v, w
<1> HAVE v \in VmSet /\ w.acc = v.acc /\ w.pages = v.pages
<1>1. v.acc.emissions \in Seq(EmissionSet)
  BY DEF VmSet, AccSet
<1>2. Len(v.acc.emissions) <= Len(v.acc.emissions)
  BY <1>1
<1> QED BY <1>2 DEF Extends, IsPrefix

LEMMA PrefixAppend ==
    ASSUME NEW S, NEW s \in Seq(S), NEW e \in S
    PROVE  IsPrefix(s, Append(s, e))
<1>1. PICK n, t : n = Len(s) /\ t = Append(s, e)
  OBVIOUS
<1>2. n \in Nat /\ t \in Seq(S) /\ Len(t) = n + 1 /\ \A i \in 1 .. n : t[i] = s[i] /\ s[i] \in S /\ t[i] \in S
  <2>1. n \in Nat /\ \A i \in 1 .. n : s[i] \in S
    BY <1>1
  <2>2. t \in Seq(S) /\ Len(t) = n + 1 /\ \A i \in 1 .. n : t[i] = s[i]
    BY <1>1, AppendProperties
  <2> QED BY <2>1, <2>2
<1>3. \A m \in Nat : m = n => (IF 1 <= m THEN m - 1 + 1 ELSE 0) = n /\ m - 1 + 1 = n
  OBVIOUS
<1>4. PICK s1, t1 : s1 = SubSeq(s, 1, n) /\ t1 = SubSeq(t, 1, n)
  OBVIOUS
<1>5. s1 \in Seq(S) /\ Len(s1) = n /\ \A i \in 1 .. n - 1 + 1 : s1[i] = s[1 + i - 1]
  BY <1>2, <1>3, <1>4, SubSeqProperties
<1>6. t1 \in Seq(S) /\ Len(t1) = n /\ \A i \in 1 .. n - 1 + 1 : t1[i] = t[1 + i - 1]
  BY <1>2, <1>3, <1>4, SubSeqProperties
<1>7. \A i \in 1 .. n : s1[i] = t1[i]
  <2> TAKE i \in 1 .. n
  <2>1. i \in 1 .. n - 1 + 1 /\ 1 + i - 1 = i
    BY <1>2
  <2> QED BY <1>2, <1>5, <1>6, <2>1
<1>8. s1 = t1
  BY <1>5, <1>6, <1>7, SeqEqual
<1> QED BY <1>1, <1>2, <1>4, <1>8 DEF IsPrefix

LEMMA StackType ==
    ASSUME StackInv, stack # <<>>
    PROVE  /\ Len(stack) \in Nat /\ Len(stack) >= 1 /\ Depth = Len(stack)
           /\ Top = stack[Len(stack)] /\ Top \in VmSet
           /\ \A n \in 1 .. Len(stack) : stack[n] \in VmSet
<1>1. Len(stack) \in Nat /\ Len(stack) >= 1 /\ \A n \in 1 .. Len(stack) : stack[n] \in VmSet
  BY EmptySeq DEF StackInv
<1> QED BY <1>1 DEF Depth, Top

(* The VM on top changes, but neither its kind nor what it may do.         *)
LEMMA SetTopKeeps ==
    ASSUME StackInv, stack # <<>>, NEW vm \in VmSet, SetTop(vm), SameConfig(vm, Top),
           Inner(Len(stack)) => NoEffects(vm.acc),
           Len(stack) > VmRecursion => vm.end # "running"
    PROVE  /\ StackInv' /\ stack' # <<>>
           /\ \A h : IsHolder(h)' <=> IsHolder(h)
           /\ Len(stack') = Len(stack) /\ stack'[Len(stack)] = vm
           /\ \A n \in 1 .. Len(stack) - 1 : stack'[n] = stack[n]
<1> DEFINE d == Len(stack)
<1>1. /\ d \in Nat /\ d >= 1 /\ Depth = d /\ Top = stack[d] /\ stack[d] \in VmSet
      /\ \A n \in 1 .. d : stack[n] \in VmSet /\ stack \in Seq(VmSet)
  BY StackType DEF StackInv
<1>2. stack' = [stack EXCEPT ![d] = vm]
  BY <1>1 DEF SetTop
<1>3. /\ stack' \in Seq(VmSet) /\ Len(stack') = d /\ stack'[d] = vm
      /\ \A n \in 1 .. d - 1 : stack'[n] = stack[n]
  BY <1>1, <1>2
<1> HIDE DEF d
<1>4. stack' # <<>>
  BY <1>1, <1>3
<1>5. \A n \in 1 .. d : SameConfig(stack'[n], stack[n])
  BY <1>1, <1>3 DEF SameConfig
<1>6. \A n \in 1 .. d : Inner(n)' <=> Inner(n)
  <2> TAKE n \in 1 .. d
  <2>1. \A k \in 2 .. n : stack'[k].kind = stack[k].kind
    BY <1>1, <1>5 DEF SameConfig
  <2> QED BY <1>1, <2>1, InnerSame
<1>7. \A h : IsHolder(h)' <=> IsHolder(h)
  <2> TAKE h
  <2>1. h \in 1 .. d => /\ Inner(h)' <=> Inner(h)
                        /\ h < d => (Inner(h + 1)' <=> Inner(h + 1))
    BY <1>1, <1>6
  <2> QED BY <1>3, <2>1 DEF IsHolder, d
<1>8. StackInv'
  <2>1. d <= VmRecursion + 1 /\ (d > VmRecursion => stack'[d].end # "running")
    BY <1>3 DEF StackInv, d
  <2>2. stack'[1].kind = "main"
    BY <1>1, <1>5 DEF StackInv, SameConfig
  <2>3. ASSUME NEW n \in 2 .. d PROVE Link(stack'[n - 1], stack'[n])
    <3>1. Link(stack[n - 1], stack[n])
      BY DEF StackInv, d
    <3>2. stack'[n - 1] = stack[n - 1] /\ SameConfig(stack'[n], stack[n])
      BY <1>1, <1>3, <1>5
    <3> QED BY <3>1, <3>2 DEF Link, SameConfig
  <2>4. ASSUME NEW n \in 1 .. d, Inner(n)' PROVE Quiet(stack'[n])
    <3>1. Quiet(stack[n])
      BY <1>6, <2>4 DEF StackInv, d
    <3>2. NoEffects(stack'[n].acc)
      <4>1. CASE n = d
        BY <1>3, <1>6, <2>4, <4>1 DEF d
      <4>2. CASE n # d
        BY <1>1, <1>3, <3>1, <4>2 DEF Quiet
      <4> QED BY <4>1, <4>2
    <3> QED BY <1>5, <3>1, <3>2 DEF Quiet, SameConfig
  <2> QED BY <1>3, <1>4, <2>1, <2>2, <2>3, <2>4 DEF StackInv
<1> QED BY <1>3, <1>4, <1>7, <1>8 DEF d

(* A sub-VM is started.                                                    *)
LEMMA PushKeeps ==
    ASSUME NEW d \in Nat, d = Len(stack), StackInv, Running, NEW parent \in VmSet, NEW child \in VmSet, Push(parent, child),
           SameConfig(parent, Top), parent.end = "running", Link(parent, child),
           Inner(d) => NoEffects(parent.acc),
           Inner(d) \/ child.kind # "sandbox" => Quiet(child)
    PROVE  /\ StackInv' /\ stack' # <<>>
           /\ Len(stack') = d + 1 /\ stack'[d] = parent
           /\ stack'[d + 1].acc = child.acc /\ stack'[d + 1].pages = child.pages
           /\ \A n \in 1 .. d - 1 : stack'[n] = stack[n]
           /\ \A h \in 1 .. d : IsHolder(h)' => IsHolder(h)
           /\ \A h : IsHolder(h)' => h \in 1 .. d + 1
           /\ IsHolder(d + 1)' => ~Inner(d) /\ child.kind = "sandbox"
           /\ child.kind = "sandbox" => ~IsHolder(d)'
<1>0. stack # <<>> /\ Depth = Len(stack) /\ Top.end = "running" /\ VmRecursion \in Nat
  BY EffectsAssumption DEF Running, Depth
<1>1. /\ d \in Nat /\ d >= 1 /\ Depth = d /\ Top = stack[d] /\ stack[d] \in VmSet
      /\ \A n \in 1 .. d : stack[n] \in VmSet /\ stack \in Seq(VmSet)
  BY <1>0, StackType DEF StackInv
<1>2. PICK c : c = IF d >= VmRecursion THEN [child EXCEPT !.end = "vm_error"] ELSE child
  OBVIOUS
<1>3. /\ c \in VmSet /\ SameConfig(c, child) /\ c.acc = child.acc /\ c.pages = child.pages
      /\ d >= VmRecursion => c.end # "running"
  <2>1. CASE d >= VmRecursion
    BY <1>2, <2>1 DEF VmSet, SameConfig
  <2>2. CASE ~(d >= VmRecursion)
    BY <1>2, <2>2 DEF SameConfig
  <2> QED BY <2>1, <2>2
<1>4. /\ stack' \in Seq(VmSet) /\ Len(stack') = d + 1 /\ stack'[d] = parent /\ stack'[d + 1] = c
      /\ \A n \in 1 .. d - 1 : stack'[n] = stack[n]
  <2>1. PICK s : s = [stack EXCEPT ![d] = parent]
    OBVIOUS
  <2>2. /\ s \in Seq(VmSet) /\ Len(s) = d /\ s[d] = parent
        /\ \A n \in 1 .. d - 1 : s[n] = stack[n]
    BY <1>1, <2>1
  <2>3. stack' = s \o <<c>>
    BY <1>1, <1>2, <2>1 DEF Push
  <2>4. <<c>> \in Seq(VmSet) /\ Len(<<c>>) = 1 /\ <<c>>[1] = c
    BY <1>3
  <2>5. stack' \in Seq(VmSet) /\ Len(stack') = d + 1
    BY <1>1, <2>2, <2>3, <2>4
  <2>6. stack'[d + 1] = c /\ \A n \in 1 .. d : stack'[n] = s[n]
    BY <1>1, <2>2, <2>3, <2>4
  <2> QED BY <1>1, <2>2, <2>5, <2>6
<1>5. \A n \in 1 .. d : SameConfig(stack'[n], stack[n])
  BY <1>1, <1>4 DEF SameConfig
<1>6. \A n \in 1 .. d : Inner(n)' <=> Inner(n)
  <2> TAKE n \in 1 .. d
  <2>1. \A k \in 2 .. n : stack'[k].kind = stack[k].kind
    BY <1>1, <1>5 DEF SameConfig
  <2> QED BY <1>1, <2>1, InnerSame
<1>7. Inner(d + 1)' <=> Inner(d) \/ child.kind # "sandbox"
  <2>1. Inner(d + 1)' <=> Inner(d)' \/ stack'[d + 1].kind # "sandbox"
    <3>1. 2 .. d + 1 = (2 .. d) \cup {d + 1}
      BY <1>1
    <3> QED BY <3>1 DEF Inner
  <2> QED BY <1>1, <1>3, <1>4, <1>6, <2>1 DEF SameConfig
<1>8. \A h \in 1 .. d : IsHolder(h)' => IsHolder(h)
  <2> SUFFICES ASSUME NEW h \in 1 .. d, IsHolder(h)' PROVE IsHolder(h)
    OBVIOUS
  <2>1. ~Inner(h)
    BY <1>6 DEF IsHolder
  <2>2. h < d => Inner(h + 1)
    BY <1>1, <1>4, <1>6 DEF IsHolder
  <2> QED BY <2>1, <2>2 DEF IsHolder
<1>9. \A h : IsHolder(h)' => h \in 1 .. d + 1
  BY <1>4 DEF IsHolder
<1>10. IsHolder(d + 1)' => ~Inner(d) /\ child.kind = "sandbox"
  BY <1>7 DEF IsHolder
<1>11. child.kind = "sandbox" => ~IsHolder(d)'
  <2> SUFFICES ASSUME child.kind = "sandbox", IsHolder(d)' PROVE FALSE
    OBVIOUS
  <2>1. Inner(d + 1)' /\ ~Inner(d)'
    BY <1>1, <1>4 DEF IsHolder
  <2> QED BY <1>1, <1>6, <1>7, <2>1
<1>12. StackInv'
  <2>1. d + 1 <= VmRecursion + 1 /\ (d + 1 > VmRecursion => stack'[d + 1].end # "running")
    BY <1>0, <1>1, <1>3, <1>4 DEF StackInv
  <2>2. stack'[1].kind = "main"
    BY <1>0, <1>1, <1>5 DEF StackInv, SameConfig
  <2>3. ASSUME NEW n \in 2 .. d + 1 PROVE Link(stack'[n - 1], stack'[n])
    <3>1. CASE n = d + 1
      <4>1. stack'[n - 1] = parent /\ stack'[n] = c
        BY <1>1, <1>4, <3>1
      <4> QED BY <1>3, <4>1 DEF Link, SameConfig
    <3>2. CASE n # d + 1
      <4>1. Link(stack[n - 1], stack[n])
        BY <1>1, <3>2 DEF StackInv
      <4>2. stack'[n - 1] = stack[n - 1] /\ SameConfig(stack'[n], stack[n])
        BY <1>1, <1>4, <1>5, <3>2
      <4> QED BY <4>1, <4>2 DEF Link, SameConfig
    <3> QED BY <3>1, <3>2
  <2>4. ASSUME NEW n \in 1 .. d + 1, Inner(n)' PROVE Quiet(stack'[n])
    <3>1. CASE n = d + 1
      <4>1. Quiet(child)
        BY <1>7, <2>4, <3>1
      <4> QED BY <1>3, <1>4, <3>1, <4>1 DEF Quiet, SameConfig
    <3>2. CASE n # d + 1
      <4>0. n \in 1 .. d
        BY <1>1, <3>2
      <4>1. Quiet(stack[n])
        BY <1>6, <2>4, <4>0 DEF StackInv
      <4>2. NoEffects(stack'[n].acc)
        <5>1. CASE n = d
          BY <1>4, <1>6, <2>4, <4>0, <5>1
        <5>2. CASE n # d
          BY <1>1, <1>4, <4>0, <4>1, <5>2 DEF Quiet
        <5> QED BY <5>1, <5>2
      <4> QED BY <1>5, <4>0, <4>1, <4>2 DEF Quiet, SameConfig
    <3> QED BY <3>1, <3>2
  <2>5. stack' # <<>>
    BY <1>1, <1>4
  <2> QED BY <1>4, <2>1, <2>2, <2>3, <2>4, <2>5 DEF StackInv
<1>13. stack' # <<>>
  BY <1>1, <1>4
<1> QED BY <1>1, <1>3, <1>4, <1>8, <1>9, <1>10, <1>11, <1>12, <1>13

(* A sub-VM that has ended makes way for its parent.                       *)
LEMMA PopKeeps ==
    ASSUME NEW d \in Nat, d = Len(stack), StackInv, stack # <<>>, d >= 2, NEW parent \in VmSet, Pop(parent),
           SameConfig(parent, Parent), Inner(d - 1) => NoEffects(parent.acc)
    PROVE  /\ StackInv' /\ stack' # <<>>
           /\ Len(stack') = d - 1 /\ stack'[d - 1] = parent
           /\ \A n \in 1 .. d - 2 : stack'[n] = stack[n]
           /\ \A h : IsHolder(h)' => h \in 1 .. d - 1
           /\ \A h \in 1 .. d - 2 : IsHolder(h)' => IsHolder(h)
           /\ IsHolder(d - 1)' => ~Inner(d - 1)
<1>0. VmRecursion \in Nat
  BY EffectsAssumption
<1>1. /\ d \in Nat /\ d >= 2 /\ Depth = d /\ Parent = stack[d - 1] /\ stack \in Seq(VmSet)
      /\ \A n \in 1 .. d : stack[n] \in VmSet
  BY StackType DEF StackInv, Parent
<1>2. stack' = Append(SubSeq(stack, 1, d - 2), parent)
  BY <1>1 DEF Pop
<1>3. /\ stack' \in Seq(VmSet) /\ Len(stack') = d - 1 /\ stack'[d - 1] = parent
      /\ \A n \in 1 .. d - 2 : stack'[n] = stack[n]
  <2>1. PICK s : s = SubSeq(stack, 1, d - 2)
    OBVIOUS
  <2>2. \A i \in 1 .. d - 2 : stack[i] \in VmSet
    BY <1>1
  <2>3. /\ s \in Seq(VmSet)
        /\ Len(s) = IF 1 <= d - 2 THEN d - 2 - 1 + 1 ELSE 0
        /\ \A i \in 1 .. d - 2 - 1 + 1 : s[i] = stack[1 + i - 1]
    <3>1. 1 \in Int /\ d - 2 \in Int
      BY <1>1
    <3> QED BY ONLY <2>1, <2>2, <3>1, SubSeqProperties
  <2>4. Len(s) = d - 2
    <3>1. PICK m \in Nat : m = d
      BY <1>1
    <3>2. m >= 2 /\ Len(s) = IF 1 <= m - 2 THEN m - 2 - 1 + 1 ELSE 0
      BY ONLY <1>1, <2>3, <3>1
    <3>3. Len(s) = m - 2
      BY ONLY <3>2
    <3> QED BY ONLY <3>1, <3>3
  <2>5. \A i \in 1 .. d - 2 : s[i] = stack[i]
    <3> TAKE i \in 1 .. d - 2
    <3>1. i \in 1 .. d - 2 - 1 + 1 /\ 1 + i - 1 = i
      BY <1>1
    <3> QED BY <2>3, <3>1
  <2>6. stack' = Append(s, parent)
    BY <1>2, <2>1
  <2> QED BY <1>1, <2>3, <2>4, <2>5, <2>6
<1>4. stack' # <<>>
  BY <1>1, <1>3
<1>5. \A n \in 1 .. d - 1 : SameConfig(stack'[n], stack[n])
  BY <1>1, <1>3 DEF SameConfig
<1>6. \A n \in 1 .. d - 1 : Inner(n)' <=> Inner(n)
  <2> TAKE n \in 1 .. d - 1
  <2>1. \A k \in 2 .. n : stack'[k].kind = stack[k].kind
    BY <1>1, <1>5 DEF SameConfig
  <2> QED BY <1>1, <2>1, InnerSame
<1>7. \A h : IsHolder(h)' => h \in 1 .. d - 1
  BY <1>3 DEF IsHolder
<1>8. \A h \in 1 .. d - 2 : IsHolder(h)' => IsHolder(h)
  <2> SUFFICES ASSUME NEW h \in 1 .. d - 2, IsHolder(h)' PROVE IsHolder(h)
    OBVIOUS
  <2>1. h \in 1 .. d - 1 /\ h + 1 \in 1 .. d - 1 /\ h < d - 1 /\ h \in 1 .. d
    BY <1>1
  <2>2. ~Inner(h)' /\ Inner(h + 1)'
    BY <1>3, <2>1 DEF IsHolder
  <2> QED BY <1>6, <2>1, <2>2 DEF IsHolder
<1>9. IsHolder(d - 1)' => ~Inner(d - 1)
  BY <1>1, <1>6 DEF IsHolder
<1>10. StackInv'
  <2>1. d - 1 <= VmRecursion + 1 /\ ~(d - 1 > VmRecursion)
    BY <1>0, <1>1 DEF StackInv
  <2>2. stack'[1].kind = "main"
    BY <1>1, <1>5 DEF StackInv, SameConfig
  <2>3. ASSUME NEW n \in 2 .. d - 1 PROVE Link(stack'[n - 1], stack'[n])
    <3>1. Link(stack[n - 1], stack[n])
      BY <1>1 DEF StackInv
    <3>2. stack'[n - 1] = stack[n - 1] /\ SameConfig(stack'[n], stack[n])
      BY <1>1, <1>3, <1>5
    <3> QED BY <3>1, <3>2 DEF Link, SameConfig
  <2>4. ASSUME NEW n \in 1 .. d - 1, Inner(n)' PROVE Quiet(stack'[n])
    <3>1. Quiet(stack[n])
      BY <1>1, <1>6, <2>4 DEF StackInv
    <3>2. NoEffects(stack'[n].acc)
      <4>1. CASE n = d - 1
        BY <1>3, <1>6, <2>4, <4>1
      <4>2. CASE n # d - 1
        BY <1>1, <1>3, <3>1, <4>2 DEF Quiet
      <4> QED BY <4>1, <4>2
    <3> QED BY <1>5, <3>1, <3>2 DEF Quiet, SameConfig
  <2> QED BY <1>3, <1>4, <2>1, <2>2, <2>3, <2>4 DEF StackInv
<1> QED BY <1>1, <1>3, <1>4, <1>7, <1>8, <1>9, <1>10

-----------------------------------------------------------------------------
(* What the holder's accumulator and pages account for.                    *)

Reported == {"event", "message_fee", "message_receipt", "storage"}

LEMMA AccountsKept ==
    ASSUME NEW acc, NEW pages, Accounts(acc, pages),
           \A c \in Reported : consumed'[c] = consumed[c]
    PROVE  Accounts(acc, pages)'
<1>1. \A c \in Reported : Charged(c)' = Charged(c)
  BY DEF Charged
<1> QED BY <1>1 DEF Accounts, Reported

(* The same of the VM that is the holder next.                             *)
LEMMA AccountsNext ==
    ASSUME NEW h, NEW acc, NEW pages, stack'[h].acc = acc, stack'[h].pages = pages,
           Accounts(acc, pages)'
    PROVE  Accounts(stack[h].acc, stack[h].pages)'
BY DEF Accounts

LEMMA ChargedGrows ==
    ASSUME FeesInv, NEW cat \in Categories, NEW costs \in CostVecs(cat),
           consumed'[cat] = [i \in Entries(cat) |-> consumed[cat][i] + costs[i]]
    PROVE  /\ Charged(cat)' = Charged(cat) + CostSum(costs)
           /\ Charged(cat) \in Int /\ CostSum(costs) \in Nat
<1>1. consumed[cat] \in CostVecs(cat) /\ Initials[cat] \in CostVecs(cat)
  BY FeesAssumption DEF FeesInv, FeesTypeOK
<1>2. /\ CostSum([i \in Entries(cat) |-> consumed[cat][i] + costs[i]])
           = CostSum(consumed[cat]) + CostSum(costs)
      /\ CostSum(consumed[cat]) \in Nat
  BY <1>1, CostSumAdds
<1>3. CostSum(Initials[cat]) \in Nat /\ CostSum(costs) \in Nat
  BY <1>1, CostSumAdds
<1>4. PICK a \in Int, b \in Int, c \in Int :
        a = CostSum(consumed[cat]) /\ b = CostSum(costs) /\ c = CostSum(Initials[cat])
  <2>1. CostSum(consumed[cat]) \in Int /\ CostSum(costs) \in Int /\ CostSum(Initials[cat]) \in Int
    BY <1>2, <1>3
  <2> QED BY <2>1, Zenon
<1>5. Charged(cat)' = a + b - c /\ Charged(cat) = a - c
  <2>1. CostSum(consumed'[cat]) = a + b
    BY <1>2, <1>4
  <2> QED BY <1>4, <2>1 DEF Charged
<1>6. a + b - c = a - c + b /\ a - c \in Int
  BY ONLY a \in Int, b \in Int, c \in Int
<1> QED BY <1>3, <1>4, <1>5, <1>6

(* An event is charged and noted.                                          *)
LEMMA AccountsEvent ==
    ASSUME FeesInv, NEW acc \in AccSet, NEW pages, Accounts(acc, pages),
           NEW costs \in CostVecs("event"),
           consumed'["event"] = [i \in Entries("event") |-> consumed["event"][i] + costs[i]],
           \A c \in Categories \ {"event"} : consumed'[c] = consumed[c],
           NEW e \in EmissionSet, e.kind = "event", e.node = 0, e.value = 0, e.fee = CostSum(costs),
           NEW acc2, acc2.emissions = Append(acc.emissions, e),
           acc2.nodes = acc.nodes, acc2.decremented = acc.decremented
    PROVE  Accounts(acc2, pages)'
<1>0. "event" \in Categories /\ \A c \in Reported \ {"event"} : c \in Categories \ {"event"}
  BY DEF Categories, Reported
<1>1. PICK log : log = acc.emissions
  OBVIOUS
<1>2. log \in Seq(EmissionSet)
  BY <1>1 DEF AccSet
<1>3. /\ Charged("event")' = Charged("event") + CostSum(costs)
      /\ Charged("event") \in Int /\ CostSum(costs) \in Nat
  BY <1>0, ChargedGrows
<1>4. \A c \in Reported \ {"event"} : Charged(c)' = Charged(c)
  BY <1>0 DEF Charged
<1>5. /\ EventFees(Append(log, e)) = EventFees(log) + e.fee /\ EventFees(log) \in Int
      /\ MessageFees(Append(log, e)) = MessageFees(log)
      /\ MessageReceipts(Append(log, e)) = MessageReceipts(log)
      /\ MessageValues(Append(log, e)) = MessageValues(log)
  <2>1. /\ EventFees(Append(log, e)) = EventFees(log) + (IF e.kind = "event" THEN e.fee ELSE 0)
        /\ EventFees(log) \in Int
        /\ MessageFees(Append(log, e)) = MessageFees(log) + (IF e.kind = "message" THEN e.fee ELSE 0)
        /\ MessageFees(log) \in Int
        /\ MessageReceipts(Append(log, e))
             = MessageReceipts(log) + (IF e.kind = "message" THEN e.receipt ELSE 0)
        /\ MessageReceipts(log) \in Int
        /\ MessageValues(Append(log, e)) = MessageValues(log) + e.value
        /\ MessageValues(log) \in Int
    BY ONLY <1>2, e \in EmissionSet, LogAppend
  <2>2. e.kind = "event" /\ e.kind # "message" /\ e.value = 0
    OBVIOUS
  <2> QED BY ONLY <2>1, <2>2
<1>6. \A k \in DOMAIN NodeBudgets : NodeFees(Append(log, e), k) = NodeFees(log, k)
  <2> TAKE k \in DOMAIN NodeBudgets
  <2>1. k # 0
    BY EffectsAssumption
  <2>2. NodeFees(Append(log, e), k) = NodeFees(log, k) + (IF e.node = k THEN e.fee ELSE 0)
        /\ NodeFees(log, k) \in Int
    BY <1>2, LogAppend
  <2> QED BY <2>1, <2>2
<1>7. Charged("event")' = EventFees(Append(log, e))
  BY <1>1, <1>3, <1>5 DEF Accounts
<1> QED BY <1>1, <1>4, <1>5, <1>6, <1>7 DEF Accounts, Reported

(* A page is charged and written for the first time.                       *)
LEMMA PagePrice ==
    \A c, n, x, x2 \in Int : x = c * n /\ x2 = x + c => x2 = c * (n + 1)
OBVIOUS

LEMMA PageCharged ==
    ASSUME FeesInv, NEW pages, IsFiniteSet(pages),
           \A cost \in Costs["storage"] : Charged("storage") = CostSum(cost) * Cardinality(pages),
           NEW costs \in Costs["storage"],
           consumed'["storage"] = [i \in Entries("storage") |-> consumed["storage"][i] + costs[i]],
           NEW page, page \notin pages
    PROVE  /\ IsFiniteSet(pages \cup {page})
           /\ \A cost \in Costs["storage"] :
                 Charged("storage")' = CostSum(cost) * Cardinality(pages \cup {page})
<1>1. costs \in CostVecs("storage") /\ \A cost \in Costs["storage"] : cost = costs
  BY FeesAssumption, EffectsAssumption DEF Categories
<1>2. "storage" \in Categories
  BY DEF Categories
<1>3. /\ Charged("storage")' = Charged("storage") + CostSum(costs)
      /\ Charged("storage") \in Int /\ CostSum(costs) \in Nat
  BY <1>1, <1>2, ChargedGrows
<1>4. /\ IsFiniteSet(pages \cup {page}) /\ Cardinality(pages) \in Nat
      /\ Cardinality(pages \cup {page}) = Cardinality(pages) + 1
  BY FS_AddElement, FS_CardinalityType
<1>5. PICK c \in Int, n \in Int, x \in Int, x2 \in Int :
        /\ c = CostSum(costs) /\ n = Cardinality(pages)
        /\ x = Charged("storage") /\ x2 = Charged("storage")'
  <2>1. CostSum(costs) \in Int /\ Cardinality(pages) \in Int /\ Charged("storage")' \in Int
    BY <1>3, <1>4
  <2> QED BY <1>3, <2>1, Zenon
<1>6. x = c * n
  BY <1>5
<1>7. x2 = x + c
  BY <1>3, <1>5
<1>8. x2 = c * (n + 1)
  BY ONLY <1>6, <1>7, PagePrice
<1>9. Charged("storage")' = CostSum(costs) * Cardinality(pages \cup {page})
  BY ONLY <1>4, <1>5, <1>8, Zenon
<1> QED BY <1>1, <1>4, <1>9

LEMMA AccountsPage ==
    ASSUME FeesInv, NEW acc, NEW pages, Accounts(acc, pages),
           NEW costs \in Costs["storage"],
           consumed'["storage"] = [i \in Entries("storage") |-> consumed["storage"][i] + costs[i]],
           \A c \in Categories \ {"storage"} : consumed'[c] = consumed[c],
           NEW page, page \notin pages
    PROVE  Accounts(acc, pages \cup {page})'
<1>1. \A c \in Reported \ {"storage"} : c \in Categories \ {"storage"}
  BY DEF Categories, Reported
<1>2. \A c \in Reported \ {"storage"} : Charged(c)' = Charged(c)
  BY <1>1 DEF Charged
<1>3. /\ IsFiniteSet(pages \cup {page})
      /\ \A cost \in Costs["storage"] :
            Charged("storage")' = CostSum(cost) * Cardinality(pages \cup {page})
  BY PageCharged DEF Accounts
<1> QED BY <1>2, <1>3 DEF Accounts, Reported

(* A message: its fee leaves the budget of its node, its value the balance *)
(* that can still be promised, and neither wraps nor saturates.            *)
LEMMA AfterMessageIs ==
    ASSUME NEW acc \in AccSet, NEW node \in DOMAIN acc.nodes, NEW value \in Nat,
           NEW fee \in Nat, NEW receipt \in Nat, fee <= acc.nodes[node],
           NEW m, m = Message(node, value, fee, receipt),
           acc.decremented + value <= U256Max
    PROVE  /\ m \in EmissionSet /\ m.kind = "message" /\ m.node = node /\ m.value = value
           /\ m.fee = fee /\ m.receipt = receipt
           /\ AfterMessage(acc, m).emissions = Append(acc.emissions, m)
           /\ AfterMessage(acc, m).nodes = [acc.nodes EXCEPT ![node] = @ - fee]
           /\ AfterMessage(acc, m).decremented = acc.decremented + value
           /\ AfterMessage(acc, m) \in AccSet
<1>1. /\ acc.emissions \in Seq(EmissionSet) /\ acc.nodes \in Seq(Nat)
      /\ acc.decremented \in 0 .. U256Max /\ U256Max \in Nat
      /\ acc = [decremented |-> acc.decremented, emissions |-> acc.emissions, nodes |-> acc.nodes]
  BY EffectsAssumption DEF AccSet
<1>2. node \in Nat /\ acc.nodes[node] \in Nat
  BY <1>1
<1>3. /\ m \in EmissionSet /\ m.kind = "message" /\ m.node = node /\ m.value = value
      /\ m.fee = fee /\ m.receipt = receipt
  BY <1>2 DEF Message, EmissionSet
<1>4. Saturate(acc.decremented + value) = acc.decremented + value
      /\ acc.decremented + value \in 0 .. U256Max
  BY <1>1 DEF Saturate
<1>5. /\ AfterMessage(acc, m).emissions = Append(acc.emissions, m)
      /\ AfterMessage(acc, m).nodes = [acc.nodes EXCEPT ![node] = @ - fee]
      /\ AfterMessage(acc, m).decremented = Saturate(acc.decremented + value)
  BY <1>1, <1>3 DEF AfterMessage
<1>6. [acc.nodes EXCEPT ![node] = @ - fee] \in Seq(Nat)
  <2>1. acc.nodes[node] - fee \in Nat
    BY <1>2
  <2> QED BY <1>1, <2>1
<1>7. Append(acc.emissions, m) \in Seq(EmissionSet)
  BY <1>1, <1>3
<1>8. PICK n, e, x : /\ n = [acc.nodes EXCEPT ![node] = @ - fee]
                     /\ e = Append(acc.emissions, m) /\ x = Saturate(acc.decremented + value)
  OBVIOUS
<1>9. AfterMessage(acc, m) \in AccSet
  <2>1. AfterMessage(acc, m) = [acc EXCEPT !.nodes = n, !.emissions = e, !.decremented = x]
    BY ONLY <1>3, <1>8 DEF AfterMessage
  <2>2. n \in Seq(Nat) /\ e \in Seq(EmissionSet) /\ x \in 0 .. U256Max
    BY <1>4, <1>6, <1>7, <1>8
  <2> QED BY ONLY <2>1, <2>2, acc \in AccSet DEF AccSet
<1> QED BY <1>3, <1>4, <1>5, <1>9

LEMMA BalanceLeft ==
    ASSUME NEW acc \in AccSet, NEW value \in Values, HasBalance(acc, value),
           acc.decremented <= Balance
    PROVE  /\ value \in Nat /\ acc.decremented \in Nat
           /\ acc.decremented + value <= Balance /\ acc.decremented + value <= U256Max
<1>1. value \in Nat /\ Balance \in Nat /\ U256Max \in Nat /\ Balance <= U256Max
  BY EffectsAssumption
<1>2. acc.decremented \in Nat
  BY <1>1 DEF AccSet
<1> QED BY <1>1, <1>2 DEF HasBalance

LEMMA AccountsMessage ==
    ASSUME FeesInv, NEW acc \in AccSet, NEW pages, Accounts(acc, pages),
           NEW fee \in CostVecs("message_fee"), NEW receipt \in CostVecs("message_receipt"),
           consumed'["message_fee"]
             = [i \in Entries("message_fee") |-> consumed["message_fee"][i] + fee[i]],
           consumed'["message_receipt"]
             = [i \in Entries("message_receipt") |-> consumed["message_receipt"][i] + receipt[i]],
           \A c \in Categories \ {"message_fee", "message_receipt"} : consumed'[c] = consumed[c],
           NEW node \in DOMAIN acc.nodes, NEW value \in Values, HasBalance(acc, value),
           CostSum(fee) <= acc.nodes[node],
           NEW m, m = Message(node, value, CostSum(fee), CostSum(receipt))
    PROVE  Accounts(AfterMessage(acc, m), pages)' /\ AfterMessage(acc, m) \in AccSet
<1>0. /\ "message_fee" \in Categories /\ "message_receipt" \in Categories
      /\ \A c \in {"event", "storage"} : c \in Categories \ {"message_fee", "message_receipt"}
  BY DEF Categories
<1>1. /\ Charged("message_fee")' = Charged("message_fee") + CostSum(fee)
      /\ Charged("message_fee") \in Int /\ CostSum(fee) \in Nat
  BY <1>0, ChargedGrows
<1>2. /\ Charged("message_receipt")' = Charged("message_receipt") + CostSum(receipt)
      /\ Charged("message_receipt") \in Int /\ CostSum(receipt) \in Nat
  BY <1>0, ChargedGrows
<1>3. Charged("event")' = Charged("event") /\ Charged("storage")' = Charged("storage")
  BY <1>0 DEF Charged
<1>4. /\ value \in Nat /\ acc.decremented \in Nat
      /\ acc.decremented + value <= Balance /\ acc.decremented + value <= U256Max
  BY BalanceLeft DEF Accounts
<1>5. /\ m \in EmissionSet /\ m.kind = "message" /\ m.node = node /\ m.value = value
      /\ m.fee = CostSum(fee) /\ m.receipt = CostSum(receipt)
      /\ AfterMessage(acc, m).emissions = Append(acc.emissions, m)
      /\ AfterMessage(acc, m).nodes = [acc.nodes EXCEPT ![node] = @ - CostSum(fee)]
      /\ AfterMessage(acc, m).decremented = acc.decremented + value
      /\ AfterMessage(acc, m) \in AccSet
  <2>1. PICK f, r : f = CostSum(fee) /\ r = CostSum(receipt)
    OBVIOUS
  <2>2. f \in Nat /\ r \in Nat /\ f <= acc.nodes[node] /\ m = Message(node, value, f, r)
    BY <1>1, <1>2, <2>1
  <2>3. /\ m \in EmissionSet /\ m.kind = "message" /\ m.node = node /\ m.value = value
        /\ m.fee = f /\ m.receipt = r
        /\ AfterMessage(acc, m).emissions = Append(acc.emissions, m)
        /\ AfterMessage(acc, m).nodes = [acc.nodes EXCEPT ![node] = @ - f]
        /\ AfterMessage(acc, m).decremented = acc.decremented + value
        /\ AfterMessage(acc, m) \in AccSet
    BY ONLY <1>4, <2>2, AfterMessageIs, acc \in AccSet, node \in DOMAIN acc.nodes, SMTT(60)
  <2> QED BY <2>1, <2>3
<1>6. PICK log, acc2 : log = acc.emissions /\ acc2 = AfterMessage(acc, m)
  OBVIOUS
<1>7. log \in Seq(EmissionSet)
  BY <1>6 DEF AccSet
<1>8. /\ EventFees(Append(log, m)) = EventFees(log)
      /\ MessageFees(Append(log, m)) = MessageFees(log) + CostSum(fee)
      /\ MessageReceipts(Append(log, m)) = MessageReceipts(log) + CostSum(receipt)
      /\ MessageValues(Append(log, m)) = MessageValues(log) + value
  <2>1. /\ EventFees(Append(log, m)) = EventFees(log) + (IF m.kind = "event" THEN m.fee ELSE 0)
        /\ EventFees(log) \in Int
        /\ MessageFees(Append(log, m)) = MessageFees(log) + (IF m.kind = "message" THEN m.fee ELSE 0)
        /\ MessageReceipts(Append(log, m))
             = MessageReceipts(log) + (IF m.kind = "message" THEN m.receipt ELSE 0)
        /\ MessageValues(Append(log, m)) = MessageValues(log) + m.value
    BY ONLY <1>5, <1>7, LogAppend
  <2>2. /\ m.kind = "message" /\ m.kind # "event" /\ m.fee = CostSum(fee)
        /\ m.receipt = CostSum(receipt) /\ m.value = value
    BY <1>5
  <2> QED BY ONLY <2>1, <2>2
<1>9. \A k \in DOMAIN NodeBudgets : acc2.nodes[k] + NodeFees(Append(log, m), k) = NodeBudgets[k]
  <2> TAKE k \in DOMAIN NodeBudgets
  <2>1. NodeFees(Append(log, m), k) = NodeFees(log, k) + (IF m.node = k THEN m.fee ELSE 0)
        /\ NodeFees(log, k) \in Int
    BY <1>5, <1>7, LogAppend
  <2>2. acc.nodes[k] + NodeFees(log, k) = NodeBudgets[k] /\ k \in DOMAIN acc.nodes
    BY <1>6 DEF Accounts
  <2>3. acc.nodes \in Seq(Nat)
    BY DEF AccSet
  <2>4. acc.nodes[k] \in Nat
    BY <2>2, <2>3
  <2>5. acc2.nodes[k] = IF k = node THEN acc.nodes[k] - CostSum(fee) ELSE acc.nodes[k]
    BY <1>5, <1>6, <2>2, <2>3
  <2>6. PICK a \in Int, n \in Int, f \in Int :
          a = acc.nodes[k] /\ n = NodeFees(log, k) /\ f = CostSum(fee)
    <3>1. acc.nodes[k] \in Int /\ NodeFees(log, k) \in Int /\ CostSum(fee) \in Int
      BY <1>1, <2>1, <2>4
    <3> QED BY <3>1, Zenon
  <2>7. CASE k = node
    <3>1. acc2.nodes[k] = a - f /\ NodeFees(Append(log, m), k) = n + f
      BY <1>5, <2>1, <2>5, <2>6, <2>7
    <3>2. (a - f) + (n + f) = a + n
      BY ONLY a \in Int, n \in Int, f \in Int
    <3> QED BY <2>2, <2>6, <3>1, <3>2
  <2>8. CASE k # node
    <3>1. acc2.nodes[k] = a /\ NodeFees(Append(log, m), k) = n
      BY <1>5, <2>1, <2>5, <2>6, <2>8
    <3> QED BY <2>2, <2>6, <3>1
  <2> QED BY <2>7, <2>8
<1>10. DOMAIN acc2.nodes = DOMAIN NodeBudgets
  BY <1>5, <1>6 DEF Accounts, AccSet
<1>11. acc2.emissions = Append(log, m) /\ acc2.decremented = acc.decremented + value
  BY <1>5, <1>6
<1>12. acc2.decremented = MessageValues(Append(log, m)) /\ acc2.decremented <= Balance
  BY <1>4, <1>6, <1>8, <1>11 DEF Accounts
<1>13. Charged("message_fee")' = MessageFees(Append(log, m))
       /\ Charged("message_receipt")' = MessageReceipts(Append(log, m))
  BY <1>1, <1>2, <1>6, <1>8 DEF Accounts
<1>14. Charged("event")' = EventFees(Append(log, m))
       /\ \A cost \in Costs["storage"] : Charged("storage")' = CostSum(cost) * Cardinality(pages)
       /\ IsFiniteSet(pages)
  BY <1>3, <1>6, <1>8 DEF Accounts
<1>15. Accounts(acc2, pages)'
  BY <1>9, <1>10, <1>11, <1>12, <1>13, <1>14 DEF Accounts
<1> QED BY <1>5, <1>6, <1>15

-----------------------------------------------------------------------------
(* The steps.                                                              *)

LEMMA FeesUnchanged == ASSUME FeesInv, UNCHANGED feeVars PROVE FeesInv'
BY DEF FeesInv, feeVars, FeesTypeOK, IsByCategory, AccountsBalance, ConsumedFrom, Deduction

LEMMA RestKeeps ==
    ASSUME RunInv, stack # <<>>, stack' # <<>>, UNCHANGED <<code, written, result, charging>>
    PROVE  RunInv' /\ PrepInv'
BY DEF RunInv, PrepInv, ChargingDone

(* A VM that may send or write is the holder.                              *)
LEMMA AllowedIsHolder ==
    ASSUME StackInv, NEW d \in Nat, d = Len(stack), NEW perm \in {"send", "write"}, Allowed(perm)
    PROVE  stack # <<>> /\ IsHolder(d) /\ ~Inner(d)
<1>1. stack # <<>> /\ Top.det /\ perm \in Top.perms
  BY DEF Allowed, Running, Depth
<1>2. Len(stack) >= 1 /\ Top = stack[d]
  BY <1>1, StackType
<1>3. ~Inner(d)
  <2> SUFFICES ASSUME Inner(d) PROVE FALSE
    OBVIOUS
  <2>1. Quiet(stack[d])
    BY <1>2 DEF StackInv
  <2> QED BY <1>1, <1>2, <2>1 DEF Quiet
<1> QED BY <1>1, <1>2, <1>3 DEF IsHolder

(* The top changes and its fees are charged: what is left to show.         *)
LEMMA TopStep ==
    ASSUME IInv, FeesInv', NEW d \in Nat, d = Len(stack), Running, NEW vm \in VmSet, SetTop(vm),
           SameConfig(vm, Top), UNCHANGED <<code, written, result, charging>>,
           Inner(d) => NoEffects(vm.acc),
           \/ vm.acc = Top.acc /\ vm.pages = Top.pages /\ \A c \in Reported : consumed'[c] = consumed[c]
           \/ ~Inner(d) /\ Accounts(vm.acc, vm.pages)' /\ Extends(Top, vm)
    PROVE  IInv' /\ Kept
<1>0. stack # <<>> /\ stack \in Seq(VmSet) /\ StackInv
  BY DEF Running, Depth, IInv, StackInv
<1>1. d >= 1 /\ Top = stack[d] /\ Top.end = "running"
  BY <1>0, StackType DEF Running
<1>2. ~(Len(stack) > VmRecursion)
  BY <1>0, <1>1 DEF StackInv
<1>3. /\ StackInv' /\ stack' # <<>>
      /\ \A h : IsHolder(h)' <=> IsHolder(h)
      /\ Len(stack') = d /\ stack'[d] = vm
      /\ \A n \in 1 .. d - 1 : stack'[n] = stack[n]
  BY <1>0, <1>2, SetTopKeeps
<1>4. RunInv' /\ PrepInv'
  BY <1>0, <1>3, RestKeeps DEF IInv
<1>5. ASSUME NEW h, IsHolder(h)' PROVE Accounts(stack[h].acc, stack[h].pages)'
  <2>1. IsHolder(h) /\ h \in 1 .. d
    BY <1>3, <1>5 DEF IsHolder
  <2>2. PICK acc, pages : acc = stack[h].acc /\ pages = stack[h].pages
    OBVIOUS
  <2>3. Accounts(acc, pages)
    BY <2>1, <2>2 DEF IInv, HolderInv
  <2>4. CASE vm.acc = Top.acc /\ vm.pages = Top.pages /\ \A c \in Reported : consumed'[c] = consumed[c]
    <3>1. Accounts(acc, pages)'
      BY <2>3, <2>4, AccountsKept
    <3>2. stack'[h].acc = acc /\ stack'[h].pages = pages
      BY <1>1, <1>3, <2>1, <2>2, <2>4
    <3> QED BY ONLY <3>1, <3>2, AccountsNext
  <2>5. CASE ~Inner(d) /\ Accounts(vm.acc, vm.pages)'
    <3>1. IsHolder(d)
      BY <1>1, <2>5 DEF IsHolder
    <3>2. h = d
      BY <1>0, <2>1, <3>1, HolderUnique
    <3>3. PICK acc2, pages2 : acc2 = vm.acc /\ pages2 = vm.pages
      OBVIOUS
    <3>4. Accounts(acc2, pages2)' /\ stack'[h].acc = acc2 /\ stack'[h].pages = pages2
      BY <1>3, <2>5, <3>2, <3>3
    <3> QED BY ONLY <3>4, AccountsNext
  <2> QED BY <2>4, <2>5
<1>6. HolderInv'
  BY <1>5 DEF HolderInv
<1>7. ASSUME NEW h, NEW g, IsHolder(h), IsHolder(g)' PROVE Extends(stack[h], stack'[g])
  <2>1. IsHolder(g) /\ h \in 1 .. d
    BY <1>3, <1>7 DEF IsHolder
  <2>2. g = h /\ stack[h] \in VmSet
    BY <1>0, <1>7, <2>1, HolderUnique
  <2>3. CASE h = d
    <3>1. Extends(Top, vm)
      <4>1. CASE vm.acc = Top.acc /\ vm.pages = Top.pages
        BY <1>1, <2>2, <2>3, <4>1, ExtendsSame
      <4> QED BY <4>1
    <3> QED BY <1>1, <1>3, <2>2, <2>3, <3>1
  <2>4. CASE h # d
    <3>1. stack'[h] = stack[h]
      BY <1>1, <1>3, <2>1, <2>4
    <3> QED BY <2>2, <3>1, ExtendsSame
  <2> QED BY <2>3, <2>4
<1>8. Kept
  BY <1>7 DEF Kept
<1> QED BY <1>3, <1>4, <1>6, <1>8 DEF IInv

(* The top changes; the fees and the rest do not.                          *)
LEMMA TopOnly ==
    ASSUME IInv, Running, NEW vm \in VmSet, SetTop(vm), SameConfig(vm, Top),
           vm.acc = Top.acc, vm.pages = Top.pages, UNCHANGED <<code, written, result, feeVars>>
    PROVE  IInv' /\ Kept
<1>1. PICK d : d = Len(stack)
  OBVIOUS
<1>2. stack # <<>> /\ StackInv /\ FeesInv
  BY DEF Running, Depth, IInv
<1>3. d \in Nat /\ d >= 1 /\ Top = stack[d]
  BY <1>1, <1>2, StackType
<1>4. Inner(d) => NoEffects(vm.acc)
  BY <1>1, <1>2, <1>3 DEF StackInv, Quiet
<1>5. FeesInv'
  BY <1>2, FeesUnchanged
<1>6. UNCHANGED <<code, written, result, charging>> /\ \A c \in Reported : consumed'[c] = consumed[c]
  BY DEF feeVars
<1> QED BY <1>1, <1>3, <1>4, <1>5, <1>6, TopStep

LEMMA Ending ==
    ASSUME StackInv, Running, NEW end \in {"running", "return", "user_error", "vm_error"},
           NEW vm, vm = [Top EXCEPT !.end = end]
    PROVE  /\ vm \in VmSet /\ SameConfig(vm, Top) /\ vm.acc = Top.acc /\ vm.pages = Top.pages
           /\ vm.end = end
<1>1. Top \in VmSet
  BY StackType DEF Running, Depth
<1> QED BY <1>1 DEF VmSet, SameConfig

LEMMA OomTrapKeeps ==
    ASSUME IInv, Running, OomTrap, UNCHANGED <<runVars, totals, charging>>
    PROVE  IInv' /\ Kept
<1>1. PICK vm : vm = [Top EXCEPT !.end = "vm_error"]
  OBVIOUS
<1>2. /\ vm \in VmSet /\ SameConfig(vm, Top) /\ vm.acc = Top.acc /\ vm.pages = Top.pages
      /\ SetTop(vm)
  BY <1>1, Ending DEF IInv, OomTrap, Trap
<1>3. UNCHANGED <<code, written, result, feeVars>>
  BY DEF OomTrap, runVars, feeVars
<1> QED BY <1>2, <1>3, TopOnly

LEMMA EndVmKeeps == ASSUME IInv, EndVm PROVE IInv' /\ Kept
<1>1. PICK end \in {"return", "user_error", "vm_error"} : SetTop([Top EXCEPT !.end = end])
  BY DEF EndVm
<1>2. PICK vm : vm = [Top EXCEPT !.end = end]
  OBVIOUS
<1>3. Running /\ UNCHANGED <<code, written, result, feeVars>>
  BY DEF EndVm, runVars
<1>4. /\ vm \in VmSet /\ SameConfig(vm, Top) /\ vm.acc = Top.acc /\ vm.pages = Top.pages
      /\ SetTop(vm)
  BY <1>1, <1>2, <1>3, Ending DEF IInv
<1> QED BY <1>3, <1>4, TopOnly

LEMMA ChargingKept ==
    ASSUME FeesInv, UNCHANGED <<totals, charging>>
    PROVE  totals' = totals /\ charging' \in 0 .. Len(InitialOrder) + 1
BY DEF FeesInv, FeesTypeOK

LEMMA EmitEventKeeps == ASSUME IInv, EmitEvent PROVE IInv' /\ Kept
<1>0. StackInv /\ FeesInv /\ Running /\ Allowed("write") /\ UNCHANGED <<runVars, totals, charging>>
  BY DEF EmitEvent, Allowed, IInv
<1>1. PICK d : d = Len(stack)
  OBVIOUS
<1>2. d \in Nat /\ d >= 1 /\ Top = stack[d] /\ Top \in VmSet /\ stack # <<>>
  BY <1>0, <1>1, StackType DEF Running, Depth
<1>3. IsHolder(d) /\ ~Inner(d)
  BY <1>0, <1>1, <1>2, AllowedIsHolder
<1>4. PICK costs \in Costs["event"] :
        \/ ~RawFits("event", costs) /\ OomTrap
        \/ /\ ConsumeBucketRaw("event", costs)
           /\ SetTop([Top EXCEPT !.acc.emissions = Append(@,
                [kind |-> "event", node |-> 0, value |-> 0, fee |-> CostSum(costs), receipt |-> 0])])
  BY DEF EmitEvent
<1>5. CASE OomTrap
  BY <1>0, <1>5, OomTrapKeeps
<1>6. CASE /\ ConsumeBucketRaw("event", costs)
           /\ SetTop([Top EXCEPT !.acc.emissions = Append(@,
                [kind |-> "event", node |-> 0, value |-> 0, fee |-> CostSum(costs), receipt |-> 0])])
  <2>1. "event" \in Categories /\ costs \in CostVecs("event")
    BY FeesAssumption DEF Categories
  <2>2. FeesInv'
    BY <1>0, <1>6, <2>1, ChargingKept, RawKeeps
  <2>3. /\ consumed'["event"] = [i \in Entries("event") |-> consumed["event"][i] + costs[i]]
        /\ \A c \in Categories \ {"event"} : consumed'[c] = consumed[c]
    BY <1>0, <1>6, <2>1, RawConsumes
  <2>4. PICK acc, pages, e : /\ acc = Top.acc /\ pages = Top.pages
          /\ e = [kind |-> "event", node |-> 0, value |-> 0, fee |-> CostSum(costs), receipt |-> 0]
    OBVIOUS
  <2>5. PICK vm : vm = [Top EXCEPT !.acc = [acc EXCEPT !.emissions = Append(@, e)]]
    OBVIOUS
  <2>6. SetTop(vm)
    BY ONLY <1>6, <2>4, <2>5
  <2>7. CostSum(costs) \in Nat
    BY <2>1, CostSumAdds
  <2>8. acc \in AccSet /\ e \in EmissionSet
    BY <1>2, <2>4, <2>7 DEF VmSet, EmissionSet
  <2>9. /\ vm.acc.emissions = Append(acc.emissions, e) /\ vm.acc.nodes = acc.nodes
        /\ vm.acc.decremented = acc.decremented /\ vm.pages = pages
        /\ vm.acc \in AccSet /\ vm \in VmSet /\ SameConfig(vm, Top)
    <3>1. PICK acc2 : acc2 = [acc EXCEPT !.emissions = Append(@, e)]
      OBVIOUS
    <3>2. /\ acc2 \in AccSet /\ acc2.emissions = Append(acc.emissions, e) /\ acc2.nodes = acc.nodes
          /\ acc2.decremented = acc.decremented
      BY <2>8, <3>1, SMTT(60) DEF AccSet
    <3>3. vm = [Top EXCEPT !.acc = acc2]
      BY <2>5, <3>1
    <3>4. vm.acc = acc2 /\ vm \in VmSet /\ SameConfig(vm, Top) /\ vm.pages = pages
      BY <1>2, <2>4, <3>2, <3>3 DEF VmSet, SameConfig
    <3> QED BY <3>2, <3>4
  <2>10. Accounts(acc, pages)
    BY <1>2, <1>3, <2>4 DEF IInv, HolderInv
  <2>11. PICK acc2 : acc2 = vm.acc
    OBVIOUS
  <2>12. Accounts(acc2, pages)'
    <3>1. e.kind = "event" /\ e.node = 0 /\ e.value = 0 /\ e.fee = CostSum(costs)
      BY <2>4
    <3>2. acc2.emissions = Append(acc.emissions, e) /\ acc2.nodes = acc.nodes
          /\ acc2.decremented = acc.decremented
      BY <2>9, <2>11
    <3> QED BY <1>0, <2>1, <2>3, <2>8, <2>10, <3>1, <3>2, AccountsEvent
  <2>13. Accounts(vm.acc, vm.pages)' /\ Extends(Top, vm)
    <3>1. acc.emissions \in Seq(EmissionSet)
      BY <2>8 DEF AccSet
    <3>2. IsPrefix(acc.emissions, Append(acc.emissions, e))
      BY <2>8, <3>1, PrefixAppend
    <3> QED BY <2>4, <2>9, <2>11, <2>12, <3>2 DEF Extends
  <2>14. UNCHANGED <<code, written, result, charging>>
    BY <1>0 DEF runVars
  <2> QED BY <1>0, <1>1, <1>2, <1>3, <2>2, <2>6, <2>9, <2>13, <2>14, TopStep
<1> QED BY <1>4, <1>5, <1>6

LEMMA StorageWriteKeeps == ASSUME IInv, StorageWrite PROVE IInv' /\ Kept
<1>0. StackInv /\ FeesInv /\ Running /\ Allowed("write") /\ UNCHANGED <<runVars, totals, charging>>
  BY DEF StorageWrite, Allowed, IInv
<1>1. PICK d : d = Len(stack)
  OBVIOUS
<1>2. d \in Nat /\ d >= 1 /\ Top = stack[d] /\ Top \in VmSet /\ stack # <<>>
  BY <1>0, <1>1, StackType DEF Running, Depth
<1>3. IsHolder(d) /\ ~Inner(d)
  BY <1>0, <1>1, <1>2, AllowedIsHolder
<1>4. PICK page \in PageIds \ Top.pages, costs \in Costs["storage"] :
        \/ ~RawFits("storage", costs) /\ OomTrap
        \/ /\ ConsumeBucketRaw("storage", costs)
           /\ SetTop([Top EXCEPT !.pages = @ \cup {page}])
  BY DEF StorageWrite
<1>5. CASE OomTrap
  BY <1>0, <1>5, OomTrapKeeps
<1>6. CASE /\ ConsumeBucketRaw("storage", costs)
           /\ SetTop([Top EXCEPT !.pages = @ \cup {page}])
  <2>1. "storage" \in Categories /\ costs \in CostVecs("storage")
    BY FeesAssumption DEF Categories
  <2>2. FeesInv'
    BY <1>0, <1>6, <2>1, ChargingKept, RawKeeps
  <2>3. /\ consumed'["storage"] = [i \in Entries("storage") |-> consumed["storage"][i] + costs[i]]
        /\ \A c \in Categories \ {"storage"} : consumed'[c] = consumed[c]
    BY <1>0, <1>6, <2>1, RawConsumes
  <2>4. PICK acc, pages, vm : /\ acc = Top.acc /\ pages = Top.pages
                              /\ vm = [Top EXCEPT !.pages = @ \cup {page}]
    OBVIOUS
  <2>5. /\ vm.acc = acc /\ vm.pages = pages \cup {page} /\ vm \in VmSet /\ SameConfig(vm, Top)
        /\ SetTop(vm) /\ page \notin pages
    BY <1>2, <1>4, <1>6, <2>4 DEF VmSet, SameConfig
  <2>6. Accounts(acc, pages)
    BY <1>2, <1>3, <2>4 DEF IInv, HolderInv
  <2>7. Accounts(acc, pages \cup {page})'
    BY <1>0, <2>3, <2>5, <2>6, AccountsPage
  <2>8. Accounts(vm.acc, vm.pages)' /\ Extends(Top, vm)
    <3>1. acc.emissions \in Seq(EmissionSet)
      BY <1>2, <2>4 DEF VmSet, AccSet
    <3>2. Len(acc.emissions) <= Len(acc.emissions)
      BY <3>1
    <3> QED BY <2>4, <2>5, <2>7, <3>2 DEF Extends, IsPrefix
  <2>9. UNCHANGED <<code, written, result, charging>>
    BY <1>0 DEF runVars
  <2> QED BY <1>0, <1>1, <1>2, <1>3, <2>2, <2>5, <2>8, <2>9, TopStep
<1> QED BY <1>4, <1>5, <1>6

LEMMA SendMessageKeeps == ASSUME IInv, SendMessage PROVE IInv' /\ Kept
<1>0. StackInv /\ FeesInv /\ Running /\ Allowed("send") /\ UNCHANGED <<runVars, totals, charging>>
  BY DEF SendMessage, Allowed, IInv
<1>1. PICK d : d = Len(stack)
  OBVIOUS
<1>2. d \in Nat /\ d >= 1 /\ Top = stack[d] /\ Top \in VmSet /\ stack # <<>>
  BY <1>0, <1>1, StackType DEF Running, Depth
<1>3. IsHolder(d) /\ ~Inner(d)
  BY <1>0, <1>1, <1>2, AllowedIsHolder
<1>4. \/ OomTrap
      \/ \E node \in DOMAIN Top.acc.nodes, value \in Values :
          \E fee \in Costs["message_fee"], receipt \in Costs["message_receipt"] :
            /\ HasBalance(Top.acc, value)
            /\ CostSum(fee) <= Top.acc.nodes[node]
            /\ ConsumeMessageFee(fee, receipt)
            /\ SetTop([Top EXCEPT !.acc = AfterMessage(@,
                   Message(node, value, CostSum(fee), CostSum(receipt)))])
  BY DEF SendMessage
<1>5. CASE OomTrap
  BY <1>0, <1>5, OomTrapKeeps
<1>6. CASE \E node \in DOMAIN Top.acc.nodes, value \in Values :
           \E fee \in Costs["message_fee"], receipt \in Costs["message_receipt"] :
            /\ HasBalance(Top.acc, value)
            /\ CostSum(fee) <= Top.acc.nodes[node]
            /\ ConsumeMessageFee(fee, receipt)
            /\ SetTop([Top EXCEPT !.acc = AfterMessage(@,
                   Message(node, value, CostSum(fee), CostSum(receipt)))])
  <2>0. PICK node \in DOMAIN Top.acc.nodes, value \in Values,
             fee \in Costs["message_fee"], receipt \in Costs["message_receipt"] :
            /\ HasBalance(Top.acc, value)
            /\ CostSum(fee) <= Top.acc.nodes[node]
            /\ ConsumeMessageFee(fee, receipt)
            /\ SetTop([Top EXCEPT !.acc = AfterMessage(@,
                   Message(node, value, CostSum(fee), CostSum(receipt)))])
    BY <1>6, Zenon
  <2>1. fee \in CostVecs("message_fee") /\ receipt \in CostVecs("message_receipt")
    BY FeesAssumption DEF Categories
  <2>2. FeesInv'
    BY <1>0, <2>0, <2>1, ChargingKept, MessageKeeps
  <2>3. /\ consumed'["message_fee"]
             = [i \in Entries("message_fee") |-> consumed["message_fee"][i] + fee[i]]
        /\ consumed'["message_receipt"]
             = [i \in Entries("message_receipt") |-> consumed["message_receipt"][i] + receipt[i]]
        /\ \A c \in Categories \ {"message_fee", "message_receipt"} : consumed'[c] = consumed[c]
    BY <1>0, <2>0, <2>1, MessageConsumes
  <2>4. PICK acc, pages, m : /\ acc = Top.acc /\ pages = Top.pages
                             /\ m = Message(node, value, CostSum(fee), CostSum(receipt))
    OBVIOUS
  <2>5. PICK acc2, vm : acc2 = AfterMessage(acc, m) /\ vm = [Top EXCEPT !.acc = acc2]
    OBVIOUS
  <2>6. SetTop(vm)
    BY ONLY <2>0, <2>4, <2>5
  <2>7. acc \in AccSet /\ Accounts(acc, pages)
    BY <1>2, <1>3, <2>4 DEF VmSet, IInv, HolderInv
  <2>8. Accounts(AfterMessage(acc, m), pages)' /\ AfterMessage(acc, m) \in AccSet
    <3>1. node \in DOMAIN acc.nodes /\ HasBalance(acc, value) /\ CostSum(fee) <= acc.nodes[node]
      BY <2>0, <2>4
    <3> QED BY ONLY <1>0, <2>1, <2>3, <2>4, <2>7, <3>1, value \in Values, AccountsMessage
  <2>9. vm.acc = acc2 /\ vm.pages = pages /\ vm \in VmSet /\ SameConfig(vm, Top)
    BY <1>2, <2>4, <2>5, <2>8 DEF VmSet, SameConfig
  <2>10. Accounts(vm.acc, vm.pages)' /\ Extends(Top, vm)
    <3>1. acc.emissions \in Seq(EmissionSet) /\ vm.acc.emissions \in Seq(EmissionSet)
      BY <2>5, <2>7, <2>8, <2>9 DEF AccSet
    <3>2. acc2.emissions = Append(acc.emissions, m)
      BY <2>5, <2>7 DEF AfterMessage, AccSet
    <3>3. m \in EmissionSet
      <4>1. node \in Nat /\ value \in Nat
        BY <2>0, <2>4, <2>7, EffectsAssumption DEF AccSet
      <4>2. CostSum(fee) \in Nat /\ CostSum(receipt) \in Nat
        BY <2>1, CostSumAdds DEF Categories
      <4> QED BY <2>4, <4>1, <4>2 DEF Message, EmissionSet
    <3>4. IsPrefix(acc.emissions, Append(acc.emissions, m))
      BY <3>1, <3>3, PrefixAppend
    <3> QED BY <2>4, <2>5, <2>8, <2>9, <3>2, <3>4 DEF Extends
  <2>11. UNCHANGED <<code, written, result, charging>>
    BY <1>0 DEF runVars
  <2> QED BY <1>0, <1>1, <1>2, <1>3, <2>2, <2>6, <2>9, <2>10, <2>11, TopStep
<1> QED BY <1>4, <1>5, <1>6

(* A sub-VM is started: the accounts stay with the parent, or go with a    *)
(* sandbox.                                                                *)
LEMMA PushStep ==
    ASSUME IInv, Running, NEW parent \in VmSet, NEW child \in VmSet, Push(parent, child),
           SameConfig(parent, Top), parent.end = "running", Link(parent, child),
           NEW d \in Nat, d = Len(stack),
           Inner(d) => NoEffects(parent.acc), Inner(d) \/ child.kind # "sandbox" => Quiet(child),
           UNCHANGED <<runVars, feeVars>>,
           \/ child.kind # "sandbox" /\ parent.acc = Top.acc /\ parent.pages = Top.pages
           \/ child.kind = "sandbox" /\ child.acc = Top.acc /\ child.pages = Top.pages
    PROVE  IInv' /\ Kept
<1>0. stack # <<>> /\ StackInv /\ FeesInv /\ RunInv /\ stack \in Seq(VmSet)
  BY DEF Running, Depth, IInv, StackInv
<1>1. d >= 1 /\ Top = stack[d]
  BY <1>0, StackType
<1>2. /\ StackInv' /\ stack' # <<>>
      /\ stack'[d] = parent
      /\ stack'[d + 1].acc = child.acc /\ stack'[d + 1].pages = child.pages
      /\ \A n \in 1 .. d - 1 : stack'[n] = stack[n]
      /\ \A h \in 1 .. d : IsHolder(h)' => IsHolder(h)
      /\ \A h : IsHolder(h)' => h \in 1 .. d + 1
      /\ IsHolder(d + 1)' => ~Inner(d) /\ child.kind = "sandbox"
      /\ child.kind = "sandbox" => ~IsHolder(d)'
  BY <1>0, PushKeeps
<1>3. UNCHANGED <<code, written, result, charging>> /\ \A c \in Reported : consumed'[c] = consumed[c]
  BY DEF feeVars, runVars
<1>4. RunInv' /\ PrepInv' /\ FeesInv'
  BY <1>0, <1>2, <1>3, RestKeeps, FeesUnchanged
<1>5. ASSUME NEW h, IsHolder(h)'
      PROVE  \E g : IsHolder(g) /\ stack'[h].acc = stack[g].acc /\ stack'[h].pages = stack[g].pages
  <2>1. CASE h = d + 1
    <3>1. IsHolder(d)
      BY <1>1, <1>2, <1>5, <2>1 DEF IsHolder
    <3> QED BY <1>1, <1>2, <1>5, <2>1, <3>1
  <2>2. CASE h = d
    <3>1. IsHolder(d) /\ child.kind # "sandbox"
      BY <1>1, <1>2, <1>5, <2>2
    <3> QED BY <1>1, <1>2, <2>2, <3>1
  <2>3. CASE h \in 1 .. d - 1
    <3>1. IsHolder(h) /\ stack'[h] = stack[h]
      BY <1>1, <1>2, <1>5, <2>3
    <3> QED BY <3>1
  <2> QED BY <1>1, <1>2, <1>5, <2>1, <2>2, <2>3
<1>5a. ASSUME NEW h, IsHolder(h)' PROVE Accounts(stack[h].acc, stack[h].pages)'
  <2>1. PICK g : /\ IsHolder(g) /\ stack'[h].acc = stack[g].acc /\ stack'[h].pages = stack[g].pages
    BY <1>5, <1>5a
  <2>2. PICK acc, pages : acc = stack[g].acc /\ pages = stack[g].pages
    OBVIOUS
  <2>3. Accounts(acc, pages)
    BY <2>1, <2>2 DEF IInv, HolderInv
  <2>4. Accounts(acc, pages)'
    BY <1>3, <2>3, AccountsKept
  <2> QED BY <2>1, <2>2, <2>4, AccountsNext
<1>6. HolderInv'
  BY <1>5a DEF HolderInv
<1>7. Kept
  <2> SUFFICES ASSUME NEW h, NEW g, IsHolder(h), IsHolder(g)' PROVE Extends(stack[h], stack'[g])
    BY DEF Kept
  <2>1. PICK f : IsHolder(f) /\ stack'[g].acc = stack[f].acc /\ stack'[g].pages = stack[f].pages
    BY <1>5
  <2>2. f = h
    BY <1>0, <2>1, HolderUnique
  <2>3. stack[h] \in VmSet
    BY <1>0 DEF IsHolder
  <2> QED BY <2>1, <2>2, <2>3, ExtendsSame
<1> QED BY <1>2, <1>4, <1>6, <1>7 DEF IInv

(* What holds of the running VM, whichever sub-VM it starts.               *)
LEMMA RunningVm ==
    ASSUME IInv, Running, NEW d, d = Len(stack)
    PROVE  /\ d \in Nat /\ Top \in VmSet /\ Top.acc \in AccSet /\ Top.end = "running"
           /\ SameConfig(Top, Top)
           /\ Inner(d) => Quiet(Top) /\ NoEffects(Top.acc)
<1>1. stack # <<>> /\ StackInv
  BY DEF Running, Depth, IInv
<1>2. d \in Nat /\ d >= 1 /\ Top = stack[d] /\ Top \in VmSet
  BY <1>1, StackType
<1>3. Inner(d) => Quiet(Top) /\ NoEffects(Top.acc)
  BY <1>1, <1>2 DEF StackInv, Quiet
<1> QED BY <1>2, <1>3 DEF VmSet, Running, SameConfig

LEMMA CallContractKeeps == ASSUME IInv, CallContract PROVE IInv' /\ Kept
<1>0. /\ Running /\ UNCHANGED <<runVars, feeVars>>
      /\ Push(Top, Vm("call", TRUE, CallPerms(Top), FALSE, EmptyAcc(Top.acc.decremented), {}))
      /\ Top.det
  BY DEF CallContract, Allowed
<1>1. PICK d, parent, child :
        /\ d = Len(stack) /\ parent = Top
        /\ child = Vm("call", TRUE, CallPerms(Top), FALSE, EmptyAcc(Top.acc.decremented), {})
  OBVIOUS
<1>2. /\ d \in Nat /\ parent \in VmSet /\ parent.acc \in AccSet /\ parent.end = "running"
      /\ SameConfig(parent, Top) /\ (Inner(d) => Quiet(parent) /\ NoEffects(parent.acc)) /\ parent.det
  BY <1>0, <1>1, RunningVm
<1>3. /\ child.kind = "call" /\ child.det = TRUE /\ child.perms = parent.perms \cap {"call", "nondet"}
      /\ child.main = FALSE /\ child.acc = EmptyAcc(parent.acc.decremented) /\ child.pages = {}
      /\ child.end = "running"
  BY <1>1 DEF Vm, CallPerms
<1>4. EmptyAcc(parent.acc.decremented) \in AccSet /\ NoEffects(EmptyAcc(parent.acc.decremented))
  BY <1>2 DEF EmptyAcc, AccSet, NoEffects
<1>5. child \in VmSet
  <2>1. CallPerms(Top) \in SUBSET AllPerms
    BY <1>1, <1>2 DEF CallPerms, VmSet
  <2> QED BY <1>1, <1>4, <2>1 DEF Vm, VmSet
<1>6. Link(parent, child) /\ Quiet(child)
  BY <1>2, <1>3, <1>4 DEF Link, Quiet
<1>7. Push(parent, child)
  BY <1>0, <1>1
<1>8. child.kind # "sandbox" /\ parent.acc = Top.acc /\ parent.pages = Top.pages
  BY <1>1, <1>3
<1> QED BY <1>0, <1>1, <1>2, <1>5, <1>6, <1>7, <1>8, PushStep

LEMMA RunNondetKeeps == ASSUME IInv, RunNondet PROVE IInv' /\ Kept
<1>0. /\ Running /\ UNCHANGED <<runVars, feeVars>>
      /\ Push(Top, Vm("nondet", FALSE, {}, TRUE, EmptyAcc(Top.acc.decremented), Top.pages))
  BY DEF RunNondet, Allowed
<1>1. PICK d, parent, child :
        /\ d = Len(stack) /\ parent = Top
        /\ child = Vm("nondet", FALSE, {}, TRUE, EmptyAcc(Top.acc.decremented), Top.pages)
  OBVIOUS
<1>2. /\ d \in Nat /\ parent \in VmSet /\ parent.acc \in AccSet /\ parent.end = "running"
      /\ SameConfig(parent, Top) /\ (Inner(d) => Quiet(parent) /\ NoEffects(parent.acc))
  BY <1>0, <1>1, RunningVm
<1>3. /\ child.kind = "nondet" /\ child.det = FALSE /\ child.perms = {}
      /\ child.main = TRUE /\ child.acc = EmptyAcc(parent.acc.decremented)
      /\ child.pages = parent.pages /\ child.end = "running"
  BY <1>1 DEF Vm
<1>4. EmptyAcc(parent.acc.decremented) \in AccSet /\ NoEffects(EmptyAcc(parent.acc.decremented))
  BY <1>2 DEF EmptyAcc, AccSet, NoEffects
<1>5. child \in VmSet
  <2>1. Top.pages \in SUBSET PageIds
    BY <1>1, <1>2 DEF VmSet
  <2> QED BY <1>1, <1>4, <2>1 DEF Vm, VmSet
<1>6. Link(parent, child) /\ Quiet(child)
  BY <1>2, <1>3, <1>4 DEF Link, Quiet
<1>7. Push(parent, child)
  BY <1>0, <1>1
<1>8. child.kind # "sandbox" /\ parent.acc = Top.acc /\ parent.pages = Top.pages
  BY <1>1, <1>3
<1> QED BY <1>0, <1>1, <1>2, <1>5, <1>6, <1>7, <1>8, PushStep

LEMMA SandboxKeeps == ASSUME IInv, Sandbox PROVE IInv' /\ Kept
<1>0. PICK given \in SUBSET {"write", "send"} :
        Push([Top EXCEPT !.acc = EmptyAcc(U256Max)],
             Vm("sandbox", Top.det, Top.perms \cap given, Top.main, Top.acc, Top.pages))
  BY DEF Sandbox
<1>1. Running /\ UNCHANGED <<runVars, feeVars>>
  BY DEF Sandbox
<1>2. PICK d, parent, child :
        /\ d = Len(stack) /\ parent = [Top EXCEPT !.acc = EmptyAcc(U256Max)]
        /\ child = Vm("sandbox", Top.det, Top.perms \cap given, Top.main, Top.acc, Top.pages)
  OBVIOUS
<1>3. /\ d \in Nat /\ Top \in VmSet /\ Top.acc \in AccSet /\ Top.end = "running"
      /\ Inner(d) => Quiet(Top) /\ NoEffects(Top.acc)
  BY <1>1, <1>2, RunningVm
<1>4. /\ child.kind = "sandbox" /\ child.det = Top.det /\ child.perms = Top.perms \cap given
      /\ child.main = Top.main /\ child.acc = Top.acc
      /\ child.pages = Top.pages /\ child.end = "running"
  BY <1>2 DEF Vm
<1>5. EmptyAcc(U256Max) \in AccSet /\ NoEffects(EmptyAcc(U256Max))
  BY EffectsAssumption DEF EmptyAcc, AccSet, NoEffects
<1>6. child \in VmSet
  <2>1. /\ Top.det \in BOOLEAN /\ Top.perms \cap given \in SUBSET AllPerms /\ Top.main \in BOOLEAN
        /\ Top.pages \in SUBSET PageIds
    BY <1>3 DEF VmSet
  <2> QED BY <1>2, <1>3, <2>1 DEF Vm, VmSet
<1>7. /\ parent \in VmSet /\ SameConfig(parent, Top) /\ parent.end = "running"
      /\ parent.acc = EmptyAcc(U256Max)
  BY <1>2, <1>3, <1>5 DEF VmSet, SameConfig
<1>8. Link(parent, child)
  BY <1>4, <1>5, <1>7 DEF Link, SameConfig
<1>9. Inner(d) \/ child.kind # "sandbox" => Quiet(child)
  BY <1>3, <1>4 DEF Quiet
<1>10. Push(parent, child)
  BY <1>0, <1>2
<1> QED BY <1>1, <1>2, <1>3, <1>4, <1>5, <1>6, <1>7, <1>8, <1>9, <1>10, PushStep

(* The VM that ended was started by another, which is running.             *)
LEMMA EndedVm ==
    ASSUME IInv, NEW kind \in {"call", "sandbox", "nondet"}, Ended(kind), NEW d, d = Len(stack)
    PROVE  /\ d \in Nat /\ d >= 2 /\ stack # <<>> /\ Top = stack[d] /\ Parent = stack[d - 1]
           /\ Top \in VmSet /\ Parent \in VmSet /\ Link(Parent, Top) /\ Top.kind = kind
           /\ Inner(d) => Quiet(Top)
           /\ Inner(d - 1) => Quiet(Parent) /\ Inner(d)
           /\ kind # "sandbox" => Inner(d)
           /\ SameConfig(Parent, Parent)
<1>1. stack # <<>> /\ StackInv /\ Top.kind = kind
  BY DEF Ended, Depth, IInv
<1>2. /\ d \in Nat /\ d >= 1 /\ Depth = d /\ Top = stack[d]
      /\ \A n \in 1 .. d : stack[n] \in VmSet
  BY <1>1, StackType
<1>3. d # 1
  BY <1>1, <1>2 DEF StackInv
<1>4. d \in 2 .. Len(stack) /\ d - 1 \in 1 .. Len(stack) /\ d \in 1 .. Len(stack)
  BY <1>2, <1>3
<1>5. Parent = stack[d - 1] /\ Link(Parent, Top)
  BY <1>1, <1>2, <1>4 DEF Parent, StackInv
<1>6. Inner(d - 1) => Inner(d)
  BY <1>2, InnerUp
<1>7. kind # "sandbox" => Inner(d)
  BY <1>1, <1>2, <1>4 DEF Inner
<1> QED BY <1>1, <1>2, <1>4, <1>5, <1>6, <1>7 DEF StackInv, SameConfig

(* It makes way: the accounts stay with the parent, or come back from a    *)
(* sandbox.                                                                *)
LEMMA PopStep ==
    ASSUME IInv, FeesInv', NEW kind \in {"call", "sandbox", "nondet"}, Ended(kind),
           NEW parent \in VmSet, Pop(parent), SameConfig(parent, Parent),
           UNCHANGED <<code, written, result, charging>>,
           \A c \in Reported : consumed'[c] = consumed[c],
           \/ kind # "sandbox" /\ parent.acc = Parent.acc /\ parent.pages = Parent.pages
           \/ kind = "sandbox" /\ parent.acc = Top.acc /\ parent.pages = Top.pages
    PROVE  IInv' /\ Kept
<1>0. PICK d : d = Len(stack)
  OBVIOUS
<1>1. /\ d \in Nat /\ d >= 2 /\ stack # <<>> /\ Top = stack[d] /\ Parent = stack[d - 1]
      /\ Top.kind = kind
      /\ Inner(d) => Quiet(Top)
      /\ Inner(d - 1) => Quiet(Parent) /\ Inner(d)
      /\ kind # "sandbox" => Inner(d)
  BY <1>0, EndedVm
<1>2. StackInv /\ RunInv /\ stack \in Seq(VmSet)
  BY DEF IInv, StackInv
<1>3. Inner(d - 1) => NoEffects(parent.acc)
  BY <1>1 DEF Quiet
<1>4. /\ StackInv' /\ stack' # <<>>
      /\ stack'[d - 1] = parent
      /\ \A n \in 1 .. d - 2 : stack'[n] = stack[n]
      /\ \A h : IsHolder(h)' => h \in 1 .. d - 1
      /\ \A h \in 1 .. d - 2 : IsHolder(h)' => IsHolder(h)
      /\ IsHolder(d - 1)' => ~Inner(d - 1)
  BY <1>0, <1>1, <1>2, <1>3, PopKeeps
<1>5. RunInv' /\ PrepInv'
  BY <1>1, <1>2, <1>4, RestKeeps
<1>6. ASSUME NEW h, IsHolder(h)'
      PROVE  \E g : IsHolder(g) /\ stack'[h].acc = stack[g].acc /\ stack'[h].pages = stack[g].pages
  <2>1. CASE h = d - 1
    <3>0. ~Inner(d - 1) /\ d - 1 \in 1 .. Len(stack) /\ d \in 1 .. Len(stack) /\ Len(stack) = d
      BY <1>0, <1>1, <1>4, <1>6, <2>1
    <3>1. CASE kind = "sandbox"
      <4>1. ~Inner(d)
        <5> SUFFICES ASSUME Inner(d) PROVE FALSE
          OBVIOUS
        <5>1. PICK k \in 2 .. d : stack[k].kind # "sandbox"
          BY DEF Inner
        <5>2. k # d
          BY <1>1, <3>1, <5>1
        <5>3. k \in 2 .. d - 1
          BY <1>1, <5>2
        <5> QED BY <3>0, <5>1, <5>3 DEF Inner
      <4>2. IsHolder(d)
        BY <3>0, <4>1 DEF IsHolder
      <4> QED BY <1>1, <1>4, <2>1, <3>1, <4>2
    <3>2. CASE kind # "sandbox"
      <4>1. IsHolder(d - 1)
        <5>1. d - 1 + 1 = d
          BY <1>1
        <5> QED BY <1>1, <3>0, <3>2, <5>1 DEF IsHolder
      <4> QED BY <1>1, <1>4, <2>1, <3>2, <4>1
    <3> QED BY <3>1, <3>2
  <2>2. CASE h \in 1 .. d - 2
    <3>1. IsHolder(h) /\ stack'[h] = stack[h]
      BY <1>4, <1>6, <2>2
    <3> QED BY <3>1
  <2> QED BY <1>1, <1>4, <1>6, <2>1, <2>2
<1>6a. ASSUME NEW h, IsHolder(h)' PROVE Accounts(stack[h].acc, stack[h].pages)'
  <2>1. PICK g : /\ IsHolder(g) /\ stack'[h].acc = stack[g].acc /\ stack'[h].pages = stack[g].pages
    BY <1>6, <1>6a
  <2>2. PICK acc, pages : acc = stack[g].acc /\ pages = stack[g].pages
    OBVIOUS
  <2>3. Accounts(acc, pages)
    BY <2>1, <2>2 DEF IInv, HolderInv
  <2>4. Accounts(acc, pages)'
    BY <2>3, AccountsKept
  <2> QED BY <2>1, <2>2, <2>4, AccountsNext
<1>7. HolderInv'
  BY <1>6a DEF HolderInv
<1>8. Kept
  <2> SUFFICES ASSUME NEW h, NEW g, IsHolder(h), IsHolder(g)' PROVE Extends(stack[h], stack'[g])
    BY DEF Kept
  <2>1. PICK f : IsHolder(f) /\ stack'[g].acc = stack[f].acc /\ stack'[g].pages = stack[f].pages
    BY <1>6
  <2>2. f = h
    BY <1>2, <2>1, HolderUnique
  <2>3. stack[h] \in VmSet
    BY <1>2 DEF IsHolder
  <2> QED BY <2>1, <2>2, <2>3, ExtendsSame
<1> QED BY <1>4, <1>5, <1>7, <1>8 DEF IInv

LEMMA TrappedVm ==
    ASSUME NEW vm \in VmSet, NEW end
    PROVE  /\ SubVmError(vm, end) \in VmSet /\ SameConfig(SubVmError(vm, end), vm)
           /\ SubVmError(vm, end).acc = vm.acc /\ SubVmError(vm, end).pages = vm.pages
           /\ [vm EXCEPT !.end = "vm_error"] \in VmSet
           /\ SameConfig([vm EXCEPT !.end = "vm_error"], vm)
           /\ [vm EXCEPT !.end = "vm_error"].acc = vm.acc
           /\ [vm EXCEPT !.end = "vm_error"].pages = vm.pages
<1>1. PICK t : t = [vm EXCEPT !.end = "vm_error"]
  OBVIOUS
<1>2. t \in VmSet /\ SameConfig(t, vm) /\ t.acc = vm.acc /\ t.pages = vm.pages
  BY <1>1 DEF VmSet, SameConfig
<1>3. SubVmError(vm, end) = t \/ SubVmError(vm, end) = vm
  BY <1>1 DEF SubVmError
<1>4. SameConfig(vm, vm)
  BY DEF SameConfig
<1> QED BY <1>1, <1>2, <1>3, <1>4

LEMMA SandboxReturnsKeeps == ASSUME IInv, SandboxReturns PROVE IInv' /\ Kept
<1>1. /\ Ended("sandbox") /\ UNCHANGED <<runVars, feeVars>>
      /\ Pop([Parent EXCEPT !.acc = Top.acc, !.pages = Top.pages])
  BY DEF SandboxReturns
<1>2. Top \in VmSet /\ Parent \in VmSet
  BY <1>1, EndedVm
<1>3. PICK parent : parent = [Parent EXCEPT !.acc = Top.acc, !.pages = Top.pages]
  OBVIOUS
<1>4. /\ parent \in VmSet /\ SameConfig(parent, Parent)
      /\ parent.acc = Top.acc /\ parent.pages = Top.pages /\ Pop(parent)
  BY <1>1, <1>2, <1>3 DEF VmSet, SameConfig
<1>5. FeesInv'
  BY <1>1, FeesUnchanged DEF IInv
<1>6. UNCHANGED <<code, written, result, charging>> /\ \A c \in Reported : consumed'[c] = consumed[c]
  BY <1>1 DEF runVars, feeVars
<1> QED BY <1>1, <1>4, <1>5, <1>6, PopStep

(* check_empty passes: the VM of a call has no effects.                    *)
LEMMA CallReturnsKeeps == ASSUME IInv, CallReturns PROVE IInv' /\ Kept
<1>1. Ended("call") /\ UNCHANGED <<code, written, feeVars>>
  BY DEF CallReturns
<1>2. Top \in VmSet /\ Parent \in VmSet /\ Quiet(Top)
  BY <1>1, EndedVm
<1>3. Pop(SubVmError(Parent, Top.end)) /\ UNCHANGED result
  BY <1>2 DEF CallReturns, Quiet, NoEffects
<1>4. PICK parent : parent = SubVmError(Parent, Top.end)
  OBVIOUS
<1>5. /\ parent \in VmSet /\ SameConfig(parent, Parent)
      /\ parent.acc = Parent.acc /\ parent.pages = Parent.pages /\ Pop(parent)
  BY <1>2, <1>3, <1>4, TrappedVm
<1>6. FeesInv'
  BY <1>1, FeesUnchanged DEF IInv
<1>7. UNCHANGED <<code, written, result, charging>> /\ \A c \in Reported : consumed'[c] = consumed[c]
  BY <1>1, <1>3 DEF feeVars
<1> QED BY <1>1, <1>5, <1>6, <1>7, PopStep

LEMMA NondetReturnsKeeps == ASSUME IInv, NondetReturns PROVE IInv' /\ Kept
<1>1. Ended("nondet") /\ UNCHANGED <<runVars, totals, charging>> /\ FeesInv
  BY DEF NondetReturns, IInv
<1>2. PICK costs \in Costs["nondet_output"] :
        \/ ~RawFits("nondet_output", costs) /\ Refused /\ Pop([Parent EXCEPT !.end = "vm_error"])
        \/ ConsumeBucketRaw("nondet_output", costs) /\ Pop(SubVmError(Parent, Top.end))
  BY DEF NondetReturns
<1>3. Top \in VmSet /\ Parent \in VmSet
  BY <1>1, EndedVm
<1>4. "nondet_output" \in Categories /\ costs \in CostVecs("nondet_output")
      /\ \A c \in Reported : c \in Categories \ {"nondet_output"}
  BY FeesAssumption DEF Categories, Reported
<1>5. UNCHANGED <<code, written, result, charging>>
  BY <1>1 DEF runVars
<1>6. CASE Refused /\ Pop([Parent EXCEPT !.end = "vm_error"])
  <2>1. PICK parent : parent = [Parent EXCEPT !.end = "vm_error"]
    OBVIOUS
  <2>2. /\ parent \in VmSet /\ SameConfig(parent, Parent)
        /\ parent.acc = Parent.acc /\ parent.pages = Parent.pages /\ Pop(parent)
    BY <1>3, <1>6, <2>1, TrappedVm
  <2>3. UNCHANGED feeVars
    BY <1>1, <1>6 DEF Refused, feeVars
  <2>4. FeesInv' /\ \A c \in Reported : consumed'[c] = consumed[c]
    BY <1>1, <2>3, FeesUnchanged DEF feeVars
  <2> QED BY <1>1, <1>5, <2>2, <2>4, PopStep
<1>7. CASE ConsumeBucketRaw("nondet_output", costs) /\ Pop(SubVmError(Parent, Top.end))
  <2>1. PICK parent : parent = SubVmError(Parent, Top.end)
    OBVIOUS
  <2>2. /\ parent \in VmSet /\ SameConfig(parent, Parent)
        /\ parent.acc = Parent.acc /\ parent.pages = Parent.pages /\ Pop(parent)
    BY <1>3, <1>7, <2>1, TrappedVm
  <2>3. FeesInv'
    BY <1>1, <1>4, <1>7, ChargingKept, RawKeeps
  <2>4. \A c \in Reported : consumed'[c] = consumed[c]
    BY <1>1, <1>4, <1>7, RawConsumes
  <2> QED BY <1>1, <1>5, <2>2, <2>3, <2>4, PopStep
<1> QED BY <1>2, <1>6, <1>7

(* Nothing happens but that the run may get a result.                      *)
LEMMA ResultOnly ==
    ASSUME IInv, UNCHANGED <<stack, code, written, feeVars>>,
           result' \in {"none", "return", "user_error", "vm_error"}
    PROVE  IInv' /\ Kept
<1>1. FeesInv'
  BY FeesUnchanged DEF IInv
<1>2. stack' = stack /\ code' = code /\ written' = written /\ consumed' = consumed /\ charging' = charging
  BY DEF feeVars
<1>3. StackInv'
  BY <1>2 DEF IInv, StackInv, Inner
<1>4. RunInv' /\ PrepInv'
  <2>1. \A c : Charged(c)' = Charged(c)
    BY <1>2 DEF Charged
  <2> QED BY <1>2, <2>1 DEF IInv, RunInv, PrepInv, ChargingDone
<1>5. ASSUME NEW h, IsHolder(h)' PROVE Accounts(stack[h].acc, stack[h].pages)'
  <2>1. IsHolder(h)
    BY <1>2, <1>5 DEF IsHolder, Inner
  <2>2. PICK acc, pages : acc = stack[h].acc /\ pages = stack[h].pages
    OBVIOUS
  <2>3. Accounts(acc, pages)
    BY <2>1, <2>2 DEF IInv, HolderInv
  <2>4. Accounts(acc, pages)'
    BY <1>2, <2>3, AccountsKept
  <2> QED BY <1>2, <2>2, <2>4, AccountsNext
<1>6. HolderInv'
  BY <1>5 DEF HolderInv
<1>7. Kept
  <2> SUFFICES ASSUME NEW h, NEW g, IsHolder(h), IsHolder(g)' PROVE Extends(stack[h], stack'[g])
    BY DEF Kept
  <2>1. IsHolder(g)
    BY <1>2 DEF IsHolder, Inner
  <2>2. stack \in Seq(VmSet)
    BY DEF IInv, StackInv
  <2>3. g = h
    BY <2>1, <2>2, HolderUnique
  <2>4. stack[h] \in VmSet
    BY <2>2 DEF IsHolder
  <2> QED BY <1>2, <2>3, <2>4, ExtendsSame
<1> QED BY <1>1, <1>3, <1>4, <1>6, <1>7 DEF IInv

LEMMA StutterKeeps == ASSUME IInv, UNCHANGED vars PROVE IInv' /\ Kept
<1>1. UNCHANGED <<stack, code, written, feeVars>> /\ result' = result
  BY DEF vars, runVars
<1> QED BY <1>1, ResultOnly DEF IInv, RunInv

LEMMA MainReturnsKeeps == ASSUME IInv, MainReturns PROVE IInv' /\ Kept
<1>1. UNCHANGED <<stack, code, written, feeVars>> /\ result' = Top.end /\ Top.end # "running"
      /\ stack # <<>>
  BY DEF MainReturns, Ended, Depth
<1>2. Top \in VmSet
  BY <1>1, StackType DEF IInv
<1> QED BY <1>1, <1>2, ResultOnly DEF VmSet

LEMMA PreparationFailsKeeps == ASSUME IInv, PreparationFails PROVE IInv' /\ Kept
BY ResultOnly DEF PreparationFails

LEMMA NoHolder == stack = <<>> => \A h : ~IsHolder(h)
BY DEF IsHolder

LEMMA WriteCodeKeeps == ASSUME IInv, WriteCode PROVE IInv' /\ Kept
<1>1. /\ FeesInv /\ ChargingDone /\ stack = <<>>
      /\ UNCHANGED <<stack, code, result, totals, charging>>
  BY DEF WriteCode, Preparing, IInv
<1>2. PICK page \in code \ written, costs \in Costs["storage"] :
        ConsumeBucketRaw("storage", costs) /\ written' = written \cup {page}
  BY DEF WriteCode
<1>3. "storage" \in Categories /\ costs \in CostVecs("storage")
      /\ \A c \in Reported \ {"storage"} : c \in Categories \ {"storage"}
  BY FeesAssumption DEF Categories, Reported
<1>4. FeesInv'
  BY <1>1, <1>2, <1>3, ChargingKept, RawKeeps
<1>5. /\ consumed'["storage"] = [i \in Entries("storage") |-> consumed["storage"][i] + costs[i]]
      /\ \A c \in Reported \ {"storage"} : consumed'[c] = consumed[c]
  BY <1>1, <1>2, <1>3, RawConsumes
<1>6. /\ IsFiniteSet(written)
      /\ \A cost \in Costs["storage"] : Charged("storage") = CostSum(cost) * Cardinality(written)
      /\ Charged("event") = 0 /\ Charged("message_fee") = 0 /\ Charged("message_receipt") = 0
  BY <1>1 DEF IInv, RunInv, PrepInv
<1>7. PICK pages : pages = written
  OBVIOUS
<1>8. /\ IsFiniteSet(pages \cup {page})
      /\ \A cost \in Costs["storage"] :
            Charged("storage")' = CostSum(cost) * Cardinality(pages \cup {page})
  BY <1>1, <1>2, <1>5, <1>6, <1>7, PageCharged
<1>9. \A c \in Reported \ {"storage"} : Charged(c)' = Charged(c)
  BY <1>5 DEF Charged
<1>10. ChargingDone' /\ ~(charging' \in 1 .. Len(InitialOrder))
  BY <1>1 DEF ChargingDone, InitialOrder
<1>11. PrepInv'
  <2>1. Charged("event")' = 0 /\ Charged("message_fee")' = 0 /\ Charged("message_receipt")' = 0
    BY <1>6, <1>9 DEF Reported
  <2>2. written' = pages \cup {page}
    BY <1>2, <1>7
  <2> QED BY <1>8, <1>10, <2>1, <2>2 DEF PrepInv
<1>12. RunInv'
  BY <1>1, <1>2, <1>7, <1>8 DEF IInv, RunInv
<1>13. StackInv'
  BY <1>1 DEF IInv, StackInv, Inner
<1>14. HolderInv'
  BY <1>1 DEF HolderInv, IsHolder
<1>15. Kept
  BY <1>1, NoHolder DEF Kept
<1> QED BY <1>4, <1>11, <1>12, <1>13, <1>14, <1>15 DEF IInv

LEMMA StartMainKeeps == ASSUME IInv, StartMain PROVE IInv' /\ Kept
<1>1. /\ FeesInv /\ ChargingDone /\ stack = <<>> /\ RunInv /\ UNCHANGED <<code, written, result, feeVars>>
  BY DEF StartMain, Preparing, IInv, runVars
<1>2. PICK perms \in MainPerms :
        stack' = <<Vm("main", TRUE, perms, TRUE, [EmptyAcc(0) EXCEPT !.nodes = NodeBudgets], written)>>
  BY DEF StartMain
<1>3. PICK acc, pages, vm : /\ acc = [EmptyAcc(0) EXCEPT !.nodes = NodeBudgets] /\ pages = written
                            /\ vm = Vm("main", TRUE, perms, TRUE, acc, pages)
  OBVIOUS
<1>4. stack' = <<vm>>
  BY <1>2, <1>3
<1>5. acc.decremented = 0 /\ acc.emissions = <<>> /\ acc.nodes = NodeBudgets /\ acc \in AccSet
  <2>1. EmptyAcc(0) \in AccSet /\ EmptyAcc(0).decremented = 0 /\ EmptyAcc(0).emissions = <<>>
    BY EffectsAssumption DEF EmptyAcc, AccSet
  <2>2. NodeBudgets \in Seq(Nat)
    BY EffectsAssumption
  <2> QED BY <1>3, <2>1, <2>2 DEF AccSet
<1>6. /\ vm \in VmSet /\ vm.kind = "main" /\ vm.acc = acc /\ vm.pages = pages
  <2>1. perms \in SUBSET AllPerms /\ pages \in SUBSET PageIds
    BY <1>1, <1>3, EffectsAssumption DEF AllPerms, RunInv
  <2> QED BY <1>3, <1>5, <2>1 DEF Vm, VmSet
<1>7. Len(stack') = 1 /\ stack'[1] = vm /\ stack' \in Seq(VmSet) /\ stack' # <<>>
  BY <1>4, <1>6
<1>8. FeesInv'
  BY <1>1, FeesUnchanged
<1>9. StackInv'
  <2>1. \A n \in 1 .. 1 : ~Inner(n)'
    BY DEF Inner
  <2>2. 1 <= VmRecursion + 1 /\ ~(1 > VmRecursion)
    BY EffectsAssumption
  <2>3. stack'[1].kind = "main"
    BY <1>6, <1>7
  <2>4. 2 .. 1 = {}
    OBVIOUS
  <2> QED BY <1>7, <2>1, <2>2, <2>3, <2>4, Zenon DEF StackInv
<1>10. RunInv' /\ PrepInv'
  BY <1>1, <1>7 DEF RunInv, PrepInv, ChargingDone, feeVars
<1>11. Accounts(acc, pages)
  <2>1. /\ IsFiniteSet(pages)
        /\ Charged("event") = 0 /\ Charged("message_fee") = 0 /\ Charged("message_receipt") = 0
        /\ \A cost \in Costs["storage"] : Charged("storage") = CostSum(cost) * Cardinality(pages)
    BY <1>1, <1>3 DEF IInv, RunInv, PrepInv
  <2>2. /\ EventFees(<<>>) = 0 /\ MessageFees(<<>>) = 0 /\ MessageReceipts(<<>>) = 0
        /\ MessageValues(<<>>) = 0 /\ \A k : NodeFees(<<>>, k) = 0
    BY LogEmpty
  <2>3. \A k \in DOMAIN NodeBudgets : NodeBudgets[k] + 0 = NodeBudgets[k]
    BY EffectsAssumption
  <2>4. 0 <= Balance
    BY EffectsAssumption
  <2> QED BY <1>5, <2>1, <2>2, <2>3, <2>4 DEF Accounts
<1>12. Accounts(acc, pages)'
  <2>1. \A c \in Reported : consumed'[c] = consumed[c]
    BY <1>1 DEF feeVars
  <2> QED BY <1>11, <2>1, AccountsKept
<1>13. ASSUME NEW h, IsHolder(h)' PROVE Accounts(stack[h].acc, stack[h].pages)'
  <2>1. h = 1
    BY <1>7, <1>13 DEF IsHolder
  <2> QED BY <1>6, <1>7, <1>12, <2>1, AccountsNext
<1>14. HolderInv'
  BY <1>13 DEF HolderInv
<1>15. Kept
  BY <1>1, NoHolder DEF Kept
<1> QED BY <1>8, <1>9, <1>10, <1>14, <1>15 DEF IInv

(* The initial charges, category by category.                              *)
LEMMA OrderOfCharges ==
    /\ Len(InitialOrder) = 5
    /\ \A j \in 1 .. 5 : InitialOrder[j] \in Categories
    /\ \A c \in Reported : \E j \in 1 .. 5 : InitialOrder[j] = c
    /\ \A i, j \in 1 .. 5 : InitialOrder[i] = InitialOrder[j] => i = j
<1>1. /\ InitialOrder[1] = "storage" /\ InitialOrder[2] = "message_receipt"
      /\ InitialOrder[3] = "nondet_output" /\ InitialOrder[4] = "message_fee"
      /\ InitialOrder[5] = "event" /\ Len(InitialOrder) = 5
  BY DEF InitialOrder
<1>2. \A j \in 1 .. 5 : j = 1 \/ j = 2 \/ j = 3 \/ j = 4 \/ j = 5
  OBVIOUS
<1>3. \A j \in 1 .. 5 : InitialOrder[j] \in Categories
  BY <1>1, <1>2 DEF Categories
<1>4. \A c \in Reported : \E j \in 1 .. 5 : InitialOrder[j] = c
  BY <1>1 DEF Reported
<1>5. \A i, j \in 1 .. 5 : InitialOrder[i] = InitialOrder[j] => i = j
  <2> TAKE i, j \in 1 .. 5
  <2> HAVE InitialOrder[i] = InitialOrder[j]
  <2> QED BY <1>1, <1>2
<1> QED BY <1>1, <1>3, <1>4, <1>5

Paid(j, n) ==
    CostSum(consumed[InitialOrder[j]]) = IF j < n THEN CostSum(Initials[InitialOrder[j]]) ELSE 0

LEMMA ConsumeInitialKeeps == ASSUME IInv, ConsumeInitial, UNCHANGED <<stack, runVars>> PROVE IInv' /\ Kept
<1>1. charging \in 1 .. 5 /\ totals' = totals /\ FeesInv /\ RunInv
  BY OrderOfCharges DEF ConsumeInitial, IInv
<1>2. stack = <<>> /\ stack' = <<>>
  BY <1>1, OrderOfCharges DEF RunInv, ChargingDone
<1>3. PICK cat, n : cat = InitialOrder[charging] /\ n = charging
  OBVIOUS
<1>4. cat \in Categories /\ n \in 1 .. 5 /\ Initials[cat] \in CostVecs(cat)
  BY <1>1, <1>3, OrderOfCharges, FeesAssumption
<1>5. written = {} /\ \A j \in 1 .. 5 : Paid(j, n)
  BY <1>1, <1>2, <1>3, OrderOfCharges DEF IInv, PrepInv, Paid
<1>6. \/ ConsumeBucketRaw(cat, Initials[cat]) /\ charging' = n + 1
      \/ charging' = 0 /\ UNCHANGED <<remaining, consumed>>
  BY <1>3 DEF ConsumeInitial
<1>7. StackInv'
  BY <1>2 DEF IInv, StackInv, Inner
<1>8. HolderInv'
  BY <1>2 DEF HolderInv, IsHolder
<1>9. UNCHANGED <<code, written, result>>
  BY DEF runVars
<1>10. RunInv'
  BY <1>1, <1>2, <1>9 DEF RunInv
<1>10a. Kept
  BY <1>2, NoHolder DEF Kept
<1>11. CASE charging' = 0 /\ UNCHANGED <<remaining, consumed>>
  <2>1. FeesInv'
    <3>1. 0 \in 0 .. Len(InitialOrder) + 1
      BY OrderOfCharges
    <3>2. FeesTypeOK'
      BY <1>1, <1>11, <3>1 DEF FeesInv, FeesTypeOK
    <3>3. IsByCategory'
      BY <1>1, <1>11 DEF FeesInv, IsByCategory
    <3>4. AccountsBalance'
      BY <1>1, <1>11 DEF FeesInv, AccountsBalance, ConsumedFrom, Deduction
    <3> QED BY <3>2, <3>3, <3>4 DEF FeesInv
  <2>2. ~ChargingDone' /\ ~(charging' \in 1 .. Len(InitialOrder))
    BY <1>11, OrderOfCharges DEF ChargingDone
  <2>3. PrepInv'
    BY <2>2 DEF PrepInv
  <2> QED BY <1>7, <1>8, <1>10, <1>10a, <2>1, <2>3 DEF IInv
<1>12. CASE ConsumeBucketRaw(cat, Initials[cat]) /\ charging' = n + 1
  <2>1. FeesInv'
    <3>1. charging' \in 0 .. Len(InitialOrder) + 1
      BY <1>4, <1>12, OrderOfCharges
    <3> QED BY <1>1, <1>4, <1>12, <3>1, RawKeeps
  <2>2. /\ consumed'[cat] = [i \in Entries(cat) |-> consumed[cat][i] + Initials[cat][i]]
        /\ \A c \in Categories \ {cat} : consumed'[c] = consumed[c]
    BY <1>1, <1>4, <1>12, RawConsumes
  <2>3. CostSum(consumed'[cat]) = CostSum(Initials[cat])
    <3>1. consumed[cat] \in CostVecs(cat)
      BY <1>1, <1>4 DEF FeesInv, FeesTypeOK
    <3>2. CostSum(consumed'[cat]) = CostSum(consumed[cat]) + CostSum(Initials[cat])
          /\ CostSum(Initials[cat]) \in Nat
      <4>1. PICK c1 \in CostVecs(cat), c2 \in CostVecs(cat) : c1 = consumed[cat] /\ c2 = Initials[cat]
        BY <1>4, <3>1
      <4>2. consumed'[cat] = [i \in Entries(cat) |-> c1[i] + c2[i]]
        BY <2>2, <4>1
      <4>3. /\ CostSum([i \in Entries(cat) |-> c1[i] + c2[i]]) = CostSum(c1) + CostSum(c2)
            /\ CostSum(c2) \in Nat
        <5>1. cat \in Categories
          BY <1>4
        <5> QED BY ONLY <4>1, <5>1, CostSumAdds
      <4> QED BY <4>1, <4>2, <4>3
    <3>3. CostSum(consumed[cat]) = 0
      BY <1>3, <1>4, <1>5 DEF Paid
    <3> QED BY <3>2, <3>3
  <2>4. ASSUME NEW j \in 1 .. 5 PROVE Paid(j, n + 1)'
    <3>1. CASE j = n
      BY <1>1, <1>3, <2>3, <3>1 DEF Paid
    <3>2. CASE j # n
      <4>1. InitialOrder[j] \in Categories \ {cat}
        BY <1>3, <1>4, <3>2, OrderOfCharges
      <4>2. j < n <=> j < n + 1
        BY <1>4, <3>2
      <4> QED BY <1>5, <2>2, <4>1, <4>2 DEF Paid
    <3> QED BY <3>1, <3>2
  <2>5. charging' \in 1 .. 5 => PrepInv'
    <3>1. charging' \in 1 .. 5 => ~ChargingDone'
      BY OrderOfCharges DEF ChargingDone
    <3>2. \A j \in 1 .. Len(InitialOrder) :
             CostSum(consumed'[InitialOrder[j]])
               = IF j < charging' THEN CostSum(Initials[InitialOrder[j]]) ELSE 0
      BY <1>12, <2>4, OrderOfCharges DEF Paid
    <3> QED BY <1>5, <1>9, <3>1, <3>2, OrderOfCharges DEF PrepInv
  <2>6. charging' = 6 => PrepInv'
    <3> SUFFICES ASSUME charging' = 6 PROVE PrepInv'
      OBVIOUS
    <3>1. \A c \in Reported : Charged(c)' = 0
      <4> TAKE c \in Reported
      <4>1. PICK j \in 1 .. 5 : InitialOrder[j] = c
        BY OrderOfCharges
      <4>2. CostSum(consumed'[c]) = CostSum(Initials[c])
        BY <1>12, <2>4, <4>1 DEF Paid
      <4>3. c \in Categories
        BY <4>1, OrderOfCharges
      <4>4. CostSum(Initials[c]) \in Nat
        BY <4>3, FeesAssumption, CostSumAdds
      <4> QED BY <4>2, <4>4 DEF Charged
    <3>2. \A cost \in Costs["storage"] : CostSum(cost) * Cardinality({}) = 0
      <4> TAKE cost \in Costs["storage"]
      <4>1. "storage" \in Categories /\ cost \in CostVecs("storage")
        BY FeesAssumption DEF Categories
      <4>2. CostSum(cost) \in Nat
        BY <4>1, CostSumAdds
      <4>3. \A x \in Int : x * 0 = 0
        OBVIOUS
      <4>4. Cardinality({}) = 0
        BY FS_EmptySet
      <4>5. CostSum(cost) * 0 = 0
        BY <4>2, <4>3
      <4> QED BY <4>4, <4>5
    <3>3. written' = {} /\ ~(charging' \in 1 .. Len(InitialOrder))
      BY <1>5, <1>9, OrderOfCharges
    <3> QED BY <3>1, <3>2, <3>3 DEF PrepInv, Reported
  <2>7. charging' \in 1 .. 5 \/ charging' = 6
    BY <1>4, <1>12
  <2> QED BY <1>7, <1>8, <1>10, <1>10a, <2>1, <2>5, <2>6, <2>7 DEF IInv
<1> QED BY <1>6, <1>11, <1>12

(* Nothing has been charged at first.                                      *)
LEMMA InitEstablishes == ASSUME Init PROVE IInv
<1>1. /\ totals \in BucketTotals /\ remaining = totals /\ charging = 1
      /\ consumed = [cat \in Categories |-> [i \in 1 .. Len(BucketNos[cat]) |-> 0]]
      /\ stack = <<>> /\ code \in {{}, CodePages} /\ written = {} /\ result = "none"
  BY DEF Init, FeesInit
<1>2. /\ remaining \in [Buckets -> Nat] /\ IsByCategory
      /\ \A cat \in Categories : consumed[cat] \in CostVecs(cat)
  BY <1>1, FeesAssumption DEF IsByCategory, CostVecs
<1>3. \A cat \in Categories : \A I \in SUBSET Entries(cat) : SumOver(consumed[cat], I) = 0
  <2> TAKE cat \in Categories
  <2> TAKE I \in SUBSET Entries(cat)
  <2>1. IsFiniteSet(I) /\ \A i \in I : consumed[cat][i] = 0
    BY <1>1, EntriesFinite DEF Entries
  <2> QED BY <2>1, SumZero DEF SumOver
<1>4. \A b \in Buckets : SumFunctionOnSet(ConsumedFrom(b), Categories) = 0
  <2> TAKE b \in Buckets
  <2>1. PICK f : f = ConsumedFrom(b)
    OBVIOUS
  <2>2. \A cat \in Categories : f[cat] = 0
    <3> TAKE cat \in Categories
    <3>1. {i \in Entries(cat) : BucketNos[cat][i] = b} \in SUBSET Entries(cat)
      OBVIOUS
    <3> QED BY <1>3, <2>1, <3>1 DEF ConsumedFrom, Deduction
  <2>3. SumFunctionOnSet(f, Categories) = 0
    BY ONLY <2>2, CategoriesFinite, SumZero
  <2> QED BY <2>1, <2>3
<1>5. AccountsBalance
  <2> SUFFICES ASSUME NEW b \in Buckets
               PROVE  remaining[b] + SumFunctionOnSet(ConsumedFrom(b), Categories) = totals[b]
    BY DEF AccountsBalance
  <2>1. remaining[b] \in Nat /\ totals[b] = remaining[b]
    BY <1>1, <1>2
  <2> QED BY <1>4, <2>1
<1>6. FeesInv
  BY <1>1, <1>2, <1>5, OrderOfCharges DEF FeesInv, FeesTypeOK
<1>7. StackInv
  <2>1. stack \in Seq(VmSet) /\ Len(stack) = 0
    BY <1>1
  <2>2. 0 <= VmRecursion + 1 /\ ~(0 > VmRecursion)
    BY EffectsAssumption
  <2>3. 2 .. 0 = {} /\ 1 .. 0 = {}
    OBVIOUS
  <2> QED BY <1>1, <2>1, <2>2, <2>3, Zenon DEF StackInv
<1>8. RunInv
  <2>1. IsFiniteSet({})
    BY FS_EmptySet
  <2> QED BY <1>1, <2>1, EffectsAssumption DEF RunInv
<1>9. PrepInv
  <2>1. \A j \in 1 .. 5 : CostSum(consumed[InitialOrder[j]]) = 0
    <3> TAKE j \in 1 .. 5
    <3>1. PICK cat \in Categories : cat = InitialOrder[j]
      BY OrderOfCharges
    <3>2. DOMAIN consumed[cat] = Entries(cat)
      BY <1>1 DEF Entries
    <3> QED BY <1>3, <3>1, <3>2 DEF CostSum
  <2>2. ~ChargingDone /\ \A j \in 1 .. 5 : ~(j < charging)
    BY <1>1, OrderOfCharges DEF ChargingDone
  <2> QED BY <1>1, <2>1, <2>2, OrderOfCharges DEF PrepInv
<1>10. HolderInv
  BY <1>1 DEF HolderInv, IsHolder
<1> QED BY <1>6, <1>7, <1>8, <1>9, <1>10 DEF IInv

(* Every step keeps the invariant, and what was emitted.                   *)
LEMMA StepKeeps == ASSUME IInv, [Next]_vars PROVE IInv' /\ Kept
<1>1. CASE ConsumeInitial /\ UNCHANGED <<stack, runVars>>
  BY <1>1, ConsumeInitialKeeps
<1>2. CASE WriteCode
  BY <1>2, WriteCodeKeeps
<1>3. CASE PreparationFails
  BY <1>3, PreparationFailsKeeps
<1>4. CASE StartMain
  BY <1>4, StartMainKeeps
<1>5. CASE SendMessage
  BY <1>5, SendMessageKeeps
<1>6. CASE EmitEvent
  BY <1>6, EmitEventKeeps
<1>7. CASE StorageWrite
  BY <1>7, StorageWriteKeeps
<1>8. CASE CallContract
  BY <1>8, CallContractKeeps
<1>9. CASE Sandbox
  BY <1>9, SandboxKeeps
<1>10. CASE RunNondet
  BY <1>10, RunNondetKeeps
<1>11. CASE EndVm
  BY <1>11, EndVmKeeps
<1>12. CASE CallReturns
  BY <1>12, CallReturnsKeeps
<1>13. CASE SandboxReturns
  BY <1>13, SandboxReturnsKeeps
<1>14. CASE NondetReturns
  BY <1>14, NondetReturnsKeeps
<1>15. CASE MainReturns
  BY <1>15, MainReturnsKeeps
<1>16. CASE Finished
  BY <1>16, StutterKeeps DEF Finished
<1>17. CASE UNCHANGED vars
  BY <1>17, StutterKeeps
<1> QED BY <1>1, <1>2, <1>3, <1>4, <1>5, <1>6, <1>7, <1>8, <1>9, <1>10, <1>11, <1>12,
           <1>13, <1>14, <1>15, <1>16, <1>17 DEF Next

(* The inductive invariant: what the stack of VMs looks like, and that     *)
(* what was charged is in the accumulator and the pages of the one VM      *)
(* whose effects will be reported (spawn_apply_run, gl_call).              *)
THEOREM InductiveInvariant == Spec => []IInv
<1>1. Init => IInv
  BY InitEstablishes
<1>2. IInv /\ [Next]_vars => IInv'
  BY StepKeeps
<1> QED BY <1>1, <1>2, PTL DEF Spec

-----------------------------------------------------------------------------
(* Theorems.                                                               *)

(* The VM that Log and Holder speak of.                                    *)
LEMMA HolderAccounts ==
    ASSUME IInv, stack # <<>>
    PROVE  \E h : /\ IsHolder(h) /\ HolderIndex = h /\ Holder = stack[h]
                  /\ Accounts(Holder.acc, Holder.pages)
<1>1. stack \in Seq(VmSet)
  BY DEF IInv, StackInv
<1>2. PICK h : IsHolder(h)
  BY <1>1, HolderExists
<1>3. HolderIndex = h
  BY <1>1, <1>2, HolderFound
<1>4. Accounts(stack[h].acc, stack[h].pages)
  BY <1>2 DEF IInv, HolderInv
<1> QED BY <1>2, <1>3, <1>4 DEF Holder

(* Whatever VMs call, sandbox and fail, what the host is told the contract *)
(* emitted and wrote is exactly what was charged for                       *)
(* (rt::fees::DataLimit against VMDataAccumulator).                        *)
THEOREM ReportsWhatWasCharged == Spec => []ChargedIsReported
<1>1. IInv => ChargedIsReported
  <2> SUFFICES ASSUME IInv, stack # <<>>
               PROVE  /\ Charged("event") = EventFees(Log)
                      /\ Charged("message_fee") = MessageFees(Log)
                      /\ Charged("message_receipt") = MessageReceipts(Log)
                      /\ \A cost \in Costs["storage"] :
                            Charged("storage") = CostSum(cost) * Cardinality(Holder.pages)
    BY DEF ChargedIsReported, Depth
  <2>1. Accounts(Holder.acc, Holder.pages)
    BY HolderAccounts
  <2> QED BY <2>1 DEF Accounts, Log
<1> QED BY <1>1, InductiveInvariant, PTL

(* Messages never promise more than the balance and the budgets of their   *)
(* allocation nodes, in sandboxes or out of them (checked_sum_le,          *)
(* message_fee_allocation), and get_self_balance cannot underflow.         *)
THEOREM PromisesAreBacked == Spec => []PromisesHold
<1>1. IInv => PromisesHold
  <2> SUFFICES ASSUME IInv, stack # <<>> PROVE PromisesHold
    BY DEF PromisesHold, NodeBudgetsHold, NeverOverdrawn, Depth
  <2>1. PICK h : /\ IsHolder(h) /\ Holder = stack[h] /\ Accounts(Holder.acc, Holder.pages)
    BY HolderAccounts
  <2>2. NodeBudgetsHold
    BY <2>1 DEF NodeBudgetsHold, Accounts, Log
  <2>3. MessageValues(Log) <= Balance /\ Holder.acc.decremented = MessageValues(Log)
    BY <2>1 DEF Accounts, Log
  <2>4. ASSUME Top.main, Top.det PROVE Top.acc.decremented <= Balance
    <3>1. PICK d : d = Len(stack)
      OBVIOUS
    <3>2. d \in Nat /\ d >= 1 /\ Top = stack[d] /\ StackInv
      BY <3>1, StackType DEF IInv
    <3>3. ~Inner(d)
      <4>1. Inner(d) => Quiet(Top)
        BY <3>1, <3>2 DEF StackInv
      <4> QED BY <2>4, <4>1 DEF Quiet
    <3>4. IsHolder(d)
      BY <3>1, <3>2, <3>3 DEF IsHolder
    <3>5. Accounts(stack[d].acc, stack[d].pages)
      BY <3>4 DEF IInv, HolderInv
    <3> QED BY <3>2, <3>5 DEF Accounts
  <2> QED BY <2>2, <2>3, <2>4 DEF PromisesHold, NeverOverdrawn
<1> QED BY <1>1, InductiveInvariant, PTL

(* Called contracts and nondet blocks leave no effects, and check_empty    *)
(* never turns a contract's run into an internal error.                    *)
THEOREM CallsLeaveNothing == Spec => []CallsAreStatic
<1>1. IInv => CallsAreStatic
  <2> SUFFICES ASSUME IInv PROVE CallsAreStatic
    OBVIOUS
  <2>1. result # "internal_error"
    BY DEF IInv, RunInv
  <2>2. ASSUME NEW n \in 1 .. Depth, NEW m \in n .. Depth, stack[n].kind \in {"call", "nondet"}
        PROVE  stack[m].acc.emissions = <<>> /\ stack[m].acc.nodes = <<>>
    <3>0. Len(stack) \in Nat /\ Depth = Len(stack)
      BY DEF IInv, StackInv, Depth
    <3>1. n # 1
      BY <2>2, <3>0 DEF IInv, StackInv
    <3>2. n \in 2 .. m /\ m \in 1 .. Len(stack)
      BY <3>0, <3>1
    <3>3. Inner(m)
      BY <2>2, <3>2 DEF Inner
    <3> QED BY <3>2, <3>3 DEF IInv, StackInv, Quiet, NoEffects
  <2> QED BY <2>1, <2>2 DEF CallsAreStatic
<1> QED BY <1>1, InductiveInvariant, PTL

(* No sub-VM, however deep, has a permission its starter lacks.            *)
THEOREM PermissionsAreInherited == Spec => []PermissionsOnlyShrink
<1>1. IInv => PermissionsOnlyShrink
  BY DEF IInv, StackInv, Link, PermissionsOnlyShrink, Depth
<1> QED BY <1>1, InductiveInvariant, PTL

(* The accounts of every bucket balance, none is overdrawn, and a charge   *)
(* is refused only when a bucket could not bear it: consume_bucket_raw's   *)
(* running sums are the whole charge (DataLimit).                          *)
THEOREM FeesAreExact == Spec => []FeesExact
<1>1. IInv => TypeOK
  <2> SUFFICES ASSUME IInv PROVE TypeOK
    OBVIOUS
  <2>1. Len(stack) \in Nat /\ Depth = Len(stack) /\ Depth <= VmRecursion + 1
    BY DEF IInv, StackInv, Depth
  <2>2. ASSUME NEW n \in 1 .. Depth
        PROVE  /\ stack[n].perms \subseteq {"write", "send", "call", "nondet"}
               /\ stack[n].acc.decremented \in 0 .. U256Max
               /\ \A k \in DOMAIN stack[n].acc.nodes : stack[n].acc.nodes[k] \in Nat
               /\ stack[n].pages \subseteq PageIds
    <3>1. stack[n] \in VmSet
      BY <2>1 DEF IInv, StackInv
    <3>2. stack[n].acc \in AccSet
      BY <3>1 DEF VmSet
    <3>3. stack[n].acc.nodes \in Seq(Nat)
      BY <3>2 DEF AccSet
    <3> QED BY <3>1, <3>2, <3>3 DEF VmSet, AccSet, AllPerms
  <2>3. ASSUME NEW n \in 1 .. Depth, n < Depth PROVE stack[n].end = "running"
    <3>1. n + 1 \in 2 .. Len(stack) /\ n + 1 - 1 = n
      BY <2>1, <2>3
    <3>2. Link(stack[n + 1 - 1], stack[n + 1])
      BY <3>1 DEF IInv, StackInv
    <3> QED BY <3>1, <3>2 DEF Link
  <2> QED BY <2>1, <2>2, <2>3 DEF TypeOK, IInv, FeesInv, RunInv
<1>2. IInv => RefusedOnlyIfShort
  <2> SUFFICES ASSUME IInv PROVE RefusedOnlyIfShort
    OBVIOUS
  <2>0. remaining \in [Buckets -> Nat]
    BY DEF IInv, FeesInv, FeesTypeOK
  <2>1. ASSUME NEW cat \in Categories, NEW costs \in CostVecs(cat)
        PROVE  RawFits(cat, costs) <=> \A b \in Buckets : Deduction(cat, costs, b) <= remaining[b]
    BY <2>0, FitsIffBucketsBear
  <2>2. \A cat \in Categories : \A costs \in Costs[cat] \cup {Initials[cat]} : costs \in CostVecs(cat)
    BY FeesAssumption
  <2>3. ASSUME NEW fee \in Costs["message_fee"], NEW receipt \in Costs["message_receipt"],
               MessageFits(fee, receipt)
        PROVE  RawFits("message_fee", fee) /\ RawFits("message_receipt", receipt)
    <3>1. /\ "message_fee" \in Categories /\ "message_receipt" \in Categories
          /\ fee \in CostVecs("message_fee") /\ receipt \in CostVecs("message_receipt")
      BY FeesAssumption DEF Categories
    <3>2. ASSUME NEW b \in Buckets
          PROVE  Deduction("message_fee", fee, b) <= remaining[b]
                 /\ Deduction("message_receipt", receipt, b) <= remaining[b]
      <4>1. Deduction("message_fee", fee, b) \in Nat /\ Deduction("message_receipt", receipt, b) \in Nat
        BY <3>1, DeductionType
      <4>2. Deduction("message_fee", fee, b) + Deduction("message_receipt", receipt, b) <= remaining[b]
        BY <2>3 DEF MessageFits, MessageDeduction
      <4>3. PICK x \in Nat, y \in Nat, r \in Nat :
              /\ x = Deduction("message_fee", fee, b) /\ y = Deduction("message_receipt", receipt, b)
              /\ r = remaining[b]
        <5>1. remaining[b] \in Nat
          BY <2>0
        <5> QED BY <4>1, <5>1, Zenon
      <4>4. x + y <= r
        BY <4>2, <4>3
      <4>5. x <= r /\ y <= r
        BY ONLY <4>4, x \in Nat, y \in Nat, r \in Nat
      <4> QED BY <4>3, <4>5
    <3> QED BY <2>1, <3>1, <3>2
  <2> QED BY <2>1, <2>2, <2>3 DEF RefusedOnlyIfShort
<1>3. IInv => AccountsBalance
  BY DEF IInv, FeesInv
<1>4. IInv => FeesExact
  BY <1>1, <1>2, <1>3 DEF FeesExact
<1> QED BY <1>4, InductiveInvariant, PTL

(* What has been emitted or written is never taken back: not by a failed   *)
(* sandbox, a trap or a refused charge (spawn_apply_run).                  *)
THEOREM EffectsAreKept == Spec => EffectsAppendOnly
<1> DEFINE FoundIn == \A h : stack \in Seq(VmSet) /\ IsHolder(h) => HolderIndex = h
           ExistsIn == stack \in Seq(VmSet) /\ stack # <<>> => \E h : IsHolder(h)
<1>1. FoundIn /\ ExistsIn
  BY HolderFound, HolderExists
<1>2. IInv /\ IInv' /\ FoundIn /\ FoundIn' /\ ExistsIn /\ ExistsIn' /\ [Next]_vars
        => [stack # <<>> /\ stack' # <<>> =>
              IsPrefix(Log, Log') /\ Holder.pages \subseteq Holder'.pages]_vars
  <2> SUFFICES ASSUME IInv, IInv', FoundIn, FoundIn', ExistsIn, ExistsIn', [Next]_vars,
                      stack # <<>>, stack' # <<>>
               PROVE  IsPrefix(Log, Log') /\ Holder.pages \subseteq Holder'.pages
    OBVIOUS
  <2>1. stack \in Seq(VmSet) /\ stack' \in Seq(VmSet)
    BY DEF IInv, StackInv
  <2>2. PICK h : IsHolder(h) /\ HolderIndex = h
    BY <2>1
  <2>3. PICK g : IsHolder(g)' /\ HolderIndex' = g
    BY <2>1
  <2>4. Extends(stack[h], stack'[g])
    BY <2>2, <2>3, StepKeeps DEF Kept
  <2>5. Holder = stack[h] /\ Holder' = stack'[g]
    BY <2>2, <2>3 DEF Holder
  <2> QED BY <2>4, <2>5 DEF Extends, Log
<1> QED BY <1>1, <1>2, InductiveInvariant, PTL DEF Spec, EffectsAppendOnly

(* The VMs do to the buckets only what DataLimit allows anyone to do: they *)
(* take whole charges, after the initial ones, and never give one back.    *)
THEOREM FeesRefinement == Spec => FeesSpec
<1>1. Init => FeesInit
  BY DEF Init
<1>2. IInv /\ [Next]_vars => [FeesNext]_feeVars
  <2> SUFFICES ASSUME IInv, [Next]_vars PROVE [FeesNext]_feeVars
    OBVIOUS
  <2>0. stack # <<>> => ChargingDone
    BY DEF IInv, RunInv
  <2>1. CASE ConsumeInitial
    BY <2>1 DEF FeesNext
  <2>2. CASE WriteCode
    <3>1. Consume
      BY <2>2 DEF WriteCode, Preparing, Consume
    <3> QED BY <3>1 DEF FeesNext
  <2>3. CASE SendMessage
    <3>1. ChargingDone /\ UNCHANGED <<totals, charging>>
      BY <2>0, <2>3 DEF SendMessage, Allowed, Running, Depth
    <3>2. \/ UNCHANGED <<remaining, consumed>>
          \/ \E fee \in Costs["message_fee"], receipt \in Costs["message_receipt"] :
                ConsumeMessageFee(fee, receipt)
      BY <2>3 DEF SendMessage, OomTrap
    <3>3. CASE UNCHANGED <<remaining, consumed>>
      BY <3>1, <3>3 DEF feeVars
    <3>4. CASE \E fee \in Costs["message_fee"], receipt \in Costs["message_receipt"] :
                 ConsumeMessageFee(fee, receipt)
      <4>1. ConsumeMessage
        BY <3>1, <3>4 DEF ConsumeMessage
      <4> QED BY <4>1 DEF FeesNext
    <3> QED BY <3>2, <3>3, <3>4
  <2>4. ASSUME NEW cat \in {"storage", "nondet_output", "event"},
               UNCHANGED <<totals, charging>>, stack # <<>>,
               \/ UNCHANGED <<remaining, consumed>>
               \/ \E costs \in Costs[cat] : ConsumeBucketRaw(cat, costs)
        PROVE  [FeesNext]_feeVars
    <3>1. CASE UNCHANGED <<remaining, consumed>>
      BY <2>4, <3>1 DEF feeVars
    <3>2. CASE \E costs \in Costs[cat] : ConsumeBucketRaw(cat, costs)
      <4>1. Consume
        BY <2>0, <2>4, <3>2 DEF Consume
      <4> QED BY <4>1 DEF FeesNext
    <3> QED BY <2>4, <3>1, <3>2
  <2>5. CASE EmitEvent
    <3>1. /\ UNCHANGED <<totals, charging>> /\ stack # <<>>
          /\ \/ UNCHANGED <<remaining, consumed>>
             \/ \E costs \in Costs["event"] : ConsumeBucketRaw("event", costs)
      BY <2>5 DEF EmitEvent, Allowed, Running, Depth, OomTrap
    <3> QED BY <2>4, <3>1
  <2>6. CASE StorageWrite
    <3>1. /\ UNCHANGED <<totals, charging>> /\ stack # <<>>
          /\ \/ UNCHANGED <<remaining, consumed>>
             \/ \E costs \in Costs["storage"] : ConsumeBucketRaw("storage", costs)
      BY <2>6 DEF StorageWrite, Allowed, Running, Depth, OomTrap
    <3> QED BY <2>4, <3>1
  <2>7. CASE NondetReturns
    <3>1. /\ UNCHANGED <<totals, charging>> /\ stack # <<>>
          /\ \/ UNCHANGED <<remaining, consumed>>
             \/ \E costs \in Costs["nondet_output"] : ConsumeBucketRaw("nondet_output", costs)
      BY <2>7 DEF NondetReturns, Ended, Depth, Refused
    <3> QED BY <2>4, <3>1
  <2>8. CASE UNCHANGED feeVars
    BY <2>8
  <2>9. \/ ConsumeInitial \/ WriteCode \/ SendMessage \/ EmitEvent \/ StorageWrite \/ NondetReturns
        \/ UNCHANGED feeVars
    <3>1. CASE PreparationFails \/ StartMain \/ CallContract \/ Sandbox \/ RunNondet \/ EndVm
               \/ CallReturns \/ SandboxReturns \/ MainReturns
      BY <3>1 DEF PreparationFails, StartMain, CallContract, Sandbox, RunNondet, EndVm,
                  CallReturns, SandboxReturns, MainReturns
    <3>2. CASE Finished \/ UNCHANGED vars
      BY <3>2 DEF Finished, vars
    <3> QED BY <3>1, <3>2 DEF Next
  <2> QED BY <2>1, <2>2, <2>3, <2>5, <2>6, <2>7, <2>8, <2>9
<1> QED BY <1>1, <1>2, InductiveInvariant, PTL DEF Spec, FeesSpec

=============================================================================
