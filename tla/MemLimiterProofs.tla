-------------------------- MODULE MemLimiterProofs --------------------------
(***************************************************************************)
(* Proofs about MemLimiter, for any finite set of limiters, any width of   *)
(* the counters and any requests.                                          *)
(***************************************************************************)
EXTENDS MemLimiter, SumTheorems

(* What the locals and the blocks of a limiter say of its counters.        *)
Fits(l) ==
    /\ at[l] # "dead" => SumFunction(blocks[l]) <= consumed[l]
    /\ at[l] \in {"load", "cas", "min", "add"} => Amount(l) <= U32Max
    /\ at[l] \in {"cas", "min", "add"} => Amount(l) <= seen[l]
    /\ at[l] = "sub" => blocks[l] # <<>>
    /\ at[l] = "drop" => seen[l] = consumed[l]
    /\ at[l] \in {"called", "load", "cas", "min", "add"} => answer[l] = "none"

(* LowWaterIsExact does not say where the low-water mark is while it is    *)
(* being noted: with the limiter that has lowered the counter to it.       *)
LowWater ==
    /\ lowest <= least
    /\ \A l \in Limiters : at[l] = "min" => lowest <= seen[l] - Amount(l)
    /\ least = lowest \/ \E l \in Limiters : at[l] = "min" /\ seen[l] - Amount(l) = lowest

IInv ==
    /\ TypeOK /\ Conserved /\ ReleaseNeverOverflows /\ LowWater
    /\ \A l \in Limiters : Fits(l)

(* The step is one of limiter l.                                           *)
Only(l) ==
    \A k \in Limiters \ {l} :
        /\ at'[k] = at[k] /\ consumed'[k] = consumed[k] /\ request'[k] = request[k]
        /\ seen'[k] = seen[k] /\ blocks'[k] = blocks[k] /\ answer'[k] = answer[k]

-----------------------------------------------------------------------------
LEMMA AmountType ==
    ASSUME TypeOK, NEW l \in Limiters
    PROVE  Amount(l) \in Nat /\ request[l].delta \in Nat /\ request[l].delta <= Amount(l)
<1>1. request[l].delta \in Nat
  BY ConstantsAssumption DEF TypeOK, NoRequest
<1>2. Scale(request[l]) \in Nat \ {0}
  BY ConstantsAssumption DEF Scale
<1> DEFINE d == request[l].delta
           s == Scale(request[l])
<1>3. d \in Nat /\ s \in Nat /\ s >= 1
  BY <1>1, <1>2
<1> HIDE DEF d, s
<1>4. d * s \in Nat /\ d <= d * s
  BY ONLY <1>3
<1> QED BY <1>1, <1>4 DEF Amount, d, s

(* The bytes a limiter may release one by one are bytes it has consumed.   *)
LEMMA BlocksType ==
    ASSUME NEW l \in Limiters, blocks \in [Limiters -> Seq(Nat)]
    PROVE  /\ SumFunction(blocks[l]) \in Nat
           /\ blocks[l] # <<>> =>
                /\ Head(blocks[l]) \in Nat /\ Tail(blocks[l]) \in Seq(Nat)
                /\ SumFunction(Tail(blocks[l])) \in Nat
                /\ SumFunction(blocks[l]) = Head(blocks[l]) + SumFunction(Tail(blocks[l]))
<1> DEFINE s == blocks[l]
<1>1. s \in Seq(Int) /\ DOMAIN s = 1 .. Len(s) /\ Len(s) \in Nat
  OBVIOUS
<1>2. \A t \in Seq(Nat) : SumFunction(t) \in Nat
  <2> TAKE t \in Seq(Nat)
  <2>1. IsFiniteSet(1 .. Len(t)) /\ DOMAIN t = 1 .. Len(t)
    BY FS_Interval
  <2>2. \A i \in DOMAIN t : t[i] \in Nat
    OBVIOUS
  <2> QED BY <2>1, <2>2, SumNat DEF SumFunction
<1>3. ASSUME s # <<>>
      PROVE  /\ Head(s) \in Nat /\ Tail(s) \in Seq(Nat)
             /\ SumFunction(s) = Head(s) + SumFunction(Tail(s))
  <2>1. Head(s) \in Nat /\ Tail(s) \in Seq(Nat)
    BY <1>3
  <2> QED BY <1>1, <1>3, <2>1, SumTail
<1> QED BY <1>2, <1>3

LEMMA OwnsType ==
    ASSUME IInv, NEW l \in Limiters
    PROVE  /\ Owns(l) \in 0 .. U32Max
           /\ remaining + Owns(l) <= U32Max
<1>1. \A k \in Limiters : Owns(k) \in Nat
  <2> TAKE k \in Limiters
  <2>1. Fits(k) /\ TypeOK
    BY DEF IInv
  <2>2. Amount(k) \in Nat /\ consumed[k] \in Nat
    BY <2>1, AmountType DEF TypeOK
  <2>3. CASE at[k] = "sub"
    <3>1. /\ Head(blocks[k]) \in Nat /\ SumFunction(Tail(blocks[k])) \in Nat
          /\ SumFunction(blocks[k]) = Head(blocks[k]) + SumFunction(Tail(blocks[k]))
      BY <2>1, <2>3, BlocksType DEF Fits, TypeOK
    <3>2. SumFunction(blocks[k]) <= consumed[k]
      BY <2>1, <2>3 DEF Fits
    <3>3. consumed[k] - Head(blocks[k]) \in Nat
      BY <2>2, <3>1, <3>2
    <3> QED BY <2>3, <3>3 DEF Owns
  <2>4. CASE at[k] # "sub"
    BY <2>2, <2>4 DEF Owns
  <2> QED BY <2>3, <2>4
<1>2. IsFiniteSet(Limiters) /\ \A k \in Limiters : Holding[k] \in Nat
  BY <1>1, ConstantsAssumption DEF Holding
<1>3. /\ SumFunctionOnSet(Holding, Limiters) = Holding[l] + SumFunctionOnSet(Holding, Limiters \ {l})
      /\ SumFunctionOnSet(Holding, Limiters \ {l}) \in Nat
  <2>1. \A k \in Limiters : Holding[k] \in Int
    BY <1>2
  <2>2. IsFiniteSet(Limiters \ {l}) /\ \A k \in Limiters \ {l} : Holding[k] \in Nat
    BY <1>2, FS_RemoveElement
  <2>3. SumFunctionOnSet(Holding, Limiters \ {l}) \in Nat
    BY <2>2, SumNat
  <2> QED BY <1>2, <2>1, <2>3, SumSplit
<1>4. Holding[l] = Owns(l)
  BY DEF Holding
<1>5. remaining + SumFunctionOnSet(Holding, Limiters) = U32Max /\ remaining \in Nat /\ U32Max \in Nat
  BY ConstantsAssumption DEF IInv, Conserved, TypeOK
<1> QED BY <1>1, <1>3, <1>4, <1>5

(* What limiter l gives and takes is given to and taken from the shared    *)
(* counter: the sum stays.                                                 *)
LEMMA ConservedKept ==
    ASSUME IInv, NEW l \in Limiters, Only(l), Owns(l)' \in Int,
           remaining' = remaining + Owns(l) - Owns(l)'
    PROVE  Conserved'
<1>1. \A k \in Limiters \ {l} : Owns(k)' = Owns(k)
  BY DEF Only, Owns, Amount, Scale
<1>2. \A k \in Limiters : Owns(k) \in Int
  BY OwnsType
<1>3. \A k \in Limiters : Holding[k] = Owns(k) /\ Holding'[k] = Owns(k)'
  BY DEF Holding
<1> DEFINE h == Holding
           g == Holding'
<1>4. /\ \A k \in Limiters : h[k] \in Int /\ g[k] \in Int
      /\ \A k \in Limiters \ {l} : g[k] = h[k]
  BY <1>1, <1>2, <1>3
<1>5. IsFiniteSet(Limiters)
  BY ConstantsAssumption
<1> HIDE DEF h, g
<1>6. /\ SumFunctionOnSet(g, Limiters) = SumFunctionOnSet(h, Limiters) + g[l] - h[l]
      /\ SumFunctionOnSet(h, Limiters) \in Int
  BY <1>4, <1>5, SumUpdate, SumType
<1>7. remaining + SumFunctionOnSet(h, Limiters) = U32Max /\ remaining \in Int /\ U32Max \in Int
  BY ConstantsAssumption DEF IInv, Conserved, TypeOK, h
<1>8. g[l] = Owns(l)' /\ h[l] = Owns(l) /\ g[l] \in Int /\ h[l] \in Int
  BY <1>2, <1>3 DEF g, h
<1>9. remaining' + SumFunctionOnSet(g, Limiters) = U32Max
  BY <1>6, <1>7, <1>8
<1> QED BY <1>9 DEF Conserved, g

LEMMA OthersFit ==
    ASSUME IInv, NEW l \in Limiters, Only(l), Fits(l)'
    PROVE  \A k \in Limiters : Fits(k)'
<1> SUFFICES ASSUME NEW k \in Limiters \ {l} PROVE Fits(k)'
  OBVIOUS
<1>1. Fits(k)
  BY DEF IInv
<1> QED BY <1>1 DEF Fits, Only, Amount, Scale

LEMMA LowWaterKept ==
    ASSUME LowWater, NEW l \in Limiters, Only(l), at[l] # "min", at'[l] # "min",
           UNCHANGED <<least, lowest>>
    PROVE  LowWater'
<1>1. \A k \in Limiters : at'[k] = "min" =>
         at[k] = "min" /\ seen'[k] = seen[k] /\ Amount(k)' = Amount(k)
  BY DEF Only, Amount, Scale
<1>2. \A k \in Limiters : at[k] = "min" =>
         at'[k] = "min" /\ seen'[k] = seen[k] /\ Amount(k)' = Amount(k)
  BY DEF Only, Amount, Scale
<1> QED BY <1>1, <1>2 DEF LowWater

LEMMA StepKeeps ==
    ASSUME IInv, NEW l \in Limiters, Only(l), TypeOK', Fits(l)', Owns(l)' \in Int,
           remaining' = remaining + Owns(l) - Owns(l)', overflowed' = FALSE, LowWater'
    PROVE  IInv'
BY ConservedKept, OthersFit DEF IInv, ReleaseNeverOverflows

-----------------------------------------------------------------------------
(* One lemma per action.                                                   *)

LEMMA InitEstablishes == Init => IInv
<1> SUFFICES ASSUME Init PROVE IInv
  OBVIOUS
<1> USE ConstantsAssumption
<1>1. TypeOK
  <2>1. /\ remaining \in 0 .. U32Max /\ least \in 0 .. U32Max /\ lowest \in 0 .. U32Max
        /\ consumed \in [Limiters -> 0 .. U32Max] /\ seen \in [Limiters -> 0 .. U32Max]
    BY DEF Init
  <2>2. request \in [Limiters -> Requests \cup {NoRequest}]
    BY DEF Init
  <2>3. blocks \in [Limiters -> Seq(Nat)]
    BY DEF Init
  <2> QED BY <2>1, <2>2, <2>3 DEF Init, TypeOK
<1>2. \A l \in Limiters : Fits(l)
  <2> TAKE l \in Limiters
  <2>1. <<>> \in Seq(Nat) /\ DOMAIN <<>> = {}
    OBVIOUS
  <2>2. SumFunction(<<>>) = 0
    BY <2>1, SumEmpty DEF SumFunction
  <2>3. blocks[l] = <<>> /\ at[l] = "unborn" /\ consumed[l] = 0
    BY DEF Init
  <2> QED BY <2>1, <2>2, <2>3 DEF Fits
<1>3. Conserved
  <2>1. \A l \in Limiters : Holding[l] = 0
    BY DEF Init, Holding, Owns
  <2>3. SumFunctionOnSet(Holding, Limiters) = 0
    BY <2>1, ConstantsAssumption, SumZero
  <2> QED BY <2>3 DEF Init, Conserved
<1>4. LowWater /\ ReleaseNeverOverflows
  BY DEF Init, LowWater, ReleaseNeverOverflows
<1> QED BY <1>1, <1>2, <1>3, <1>4 DEF IInv

(* A step that changes neither counters nor blocks, nor what l owns.       *)
LEMMA QuietKeeps ==
    ASSUME IInv, NEW l \in Limiters, Only(l), TypeOK',
           UNCHANGED <<remaining, least, consumed, blocks, lowest, overflowed>>,
           at[l] \in {"unborn", "idle", "called", "load", "cas"},
           at'[l] \in {"idle", "called", "load", "cas", "drop"},
           at'[l] \in {"load", "cas"} => Amount(l)' <= U32Max,
           at'[l] = "cas" => Amount(l)' <= seen'[l],
           at'[l] = "drop" => seen'[l] = consumed[l],
           at'[l] \in {"called", "load", "cas"} => answer'[l] = "none"
    PROVE  IInv'
<1>1. Fits(l) /\ TypeOK /\ overflowed = FALSE
  BY DEF IInv, ReleaseNeverOverflows, TypeOK
<1>2. Owns(l) = consumed[l] /\ Owns(l)' = consumed[l] /\ consumed[l] \in Int /\ remaining \in Int
  BY <1>1 DEF Owns, TypeOK
<1>3. remaining' = remaining + Owns(l) - Owns(l)' /\ Owns(l)' \in Int
  BY <1>2
<1>4. Fits(l)'
  BY <1>1 DEF Fits
<1>5. LowWater'
  BY LowWaterKept DEF IInv
<1> QED BY <1>1, <1>3, <1>4, <1>5, StepKeeps

LEMMA DeriveKeeps == ASSUME IInv, NEW l \in Limiters, Derive(l) PROVE IInv'
<1>1. TypeOK
  BY DEF IInv
<1>2. TypeOK' /\ Only(l) /\ at'[l] = "idle"
  BY <1>1 DEF TypeOK, Only, Derive, Goto
<1> QED BY <1>2, QuietKeeps DEF Derive

LEMMA AskKeeps == ASSUME IInv, NEW l \in Limiters, Ask(l) PROVE IInv'
<1>1. TypeOK
  BY DEF IInv
<1>2. TypeOK' /\ Only(l) /\ at'[l] = "called" /\ answer'[l] = "none"
  BY <1>1 DEF TypeOK, Only, Ask, Goto
<1> QED BY <1>2, QuietKeeps DEF Ask

(* A refusal.                                                              *)
LEMMA RefusalKeeps ==
    ASSUME IInv, NEW l \in Limiters, NEW a \in {"no", "trap"}, Return(l, a),
           at[l] \in {"called", "load", "cas"},
           UNCHANGED <<remaining, least, consumed, blocks, lowest, overflowed>>
    PROVE  IInv'
<1>1. TypeOK
  BY DEF IInv
<1>2. TypeOK' /\ Only(l) /\ at'[l] = "idle"
  BY <1>1, ConstantsAssumption DEF TypeOK, Only, Return, Goto
<1> QED BY <1>2, QuietKeeps

LEMMA RefusalType == ASSUME NEW r PROVE Refusal(r) \in {"no", "trap"}
BY DEF Refusal

LEMMA CheckKeeps == ASSUME IInv, NEW l \in Limiters, Check(l) PROVE IInv'
<1>1. CASE \E a \in {"no", "trap"} : Return(l, a)
  BY <1>1, RefusalKeeps DEF Check
<1>2. CASE Amount(l) <= U32Max /\ Goto(l, "load") /\ UNCHANGED <<request, seen, answer>>
  <2>1. TypeOK /\ Fits(l)
    BY DEF IInv
  <2>2. TypeOK' /\ Only(l) /\ at'[l] = "load" /\ at[l] = "called"
    BY <1>2, <2>1 DEF TypeOK, Only, Check, Goto
  <2>3. Amount(l)' <= U32Max
    BY <1>2 DEF Amount, Scale
  <2>4. answer'[l] = "none"
    BY <1>2, <2>1, <2>2 DEF Fits
  <2> QED BY <2>2, <2>3, <2>4, QuietKeeps DEF Check
<1> QED BY <1>1, <1>2, RefusalType DEF Check

LEMMA ConsiderKeeps ==
    ASSUME IInv, NEW l \in Limiters, at[l] \in {"load", "cas"}, Consider(l),
           UNCHANGED <<remaining, least, consumed, blocks, lowest, overflowed>>
    PROVE  IInv'
<1>1. CASE Amount(l) > remaining /\ Return(l, Refusal(request[l]))
  BY <1>1, RefusalKeeps, RefusalType
<1>2. CASE /\ Amount(l) <= remaining /\ Goto(l, "cas")
           /\ seen' = [seen EXCEPT ![l] = remaining] /\ UNCHANGED <<request, answer>>
  <2>1. TypeOK /\ Fits(l)
    BY DEF IInv
  <2>2. TypeOK' /\ Only(l) /\ at'[l] = "cas" /\ seen'[l] = remaining
    BY <1>2, <2>1 DEF TypeOK, Only, Goto
  <2>3. Amount(l)' = Amount(l)
    BY <1>2 DEF Amount, Scale
  <2>4. answer'[l] = "none" /\ Amount(l) <= U32Max
    BY <1>2, <2>1, <2>2 DEF Fits
  <2> QED BY <1>2, <2>2, <2>3, <2>4, QuietKeeps
<1> QED BY <1>1, <1>2 DEF Consider

LEMMA ConsumeLoadKeeps == ASSUME IInv, NEW l \in Limiters, ConsumeLoad(l) PROVE IInv'
BY ConsiderKeeps DEF ConsumeLoad

LEMMA ConsumeCasKeeps == ASSUME IInv, NEW l \in Limiters, ConsumeCas(l) PROVE IInv'
<1>1. CASE remaining # seen[l] /\ Consider(l) /\ UNCHANGED <<remaining, lowest>>
  BY <1>1, ConsiderKeeps DEF ConsumeCas
<1>2. CASE /\ remaining = seen[l] /\ remaining' = seen[l] - Amount(l)
           /\ lowest' = LowerOf(lowest, remaining') /\ Goto(l, "min")
           /\ UNCHANGED <<request, seen, answer>>
  <2>1. /\ TypeOK /\ Fits(l) /\ LowWater /\ overflowed = FALSE /\ at[l] = "cas"
        /\ UNCHANGED <<least, consumed, blocks, overflowed>>
    BY DEF IInv, ReleaseNeverOverflows, TypeOK, ConsumeCas
  <2>2. /\ Amount(l) \in Nat /\ Amount(l) <= seen[l] /\ Amount(l) <= U32Max
        /\ remaining \in 0 .. U32Max /\ U32Max \in Nat /\ consumed[l] \in Nat
        /\ lowest \in 0 .. U32Max
    BY <2>1, AmountType, ConstantsAssumption DEF Fits, TypeOK
  <2>3. remaining' \in 0 .. U32Max /\ lowest' \in 0 .. U32Max
    BY <1>2, <2>2 DEF LowerOf
  <2>4. TypeOK' /\ Only(l) /\ at'[l] = "min"
    BY <1>2, <2>1, <2>3 DEF TypeOK, Only, Goto
  <2>5. Amount(l)' = Amount(l) /\ \A k \in Limiters : Amount(k)' = Amount(k) /\ seen'[k] = seen[k]
    BY <1>2 DEF Amount, Scale
  <2>6. Owns(l) = consumed[l] /\ Owns(l)' = consumed[l] + Amount(l)
    BY <2>1, <2>4, <2>5 DEF Owns
  <2>7. remaining' = remaining + Owns(l) - Owns(l)' /\ Owns(l)' \in Int
    BY <1>2, <2>2, <2>6
  <2>8. Fits(l)'
    BY <1>2, <2>1, <2>2, <2>4, <2>5 DEF Fits
  <2>9. LowWater'
    <3>1. \A k \in Limiters \ {l} : at'[k] = at[k]
      BY <2>4 DEF Only
    <3>2. lowest' <= lowest /\ lowest' <= seen[l] - Amount(l)
          /\ (lowest' = lowest \/ lowest' = seen[l] - Amount(l))
      BY <1>2, <2>2, <2>3 DEF LowerOf
    <3>3. least \in Int /\ \A k \in Limiters : seen[k] - Amount(k) \in Int
      BY <2>1, AmountType DEF TypeOK
    <3>4. lowest' <= least'
      BY <2>1, <2>2, <2>3, <3>2, <3>3 DEF LowWater
    <3>5. \A k \in Limiters : at'[k] = "min" => lowest' <= seen'[k] - Amount(k)'
      <4> TAKE k \in Limiters
      <4> HAVE at'[k] = "min"
      <4>1. CASE k = l
        BY <2>5, <3>2, <4>1
      <4>2. CASE k # l
        <5>1. lowest <= seen[k] - Amount(k)
          BY <2>1, <3>1, <4>2 DEF LowWater
        <5> DEFINE d == seen[k] - Amount(k)
        <5>2. d \in Int /\ lowest <= d /\ lowest' <= lowest /\ lowest \in Int /\ lowest' \in Int
          BY <2>2, <2>3, <3>2, <3>3, <5>1
        <5> HIDE DEF d
        <5>3. lowest' <= d
          BY ONLY <5>2
        <5> QED BY <2>5, <5>3 DEF d
      <4> QED BY <4>1, <4>2
    <3>6. least' = lowest' \/ \E k \in Limiters : at'[k] = "min" /\ seen'[k] - Amount(k)' = lowest'
      <4>1. CASE lowest' = seen[l] - Amount(l)
        BY <2>4, <2>5, <4>1
      <4>2. CASE lowest' = lowest
        <5>1. least = lowest \/ \E k \in Limiters : at[k] = "min" /\ seen[k] - Amount(k) = lowest
          BY <2>1 DEF LowWater
        <5> QED BY <2>1, <2>5, <3>1, <4>2, <5>1
      <4> QED BY <3>2, <4>1, <4>2
    <3> QED BY <3>4, <3>5, <3>6 DEF LowWater
  <2> QED BY <2>1, <2>4, <2>7, <2>8, <2>9, StepKeeps
<1> QED BY <1>1, <1>2 DEF ConsumeCas

LEMMA ConsumeMinKeeps == ASSUME IInv, NEW l \in Limiters, ConsumeMin(l) PROVE IInv'
<1>1. /\ TypeOK /\ Fits(l) /\ LowWater /\ overflowed = FALSE /\ at[l] = "min"
      /\ least' = LowerOf(least, seen[l] - Amount(l)) /\ Goto(l, "add")
      /\ UNCHANGED <<remaining, consumed, request, seen, blocks, answer, lowest, overflowed>>
  BY DEF IInv, ReleaseNeverOverflows, TypeOK, ConsumeMin
<1>2. /\ Amount(l) \in Nat /\ Amount(l) <= seen[l] /\ seen[l] \in 0 .. U32Max /\ U32Max \in Nat
      /\ least \in 0 .. U32Max /\ lowest \in 0 .. U32Max /\ consumed[l] \in Nat /\ remaining \in Nat
  BY <1>1, AmountType, ConstantsAssumption DEF Fits, TypeOK
<1>3. least' \in 0 .. U32Max
  BY <1>1, <1>2 DEF LowerOf
<1>4. TypeOK' /\ Only(l) /\ at'[l] = "add"
  BY <1>1, <1>3 DEF TypeOK, Only, Goto
<1>5. \A k \in Limiters : Amount(k)' = Amount(k) /\ seen'[k] = seen[k]
  BY <1>1 DEF Amount, Scale
<1>6. Owns(l)' = Owns(l) /\ Owns(l) \in Int
  BY <1>1, <1>2, <1>4, <1>5 DEF Owns
<1>7. remaining' = remaining + Owns(l) - Owns(l)' /\ Owns(l)' \in Int
  BY <1>1, <1>2, <1>6
<1>8. Fits(l)'
  BY <1>1, <1>4, <1>5 DEF Fits
<1>9. LowWater'
  <2>1. \A k \in Limiters \ {l} : at'[k] = at[k]
    BY <1>4 DEF Only
  <2>2. lowest <= seen[l] - Amount(l) /\ lowest <= least
    BY <1>1 DEF LowWater
  <2>3. lowest' <= least' /\ (seen[l] - Amount(l) = lowest => least' = lowest)
        /\ (least = lowest => least' = lowest)
    BY <1>1, <1>2, <1>3, <2>2 DEF LowerOf
  <2>4. \A k \in Limiters : at'[k] = "min" => lowest' <= seen'[k] - Amount(k)'
    BY <1>1, <1>4, <1>5, <2>1 DEF LowWater
  <2>5. least' = lowest' \/ \E k \in Limiters : at'[k] = "min" /\ seen'[k] - Amount(k)' = lowest'
    <3>1. least = lowest \/ \E k \in Limiters : at[k] = "min" /\ seen[k] - Amount(k) = lowest
      BY <1>1 DEF LowWater
    <3> QED BY <1>1, <1>5, <2>1, <2>3, <3>1
  <2> QED BY <2>3, <2>4, <2>5 DEF LowWater
<1> QED BY <1>1, <1>4, <1>7, <1>8, <1>9, StepKeeps

LEMMA ConsumeAddKeeps == ASSUME IInv, NEW l \in Limiters, ConsumeAdd(l) PROVE IInv'
<1>1. /\ TypeOK /\ Fits(l) /\ overflowed = FALSE /\ at[l] = "add"
      /\ consumed' = [consumed EXCEPT ![l] = Wrap(@ + Amount(l))]
      /\ Return(l, "yes") /\ UNCHANGED <<remaining, least, lowest, overflowed>>
  BY DEF IInv, ReleaseNeverOverflows, TypeOK, ConsumeAdd
<1>2. /\ Amount(l) \in Nat /\ consumed[l] \in Nat /\ U32Max \in Nat /\ remaining \in Int
      /\ Owns(l) = consumed[l] + Amount(l) /\ consumed[l] + Amount(l) <= U32Max
  <2>1. Owns(l) \in 0 .. U32Max
    BY OwnsType
  <2> QED BY <1>1, <2>1, AmountType, ConstantsAssumption DEF TypeOK, Owns
<1>3. Wrap(consumed[l] + Amount(l)) = consumed[l] + Amount(l)
  <2> DEFINE n == consumed[l] + Amount(l)
  <2>1. n \in Nat /\ n <= U32Max /\ U32Max \in Nat
    BY <1>2
  <2> HIDE DEF n
  <2>2. n % (U32Max + 1) = n
    BY ONLY <2>1
  <2> QED BY <2>2 DEF n, Wrap
<1>4. consumed' \in [Limiters -> 0 .. U32Max] /\ consumed'[l] = consumed[l] + Amount(l)
  BY <1>1, <1>2, <1>3 DEF TypeOK
<1>5. \A k \in Limiters \ {l} : blocks'[k] = blocks[k]
  <2>1. CASE request[l].kind = "plain"
    BY <2>1 DEF ConsumeAdd
  <2>2. CASE request[l].kind # "plain"
    BY <2>2 DEF ConsumeAdd
  <2> QED BY <2>1, <2>2
<1>6. Only(l) /\ at'[l] = "idle"
  BY <1>1, <1>4, <1>5 DEF TypeOK, Only, Return, Goto
<1>7. remaining' = remaining + Owns(l) - Owns(l)' /\ Owns(l)' \in Int
  <2>1. Owns(l)' = consumed'[l]
    BY <1>6 DEF Owns
  <2> QED BY <1>1, <1>2, <1>4, <2>1
<1>8. blocks'[l] \in Seq(Nat) /\ SumFunction(blocks'[l]) <= consumed'[l]
  <2>1. blocks[l] \in Seq(Nat) /\ SumFunction(blocks[l]) <= consumed[l]
    BY <1>1 DEF Fits, TypeOK
  <2>2. SumFunction(blocks[l]) \in Nat
    BY <1>1, BlocksType DEF TypeOK
  <2>3. CASE request[l].kind # "plain"
    <3>1. blocks'[l] = blocks[l]
      BY <2>3 DEF ConsumeAdd
    <3> QED BY <1>2, <1>4, <2>1, <2>2, <3>1
  <2>4. CASE request[l].kind = "plain"
    <3>1. l \in DOMAIN blocks => blocks'[l] = Append(blocks[l], Amount(l))
      BY <2>4 DEF ConsumeAdd
    <3>2. SumFunction(Append(blocks[l], Amount(l))) = SumFunction(blocks[l]) + Amount(l)
      <4>1. blocks[l] \in Seq(Int) /\ Amount(l) \in Int
        BY <1>2, <2>1
      <4> QED BY <4>1, SumAppend
    <3>3. l \in DOMAIN blocks
      BY <1>1 DEF TypeOK
    <3>4. Append(blocks[l], Amount(l)) \in Seq(Nat)
      BY <1>2, <2>1
    <3>5. blocks'[l] = Append(blocks[l], Amount(l))
      BY <3>1, <3>3
    <3> DEFINE a == SumFunction(blocks[l])
    <3>6. SumFunction(blocks'[l]) = a + Amount(l) /\ a \in Nat /\ a <= consumed[l]
      BY <2>1, <2>2, <3>2, <3>5
    <3> HIDE DEF a
    <3>7. SumFunction(blocks'[l]) <= consumed'[l]
      BY <1>2, <1>4, <3>6
    <3> QED BY <3>4, <3>5, <3>7
  <2> QED BY <2>3, <2>4
<1>9. Fits(l)'
  BY <1>6, <1>8 DEF Fits
<1>11. TypeOK'
  <2>1. blocks' \in [Limiters -> Seq(Nat)]
    BY <1>1, <1>8 DEF ConsumeAdd, TypeOK
  <2> QED BY <1>1, <1>2, <1>4, <2>1 DEF TypeOK, Return, Goto
<1>10. LowWater'
  BY <1>1, <1>6, LowWaterKept DEF IInv
<1> QED BY <1>1, <1>6, <1>7, <1>9, <1>10, <1>11, StepKeeps

LEMMA GiveBackFits ==
    ASSUME IInv, NEW l \in Limiters, NEW n \in Nat, n <= Owns(l), GiveBack(n)
    PROVE  remaining' = remaining + n /\ remaining' \in 0 .. U32Max /\ overflowed' = FALSE
<1>1. /\ Owns(l) \in 0 .. U32Max /\ remaining + Owns(l) <= U32Max
      /\ U32Max \in Nat /\ remaining \in Nat /\ overflowed = FALSE
  BY OwnsType, ConstantsAssumption DEF IInv, TypeOK, ReleaseNeverOverflows
<1> DEFINE s == remaining + n
<1>2. s \in Nat /\ s <= U32Max
  BY <1>1
<1> HIDE DEF s
<1>3. s % (U32Max + 1) = s
  BY ONLY <1>1, <1>2
<1>4. remaining' = Wrap(s) /\ overflowed' = (overflowed \/ s > U32Max)
  BY DEF GiveBack, s
<1>5. overflowed' = FALSE
  <2>1. ~(s > U32Max)
    BY <1>1, <1>2
  <2> QED BY <1>1, <1>4, <2>1, Zenon
<1> QED BY <1>2, <1>3, <1>4, <1>5 DEF Wrap, s

LEMMA ReleaseSharedKeeps == ASSUME IInv, NEW l \in Limiters, ReleaseShared(l) PROVE IInv'
<1> DEFINE n == Head(blocks[l])
<1>1. /\ TypeOK /\ Fits(l) /\ at[l] = "idle" /\ blocks[l] # <<>> /\ GiveBack(n) /\ Goto(l, "sub")
      /\ UNCHANGED <<least, consumed, request, seen, blocks, answer, lowest>>
  BY DEF IInv, ReleaseShared
<1>2. /\ n \in Nat /\ SumFunction(Tail(blocks[l])) \in Nat
      /\ SumFunction(blocks[l]) = n + SumFunction(Tail(blocks[l]))
  BY <1>1, BlocksType DEF TypeOK
<1>3. SumFunction(blocks[l]) <= consumed[l] /\ consumed[l] \in Nat /\ Owns(l) = consumed[l]
  BY <1>1 DEF Fits, TypeOK, Owns
<1>4. n <= Owns(l)
  BY <1>2, <1>3
<1>5. remaining' = remaining + n /\ remaining' \in 0 .. U32Max /\ overflowed' = FALSE
  BY <1>1, <1>2, <1>4, GiveBackFits
<1>6. TypeOK' /\ Only(l) /\ at'[l] = "sub"
  BY <1>1, <1>5 DEF TypeOK, Only, Goto
<1>7. Owns(l)' = consumed[l] - n
  BY <1>1, <1>6 DEF Owns
<1>8. remaining' = remaining + Owns(l) - Owns(l)' /\ Owns(l)' \in Int
  <2>1. remaining \in Int
    BY <1>1 DEF TypeOK
  <2> HIDE DEF n
  <2> QED BY <1>2, <1>3, <1>5, <1>7, <2>1
<1>9. Fits(l)'
  BY <1>1, <1>6 DEF Fits
<1>10. LowWater'
  BY <1>1, <1>6, LowWaterKept DEF IInv
<1> QED BY <1>5, <1>6, <1>8, <1>9, <1>10, StepKeeps

LEMMA ReleaseOwnKeeps == ASSUME IInv, NEW l \in Limiters, ReleaseOwn(l) PROVE IInv'
<1> DEFINE n == Head(blocks[l])
<1>1. /\ TypeOK /\ Fits(l) /\ at[l] = "sub" /\ blocks[l] # <<>> /\ Goto(l, "idle") /\ overflowed = FALSE
      /\ consumed' = [consumed EXCEPT ![l] = Wrap(@ - n)]
      /\ blocks' = [blocks EXCEPT ![l] = Tail(@)]
      /\ UNCHANGED <<remaining, least, request, seen, answer, lowest, overflowed>>
  BY DEF IInv, ReleaseOwn, Fits, ReleaseNeverOverflows, TypeOK
<1>2. /\ n \in Nat /\ SumFunction(Tail(blocks[l])) \in Nat /\ Tail(blocks[l]) \in Seq(Nat)
      /\ SumFunction(blocks[l]) = n + SumFunction(Tail(blocks[l]))
  BY <1>1, BlocksType DEF TypeOK
<1>3. /\ SumFunction(blocks[l]) <= consumed[l] /\ consumed[l] \in 0 .. U32Max /\ U32Max \in Nat
      /\ Owns(l) = consumed[l] - n
  BY <1>1, ConstantsAssumption DEF Fits, TypeOK, Owns
<1> DEFINE c == consumed[l] - n
<1>4. c \in 0 .. U32Max /\ SumFunction(Tail(blocks[l])) <= c
  <2> HIDE DEF n
  <2> QED BY <1>2, <1>3
<1>5. Wrap(c) = c
  <2> HIDE DEF c
  <2>1. c % (U32Max + 1) = c
    BY ONLY <1>3, <1>4
  <2> QED BY <2>1 DEF Wrap
<1>6. consumed'[l] = c /\ blocks'[l] = Tail(blocks[l])
  BY <1>1, <1>5 DEF TypeOK
<1>7. TypeOK' /\ Only(l) /\ at'[l] = "idle"
  <2> HIDE DEF c, n
  <2>1. consumed' \in [Limiters -> 0 .. U32Max] /\ blocks' \in [Limiters -> Seq(Nat)]
    BY <1>1, <1>2, <1>4, <1>5 DEF TypeOK, c
  <2> QED BY <1>1, <2>1 DEF TypeOK, Only, Goto
<1>8. Owns(l)' = c /\ Owns(l) = c
  BY <1>3, <1>6, <1>7 DEF Owns
<1>9. remaining' = remaining + Owns(l) - Owns(l)' /\ Owns(l)' \in Int
  <2>1. remaining \in Int
    BY <1>1 DEF TypeOK
  <2> HIDE DEF c
  <2> QED BY <1>1, <1>4, <1>8, <2>1
<1>10. Fits(l)'
  BY <1>4, <1>6, <1>7 DEF Fits
<1>11. LowWater'
  BY <1>1, <1>7, LowWaterKept DEF IInv
<1> QED BY <1>1, <1>7, <1>9, <1>10, <1>11, StepKeeps

LEMMA DropLoadKeeps == ASSUME IInv, NEW l \in Limiters, DropLoad(l) PROVE IInv'
<1>1. TypeOK
  BY DEF IInv
<1>2. TypeOK' /\ Only(l) /\ at'[l] = "drop" /\ seen'[l] = consumed[l]
  BY <1>1 DEF TypeOK, Only, DropLoad, Goto
<1> QED BY <1>2, QuietKeeps DEF DropLoad

LEMMA DropReleaseKeeps == ASSUME IInv, NEW l \in Limiters, DropRelease(l) PROVE IInv'
<1>1. /\ TypeOK /\ Fits(l) /\ at[l] = "drop" /\ GiveBack(seen[l]) /\ Goto(l, "dead")
      /\ UNCHANGED <<least, consumed, request, seen, blocks, answer, lowest>>
  BY DEF IInv, DropRelease
<1>2. seen[l] = consumed[l] /\ Owns(l) = consumed[l] /\ seen[l] \in Nat /\ seen[l] <= Owns(l)
  BY <1>1 DEF Fits, TypeOK, Owns
<1>3. remaining' = remaining + seen[l] /\ remaining' \in 0 .. U32Max /\ overflowed' = FALSE
  BY <1>1, <1>2, GiveBackFits
<1>4. TypeOK' /\ Only(l) /\ at'[l] = "dead"
  BY <1>1, <1>3 DEF TypeOK, Only, Goto
<1>5. Owns(l)' = 0 /\ remaining \in Int
  BY <1>1, <1>4 DEF Owns, TypeOK
<1>6. remaining' = remaining + Owns(l) - Owns(l)' /\ Owns(l)' \in Int
  BY <1>2, <1>3, <1>5
<1>7. Fits(l)'
  BY <1>1, <1>4 DEF Fits
<1>8. LowWater'
  BY <1>1, <1>4, LowWaterKept DEF IInv
<1> QED BY <1>3, <1>4, <1>6, <1>7, <1>8, StepKeeps

LEMMA StutterKeeps == ASSUME IInv, UNCHANGED vars PROVE IInv'
BY DEF IInv, vars, TypeOK, Conserved, ReleaseNeverOverflows, LowWater, Fits, Holding, Owns, Amount, Scale

LEMMA NextKeeps == ASSUME IInv, [Next]_vars PROVE IInv'
<1>1. ASSUME NEW l \in Limiters,
             \/ Derive(l) \/ Ask(l) \/ Check(l) \/ ConsumeLoad(l) \/ ConsumeCas(l) \/ ConsumeMin(l)
             \/ ConsumeAdd(l) \/ ReleaseShared(l) \/ ReleaseOwn(l) \/ DropLoad(l) \/ DropRelease(l)
      PROVE  IInv'
  BY <1>1, DeriveKeeps, AskKeeps, CheckKeeps, ConsumeLoadKeeps, ConsumeCasKeeps, ConsumeMinKeeps,
     ConsumeAddKeeps, ReleaseSharedKeeps, ReleaseOwnKeeps, DropLoadKeeps, DropReleaseKeeps
<1>2. CASE AllDead
  BY <1>2, StutterKeeps DEF AllDead
<1> QED BY <1>1, <1>2, StutterKeeps DEF Next

-----------------------------------------------------------------------------
(* The invariant of consume, release and drop: it holds at every instant   *)
(* between two atomic operations of any threads.                           *)
THEOREM InductiveInvariant == Spec => []IInv
<1>1. Init => IInv
  BY InitEstablishes
<1>2. IInv /\ [Next]_vars => IInv'
  BY NextKeeps
<1> QED BY <1>1, <1>2, PTL DEF Spec

(* No unit of memory is lost or counted twice whatever the interleaving of *)
(* consume, release and drop, no u32 counter wraps, and the assert of      *)
(* release_no_consumed never fails.                                        *)
THEOREM MemoryIsConserved == Spec => []MemoryConserved
<1>1. IInv => MemoryConserved
  BY DEF IInv, MemoryConserved
<1> QED BY <1>1, InductiveInvariant, PTL

(* get_least_remaining_memory never misses a low-water mark: it is behind  *)
(* only while a consume is between its CAS and its fetch_min.              *)
THEOREM LowWaterSoundness == Spec => []LowWaterIsExact
<1>1. IInv => LowWaterIsExact
  BY DEF IInv, LowWater, LowWaterIsExact
<1> QED BY <1>1, InductiveInvariant, PTL

-----------------------------------------------------------------------------
(* The refinement of MemBudget.                                            *)

Step(l) ==
    \/ Derive(l) \/ Ask(l) \/ Check(l) \/ ConsumeLoad(l) \/ ConsumeCas(l) \/ ConsumeMin(l)
    \/ ConsumeAdd(l) \/ ReleaseShared(l) \/ ReleaseOwn(l) \/ DropLoad(l) \/ DropRelease(l)

(* What a step of l changes of the budget is about l.                      *)
LEMMA MappedStep ==
    ASSUME NEW l \in Limiters, Only(l)
    PROVE  /\ Holding' = [Holding EXCEPT ![l] = Owns(l)'] /\ Holding[l] = Owns(l)
           /\ Asked' = [Asked EXCEPT ![l] = Asked'[l]]
           /\ Answered' = [Answered EXCEPT ![l] = Answered'[l]]
<1>1. \A k \in Limiters \ {l} : Owns(k)' = Owns(k)
  BY DEF Only, Owns, Amount, Scale
<1>2. Holding' = [Holding EXCEPT ![l] = Owns(l)'] /\ Holding[l] = Owns(l)
  BY <1>1 DEF Holding
<1>3. \A k \in Limiters \ {l} : Asked'[k] = Asked[k] /\ Answered'[k] = Answered[k]
  BY DEF Only, Asked, Answered, Amount, Scale
<1>4. /\ Asked' = [k \in Limiters |-> Asked'[k]] /\ Asked = [k \in Limiters |-> Asked[k]]
      /\ Answered' = [k \in Limiters |-> Answered'[k]] /\ Answered = [k \in Limiters |-> Answered[k]]
  BY DEF Asked, Answered
<1> QED BY <1>2, <1>3, <1>4

LEMMA OnlyOf == ASSUME TypeOK, NEW l \in Limiters, Step(l) PROVE Only(l)
<1>1. CASE Derive(l) \/ Ask(l) \/ DropLoad(l) \/ ConsumeMin(l)
  BY <1>1 DEF TypeOK, Only, Derive, Ask, DropLoad, ConsumeMin, Goto
<1>2. CASE Check(l)
  BY <1>2 DEF TypeOK, Only, Check, Return, Goto
<1>3. CASE ConsumeLoad(l)
  BY <1>3 DEF TypeOK, Only, ConsumeLoad, Consider, Return, Goto
<1>4. CASE ConsumeCas(l)
  BY <1>4 DEF TypeOK, Only, ConsumeCas, Consider, Return, Goto
<1>5. CASE ConsumeAdd(l)
  BY <1>5 DEF TypeOK, Only, ConsumeAdd, Return, Goto
<1>6. CASE ReleaseShared(l) \/ ReleaseOwn(l) \/ DropRelease(l)
  BY <1>6 DEF TypeOK, Only, ReleaseShared, ReleaseOwn, DropRelease, Goto
<1> QED BY <1>1, <1>2, <1>3, <1>4, <1>5, <1>6 DEF Step

(* A step after which l owns, asks and is answered what it was before.     *)
LEMMA QuietStep ==
    ASSUME NEW l \in Limiters, Only(l), Owns(l)' = Owns(l),
           Asked'[l] = Asked[l], Answered'[l] = Answered[l]
    PROVE  UNCHANGED Budget!vars
<1>1. /\ Holding = [k \in Limiters |-> Holding[k]]
      /\ Asked = [k \in Limiters |-> Asked[k]] /\ Answered = [k \in Limiters |-> Answered[k]]
  BY DEF Asked, Answered, Holding
<1>2. UNCHANGED <<Holding, Asked, Answered>>
  BY <1>1, MappedStep
<1> QED BY <1>2 DEF Budget!vars

(* What the budget has given out is what the shared counter lacks.         *)
LEMMA TakenIs ==
    ASSUME IInv
    PROVE  /\ Budget!Taken \in Int /\ remaining + Budget!Taken = U32Max
           /\ remaining \in 0 .. U32Max /\ U32Max \in Nat
<1>1. \A k \in Limiters : Holding[k] \in Int
  BY OwnsType DEF Holding
<1>2. SumFunctionOnSet(Holding, Limiters) \in Int
  BY <1>1, SumType, ConstantsAssumption
<1>3. Budget!Taken = SumFunctionOnSet(Holding, Limiters)
  BY DEF Budget!Taken, Budget!SumFunctionOnSet, Budget!FoldFunctionOnSet, Budget!MapThenFoldSet,
         SumFunctionOnSet, FoldFunctionOnSet, MapThenFoldSet
<1> QED BY <1>2, <1>3, ConstantsAssumption DEF IInv, Conserved, TypeOK

LEMMA RefusalRefines ==
    ASSUME IInv, NEW l \in Limiters, NEW a \in {"no", "trap"}, Return(l, a),
           at[l] \in {"called", "load", "cas"}, Amount(l) > remaining,
           UNCHANGED <<remaining, consumed, blocks>>
    PROVE  Budget!Refuse(l)
<1>1. TypeOK
  BY DEF IInv
<1>2. Only(l) /\ at'[l] = "idle" /\ answer'[l] = a
  BY <1>1 DEF TypeOK, Only, Return, Goto
<1>3. Asked[l] = Amount(l) /\ Amount(l) \in Nat
  BY <1>1, AmountType DEF Asked
<1>4. Asked'[l] = -1 /\ Answered'[l] = "no"
  BY <1>2 DEF Asked, Answered
<1>5. Owns(l)' = Owns(l)
  BY <1>2 DEF Owns
<1>6. Holding' = Holding
  BY <1>2, <1>5, MappedStep DEF Holding
<1>7. Budget!Taken + Asked[l] > U32Max
  BY <1>3, TakenIs
<1>8. Asked[l] # -1
  BY <1>3
<1> QED BY <1>2, <1>4, <1>6, <1>7, <1>8, MappedStep DEF Budget!Refuse, Budget!Reply, Budget!None

LEMMA GrantRefines ==
    ASSUME IInv, NEW l \in Limiters, at[l] = "cas", remaining = seen[l], Goto(l, "min"),
           UNCHANGED <<request, seen, answer, consumed, blocks>>
    PROVE  Budget!Grant(l)
<1>1. TypeOK /\ Fits(l)
  BY DEF IInv
<1>2. Only(l) /\ at'[l] = "min" /\ Amount(l)' = Amount(l)
  BY <1>1 DEF TypeOK, Only, Goto, Amount, Scale
<1>3. Asked[l] = Amount(l) /\ Amount(l) \in Nat /\ Amount(l) <= remaining
  BY <1>1, AmountType DEF Asked, Fits
<1>4. Asked'[l] = -1 /\ Answered'[l] = "yes"
  <2>1. answer'[l] = "none"
    BY <1>1 DEF Fits
  <2> QED BY <1>2, <2>1 DEF Asked, Answered
<1>5. Owns(l)' = Owns(l) + Asked[l]
  BY <1>2, <1>3 DEF Owns
<1>6. Budget!Taken + Asked[l] <= U32Max
  BY <1>3, TakenIs
<1>7. Asked[l] # -1
  BY <1>3
<1>8. Holding' = [Holding EXCEPT ![l] = @ + Asked[l]]
  BY <1>2, <1>5, MappedStep
<1> QED BY <1>2, <1>4, <1>6, <1>7, <1>8, MappedStep DEF Budget!Grant, Budget!Reply, Budget!None

LEMMA ConsiderRefines ==
    ASSUME IInv, NEW l \in Limiters, at[l] \in {"load", "cas"}, Consider(l),
           UNCHANGED <<remaining, consumed, blocks>>
    PROVE  Budget!Refuse(l) \/ UNCHANGED Budget!vars
<1>1. CASE Amount(l) > remaining /\ Return(l, Refusal(request[l]))
  BY <1>1, RefusalType, RefusalRefines
<1>2. CASE /\ Amount(l) <= remaining /\ Goto(l, "cas")
           /\ seen' = [seen EXCEPT ![l] = remaining] /\ UNCHANGED <<request, answer>>
  <2>1. TypeOK
    BY DEF IInv
  <2>2. Only(l) /\ at'[l] = "cas" /\ Amount(l)' = Amount(l)
    BY <1>2, <2>1 DEF TypeOK, Only, Goto, Amount, Scale
  <2>3. Owns(l)' = Owns(l) /\ Asked'[l] = Asked[l] /\ Answered'[l] = Answered[l]
    BY <1>2, <2>2 DEF Owns, Asked, Answered
  <2> QED BY <2>2, <2>3, QuietStep
<1> QED BY <1>1, <1>2 DEF Consider

LEMMA ReleaseRefines ==
    ASSUME IInv, NEW l \in Limiters, Only(l), Asked'[l] = Asked[l], Answered'[l] = Answered[l],
           NEW n \in Nat, n <= Owns(l), Owns(l)' = Owns(l) - n
    PROVE  Budget!Return(l) \/ UNCHANGED Budget!vars
<1>1. Owns(l) \in Nat
  BY OwnsType
<1>2. CASE n = 0
  BY <1>1, <1>2, QuietStep
<1>3. CASE n # 0
  <2>1. n \in 1 .. Holding[l]
    BY <1>1, <1>3, MappedStep
  <2>2. Holding' = [Holding EXCEPT ![l] = @ - n]
    BY MappedStep
  <2>3. Asked = [k \in Limiters |-> Asked[k]] /\ Answered = [k \in Limiters |-> Answered[k]]
    BY DEF Asked, Answered
  <2>4. UNCHANGED <<Asked, Answered>>
    BY <2>3, MappedStep
  <2> QED BY <2>1, <2>2, <2>4 DEF Budget!Return
<1> QED BY <1>2, <1>3

LEMMA StepRefines ==
    ASSUME IInv, NEW l \in Limiters, Step(l)
    PROVE  [Budget!Next]_Budget!vars
<1>0. TypeOK /\ Fits(l) /\ Only(l)
  BY OnlyOf DEF IInv
<1>1. CASE Derive(l) \/ DropLoad(l) \/ ConsumeMin(l)
  <2>1. Amount(l)' = Amount(l)
    BY <1>1 DEF Derive, DropLoad, ConsumeMin, Amount, Scale
  <2>2. Owns(l)' = Owns(l) /\ Asked'[l] = Asked[l] /\ Answered'[l] = Answered[l]
    BY <1>0, <1>1, <2>1 DEF Derive, DropLoad, ConsumeMin, Goto, Owns, Asked, Answered, TypeOK, Fits
  <2> QED BY <1>0, <2>2, QuietStep
<1>2. CASE Ask(l)
  <2>1. /\ at[l] = "idle" /\ at'[l] = "called" /\ answer'[l] = "none"
        /\ UNCHANGED <<consumed, blocks>> /\ TypeOK'
    BY <1>0, <1>2 DEF Ask, Goto, TypeOK
  <2>2. Asked[l] = -1 /\ Asked'[l] = Amount(l)' /\ Answered'[l] = "none" /\ Owns(l)' = Owns(l)
    BY <2>1 DEF Asked, Answered, Owns
  <2>3. Amount(l)' \in Nat
    <3>1. request'[l] \in Requests
      BY <1>0, <1>2 DEF Ask, TypeOK
    <3>2. request'[l].delta \in Nat /\ Scale(request'[l]) \in Nat
      BY <3>1, ConstantsAssumption DEF Scale
    <3> QED BY <3>2 DEF Amount
  <2>4. Holding' = Holding
    BY <1>0, <2>2, MappedStep DEF Holding
  <2>5. Budget!Ask(l)
    BY <1>0, <2>2, <2>3, <2>4, MappedStep DEF Budget!Ask, Budget!None
  <2> QED BY <2>5 DEF Budget!Next
<1>3. CASE Check(l)
  <2>1. CASE Amount(l) <= U32Max /\ Goto(l, "load") /\ UNCHANGED <<request, seen, answer>>
    <3>1. at[l] = "called" /\ at'[l] = "load" /\ Amount(l)' = Amount(l) /\ UNCHANGED <<consumed, blocks>>
      BY <1>0, <1>3, <2>1 DEF Check, Goto, TypeOK, Amount, Scale
    <3>2. Owns(l)' = Owns(l) /\ Asked'[l] = Asked[l] /\ Answered'[l] = Answered[l]
      BY <2>1, <3>1 DEF Owns, Asked, Answered
    <3> QED BY <1>0, <3>2, QuietStep
  <2>2. CASE \E a \in {"no", "trap"} : Return(l, a) /\ (request[l].delta > U32Max \/ Amount(l) > U32Max)
    <3>1. Amount(l) > remaining
      BY <1>0, <2>2, AmountType, ConstantsAssumption DEF TypeOK
    <3>2. Budget!Refuse(l)
      BY <1>3, <2>2, <3>1, RefusalRefines DEF Check
    <3> QED BY <3>2 DEF Budget!Next
  <2> QED BY <1>3, <2>1, <2>2, RefusalType DEF Check
<1>4. CASE ConsumeLoad(l)
  BY <1>4, ConsiderRefines DEF ConsumeLoad, Budget!Next
<1>5. CASE ConsumeCas(l)
  <2>1. CASE remaining # seen[l] /\ Consider(l) /\ UNCHANGED <<remaining, lowest>>
    BY <1>5, <2>1, ConsiderRefines DEF ConsumeCas, Budget!Next
  <2>2. CASE remaining = seen[l] /\ Goto(l, "min") /\ UNCHANGED <<request, seen, answer>>
    BY <1>5, <2>2, GrantRefines DEF ConsumeCas, Budget!Next
  <2> QED BY <1>5, <2>1, <2>2 DEF ConsumeCas
<1>6. CASE ConsumeAdd(l)
  <2>1. at[l] = "add" /\ at'[l] = "idle" /\ answer'[l] = "yes"
    BY <1>0, <1>6 DEF ConsumeAdd, Return, Goto, TypeOK
  <2>2. Asked'[l] = Asked[l] /\ Answered'[l] = Answered[l]
    <3>1. answer[l] = "none"
      BY <1>0, <2>1 DEF Fits
    <3> QED BY <2>1, <3>1 DEF Asked, Answered
  <2>3. consumed'[l] = Wrap(consumed[l] + Amount(l)) /\ Owns(l)' = consumed'[l]
        /\ Owns(l) = consumed[l] + Amount(l)
    BY <1>0, <1>6, <2>1 DEF ConsumeAdd, Owns, TypeOK
  <2>4. consumed[l] + Amount(l) \in 0 .. U32Max /\ U32Max \in Nat
    BY <2>3, OwnsType, ConstantsAssumption
  <2>5. Wrap(consumed[l] + Amount(l)) = consumed[l] + Amount(l)
    <3> DEFINE n == consumed[l] + Amount(l)
    <3> HIDE DEF n
    <3>1. n \in 0 .. U32Max /\ U32Max \in Nat
      BY <2>4 DEF n
    <3>2. n % (U32Max + 1) = n
      BY ONLY <3>1
    <3> QED BY <3>2 DEF n, Wrap
  <2> QED BY <1>0, <2>2, <2>3, <2>5, QuietStep
<1>7. CASE ReleaseShared(l)
  <2>1. /\ at[l] = "idle" /\ at'[l] = "sub" /\ blocks[l] # <<>>
        /\ UNCHANGED <<consumed, blocks, answer>>
    BY <1>0, <1>7 DEF ReleaseShared, Goto, TypeOK
  <2>2. Asked'[l] = Asked[l] /\ Answered'[l] = Answered[l]
    BY <2>1 DEF Asked, Answered
  <2> DEFINE n == Head(blocks[l])
             r == SumFunction(Tail(blocks[l]))
  <2>3. Owns(l)' = Owns(l) - n /\ Owns(l) = consumed[l]
    BY <2>1 DEF Owns
  <2>4. n \in Nat /\ r \in Nat /\ n + r <= consumed[l] /\ consumed[l] \in Nat
    BY <1>0, <2>1, BlocksType DEF Fits, TypeOK
  <2> HIDE DEF n, r
  <2>5. n <= Owns(l)
    BY <2>3, <2>4
  <2> QED BY <1>0, <2>2, <2>3, <2>4, <2>5, ReleaseRefines DEF Budget!Next
<1>8. CASE ReleaseOwn(l)
  <2>1. /\ at[l] = "sub" /\ at'[l] = "idle" /\ blocks[l] # <<>>
        /\ consumed'[l] = Wrap(consumed[l] - Head(blocks[l])) /\ UNCHANGED <<answer>>
    BY <1>0, <1>8 DEF ReleaseOwn, Goto, TypeOK, Fits
  <2>2. Asked'[l] = Asked[l] /\ Answered'[l] = Answered[l]
    BY <2>1 DEF Asked, Answered
  <2>3. Owns(l)' = consumed'[l] /\ Owns(l) = consumed[l] - Head(blocks[l])
    BY <2>1 DEF Owns
  <2>4. Owns(l) \in 0 .. U32Max /\ U32Max \in Nat
    BY OwnsType, ConstantsAssumption
  <2>5. Wrap(Owns(l)) = Owns(l)
    <3> DEFINE n == Owns(l)
    <3> HIDE DEF n
    <3>1. n \in 0 .. U32Max /\ U32Max \in Nat
      BY <2>4 DEF n
    <3>2. n % (U32Max + 1) = n
      BY ONLY <3>1
    <3> QED BY <3>2 DEF n, Wrap
  <2> QED BY <1>0, <2>1, <2>2, <2>3, <2>5, QuietStep
<1>9. CASE DropRelease(l)
  <2>1. at[l] = "drop" /\ at'[l] = "dead" /\ UNCHANGED <<answer>>
    BY <1>0, <1>9 DEF DropRelease, Goto, TypeOK
  <2>2. Asked'[l] = Asked[l] /\ Answered'[l] = Answered[l]
    BY <2>1 DEF Asked, Answered
  <2>3. Owns(l)' = 0 /\ Owns(l) \in Nat
    BY <2>1, OwnsType DEF Owns
  <2>4. Owns(l)' = Owns(l) - Owns(l) /\ Owns(l) <= Owns(l)
    BY <2>3
  <2> QED BY <1>0, <2>2, <2>3, <2>4, ReleaseRefines DEF Budget!Next
<1> QED BY <1>1, <1>2, <1>3, <1>4, <1>5, <1>6, <1>7, <1>8, <1>9 DEF Step

(* A limiter implements the atomic budget: each consume is granted or      *)
(* refused at one instant, the CAS or the load that finds too little, and  *)
(* refused only if the budget could not cover it then.                     *)
THEOREM BudgetRefinement == Spec => ImplementsBudget
<1>1. Init => Budget!Init
  BY DEF Init, Budget!Init, Holding, Owns, Asked, Answered, Budget!None
<1>2. IInv /\ [Next]_vars => [Budget!Next]_Budget!vars
  <2> SUFFICES ASSUME IInv, [Next]_vars PROVE [Budget!Next]_Budget!vars
    OBVIOUS
  <2>1. CASE \E l \in Limiters : Step(l)
    BY <2>1, StepRefines
  <2>2. CASE UNCHANGED vars
    BY <2>2 DEF vars, Budget!vars, Holding, Owns, Asked, Answered, Amount, Scale
  <2> QED BY <2>1, <2>2 DEF Next, Step, AllDead
<1> QED BY <1>1, <1>2, InductiveInvariant, PTL DEF Spec, ImplementsBudget, Budget!Spec

=============================================================================
