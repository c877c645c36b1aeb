------------------------- MODULE PageStorageProofs -------------------------
(***************************************************************************)
(* Proofs about PageStorage, for any slots, pages, caches and fees.  The   *)
(* calls are folds over the pages of a range: a fold is unrolled into the  *)
(* states after each page, and what a call keeps is shown of each of them. *)
(***************************************************************************)
EXTENDS PageStorage, SumTheorems

-----------------------------------------------------------------------------
(* Folds.                                                                  *)

(* A set of indices that holds 0 and with each index the next one.         *)
LEMMA UpTo ==
    ASSUME NEW n \in Nat, NEW G, 0 \in G, \A k \in 1 .. n : k - 1 \in G => k \in G
    PROVE  \A k \in 0 .. n : k \in G
<1> DEFINE Bad == {k \in 0 .. n : k \notin G}
<1> SUFFICES ASSUME Bad # {} PROVE FALSE
  OBVIOUS
<1>1. PICK k \in Bad : \A m \in Bad : k <= m
  <2>1. Bad \subseteq Nat
    OBVIOUS
  <2> HIDE DEF Bad
  <2> QED BY <2>1, LeastNat
<1>2. k \in 1 .. n /\ k - 1 \in 0 .. n /\ ~(k <= k - 1)
  <2>1. k \in 0 .. n /\ k # 0
    OBVIOUS
  <2> QED BY ONLY <2>1, n \in Nat
<1>3. k - 1 \in G
  BY <1>1, <1>2
<1> QED BY <1>2, <1>3

(* The steps that are folded; one name for them, so that one lemma serves. *)
Step(kind, env, st, x) ==
    CASE kind = "look" -> Look(st, x)
      [] kind = "pass" -> ReadPass(st, x, env[1], env[2])
      [] kind = "insert" -> LruInsert(st, x[1], x[2])
      [] kind = "write" -> WriteNext(st, x, env[1], env[2])
      [] kind = "add" -> AddPage(env, st, x)
      [] kind = "count" -> st + Len(x.data)

(* f gives the state after the elements of seq at a set of indices, taken  *)
(* in order.                                                               *)
FoldsIn(D, f, kind, env, base, seq) ==
    f = [s \in SUBSET D |->
           IF s = {} THEN base ELSE Step(kind, env, f[s \ {Max(s)}], seq[Max(s)])]

(* The largest index of a set that holds the last one.                     *)
LEMMA MaxIs ==
    ASSUME NEW n \in Nat, NEW T, T \subseteq 1 .. n, n \in T
    PROVE  Max(T) = n
<1>1. \A y \in T : n >= y
  BY n \in Nat
<1>2. \A x \in T : (\A y \in T : x >= y) => x = n
  BY n \in Nat
<1> QED BY <1>1, <1>2 DEF Max

(* The recursive function over sets of indices, of which each fold of the  *)
(* model is an instance, exists.                                           *)
LEMMA FoldExists ==
    ASSUME NEW n \in Nat, NEW kind, NEW env, NEW base, NEW seq
    PROVE  \E f : FoldsIn(1 .. n, f, kind, env, base, seq)
<1> DEFINE G == {m \in Nat : \E f : FoldsIn(1 .. m, f, kind, env, base, seq)}
<1>1. 0 \in G
  <2>1. 1 .. 0 = {} /\ SUBSET {} = {{}}
    OBVIOUS
  <2>2. PICK f : f = [s \in {{}} |-> base]
    OBVIOUS
  <2>3. FoldsIn(1 .. 0, f, kind, env, base, seq)
    <3>1. [s \in {{}} |-> IF s = {} THEN base ELSE Step(kind, env, f[s \ {Max(s)}], seq[Max(s)])]
          = [s \in {{}} |-> base]
      OBVIOUS
    <3> QED BY <2>1, <2>2, <3>1 DEF FoldsIn
  <2> QED BY <2>3
<1>2. ASSUME NEW m \in 1 .. n, m - 1 \in G PROVE m \in G
  <2>1. PICK f : FoldsIn(1 .. m - 1, f, kind, env, base, seq)
    BY <1>2
  <2>2. PICK g : g = [s \in SUBSET (1 .. m) |->
                        IF m \in s THEN Step(kind, env, f[s \ {m}], seq[m]) ELSE f[s]]
    OBVIOUS
  <2>3. \A s \in SUBSET (1 .. m - 1) : s \in SUBSET (1 .. m) /\ m \notin s /\ g[s] = f[s]
    <3>1. \A s \in SUBSET (1 .. m - 1) : s \in SUBSET (1 .. m) /\ m \notin s
      OBVIOUS
    <3> QED BY <2>2, <3>1
  <2>4. ASSUME NEW s \in SUBSET (1 .. m)
        PROVE  g[s] = IF s = {} THEN base ELSE Step(kind, env, g[s \ {Max(s)}], seq[Max(s)])
    <3>1. CASE m \in s
      <4>1. Max(s) = m
        <5>1. m \in Nat /\ s \subseteq 1 .. m
          OBVIOUS
        <5> QED BY <3>1, <5>1, MaxIs
      <4>2. s \ {m} \in SUBSET (1 .. m - 1)
        OBVIOUS
      <4>3. g[s \ {m}] = f[s \ {m}]
        BY <2>3, <4>2
      <4>4. g[s] = Step(kind, env, f[s \ {m}], seq[m])
        BY <2>2, <3>1
      <4> QED BY <3>1, <4>1, <4>3, <4>4
    <3>2. CASE m \notin s
      <4>1. s \in SUBSET (1 .. m - 1) /\ s \ {Max(s)} \in SUBSET (1 .. m - 1)
        <5>1. \A i \in 1 .. m : i # m => i \in 1 .. m - 1
          OBVIOUS
        <5> QED BY <3>2, <5>1
      <4>2. g[s] = f[s] /\ g[s \ {Max(s)}] = f[s \ {Max(s)}]
        BY <2>3, <4>1
      <4>3. f[s] = IF s = {} THEN base ELSE Step(kind, env, f[s \ {Max(s)}], seq[Max(s)])
        BY <2>1, <4>1 DEF FoldsIn
      <4> QED BY <4>2, <4>3
    <3> QED BY <3>1, <3>2
  <2>5. FoldsIn(1 .. m, g, kind, env, base, seq)
    <3>1. g = [s \in SUBSET (1 .. m) |-> g[s]]
      BY <2>2
    <3>2. [s \in SUBSET (1 .. m) |-> g[s]]
          = [s \in SUBSET (1 .. m) |->
               IF s = {} THEN base ELSE Step(kind, env, g[s \ {Max(s)}], seq[Max(s)])]
      BY <2>4
    <3> QED BY <3>1, <3>2 DEF FoldsIn
  <2> QED BY <2>5
<1> HIDE DEF G
<1>3. n \in G
  BY <1>1, <1>2, UpTo
<1> QED BY <1>3 DEF G

(* The states a fold goes through.                                         *)
Trace(r, kind, env, base, seq) ==
    /\ r[0] = base
    /\ \A k \in 1 .. Len(seq) : r[k] = Step(kind, env, r[k - 1], seq[k])

(* A fold is the last value of its trace: each value comes from the one    *)
(* before by one step.                                                     *)
LEMMA FoldTrace ==
    ASSUME NEW seq, Len(seq) \in Nat, NEW kind, NEW env, NEW base, NEW f,
           FoldsIn(1 .. Len(seq), f, kind, env, base, seq)
    PROVE  \E r : Trace(r, kind, env, base, seq) /\ f[1 .. Len(seq)] = r[Len(seq)]
<1>1. PICK n \in Nat : n = Len(seq)
  OBVIOUS
<1>2. PICK r : r = [k \in 0 .. n |-> f[1 .. k]]
  OBVIOUS
<1>3. r[0] = base
  <2>1. 1 .. 0 = {} /\ {} \in SUBSET (1 .. n)
    OBVIOUS
  <2>2. f[{}] = base
    BY <1>1, <2>1 DEF FoldsIn
  <2> QED BY <1>2, <2>1, <2>2
<1>4. ASSUME NEW k \in 1 .. n PROVE r[k] = Step(kind, env, r[k - 1], seq[k])
  <2>1. 1 .. k \in SUBSET (1 .. n) /\ 1 .. k # {} /\ k \in 1 .. k
    <3>1. k \in Nat /\ k \in 1 .. k
      OBVIOUS
    <3>2. 1 .. k \subseteq 1 .. n
      OBVIOUS
    <3> QED BY <3>1, <3>2
  <2>2. Max(1 .. k) = k
    <3>1. k \in Nat
      OBVIOUS
    <3> QED BY <2>1, <3>1, MaxIs
  <2>3. (1 .. k) \ {k} = 1 .. k - 1
    OBVIOUS
  <2>4. f[1 .. k] = Step(kind, env, f[1 .. k - 1], seq[k])
    BY <1>1, <2>1, <2>2, <2>3 DEF FoldsIn
  <2>5. r[k] = f[1 .. k] /\ r[k - 1] = f[1 .. k - 1]
    BY <1>2
  <2> QED BY <2>4, <2>5
<1>5. r[n] = f[1 .. n]
  BY <1>2
<1> QED BY <1>1, <1>3, <1>4, <1>5 DEF Trace

(* Each fold of the model is one of these.                                 *)
WriteFolds(f, slot, from, to, buf, ids) ==
    f = [s \in SUBSET DOMAIN ids |->
           IF s = {} THEN [pages |-> pages, fees |-> feesLeft, ok |-> TRUE]
           ELSE WriteNext(f[s \ {Max(s)}], ids[Max(s)], from, buf)]

(* write_inner goes through its pages one at a time.                       *)
LEMMA WriteFold ==
    ASSUME NEW slot, NEW from, NEW to, NEW buf, NEW ids,
           ids = WriteOrder(slot, from, to), Len(ids) \in Nat, DOMAIN ids = 1 .. Len(ids),
           NEW base, base = [pages |-> pages, fees |-> feesLeft, ok |-> TRUE]
    PROVE  \E r : /\ Trace(r, "write", <<from, buf>>, base, ids)
                  /\ WriteResult(slot, from, to, buf) = r[Len(ids)]
<1>1. \A f : WriteFolds(f, slot, from, to, buf, ids)
             <=> FoldsIn(1 .. Len(ids), f, "write", <<from, buf>>, base, ids)
  BY DEF WriteFolds, FoldsIn, Step
<1>2. PICK f : f = CHOOSE g : WriteFolds(g, slot, from, to, buf, ids)
  OBVIOUS
<1>3. WriteFolds(f, slot, from, to, buf, ids)
  BY <1>1, <1>2, FoldExists
<1>4. WriteResult(slot, from, to, buf) = f[DOMAIN ids]
  BY <1>2, Zenon DEF WriteResult, WriteFolds, FoldLeft, MapThenFoldSet
<1>5. FoldsIn(1 .. Len(ids), f, "write", <<from, buf>>, base, ids)
  BY <1>1, <1>3
<1>6. PICK r : Trace(r, "write", <<from, buf>>, base, ids) /\ f[1 .. Len(ids)] = r[Len(ids)]
  BY ONLY <1>5, Len(ids) \in Nat, FoldTrace
<1> QED BY <1>4, <1>6

TouchFolds(f, c, ids) ==
    f = [s \in SUBSET DOMAIN ids |->
           IF s = {} THEN c
           ELSE Look(f[s \ {Max(s)}], ids[Max(s)])]

(* The first pass looks for its pages one at a time.                       *)
LEMMA TouchFold ==
    ASSUME NEW c, NEW ids,
           Len(ids) \in Nat, DOMAIN ids = 1 .. Len(ids)
    PROVE  \E r : /\ Trace(r, "look", <<>>, c, ids)
                  /\ Touch(c, ids) = r[Len(ids)]
<1>1. \A f : TouchFolds(f, c, ids)
             <=> FoldsIn(1 .. Len(ids), f, "look", <<>>, c, ids)
  BY DEF TouchFolds, FoldsIn, Step
<1>2. PICK f : f = CHOOSE g : TouchFolds(g, c, ids)
  OBVIOUS
<1>3. TouchFolds(f, c, ids)
  BY <1>1, <1>2, FoldExists
<1>4. Touch(c, ids) = f[DOMAIN ids]
  BY <1>2, Zenon DEF Touch, TouchFolds, FoldLeft, MapThenFoldSet
<1> QED BY <1>1, <1>3, <1>4, FoldTrace

PassFolds(f, st, ids, needFrom, needTo) ==
    f = [s \in SUBSET DOMAIN ids |->
           IF s = {} THEN st
           ELSE ReadPass(f[s \ {Max(s)}], ids[Max(s)], needFrom, needTo)]

(* The second pass goes through the pages of the range one at a time.      *)
LEMMA PassFold ==
    ASSUME NEW st, NEW ids, NEW needFrom, NEW needTo,
           Len(ids) \in Nat, DOMAIN ids = 1 .. Len(ids)
    PROVE  \E r : /\ Trace(r, "pass", <<needFrom, needTo>>, st, ids)
                  /\ SecondPass(st, ids, needFrom, needTo) = r[Len(ids)]
<1>1. \A f : PassFolds(f, st, ids, needFrom, needTo)
             <=> FoldsIn(1 .. Len(ids), f, "pass", <<needFrom, needTo>>, st, ids)
  BY DEF PassFolds, FoldsIn, Step
<1>2. PICK f : f = CHOOSE g : PassFolds(g, st, ids, needFrom, needTo)
  OBVIOUS
<1>3. PassFolds(f, st, ids, needFrom, needTo)
  BY <1>1, <1>2, FoldExists
<1>4. SecondPass(st, ids, needFrom, needTo) = f[DOMAIN ids]
  BY <1>2, Zenon DEF SecondPass, PassFolds, FoldLeft, MapThenFoldSet
<1> QED BY <1>1, <1>3, <1>4, FoldTrace

InsertFolds(f, c, staged) ==
    f = [s \in SUBSET DOMAIN staged |->
           IF s = {} THEN c
           ELSE LruInsert(f[s \ {Max(s)}], staged[Max(s)][1], staged[Max(s)][2])]

(* The staged pages go into the cache one at a time.                       *)
LEMMA InsertFold ==
    ASSUME NEW c, NEW staged,
           Len(staged) \in Nat, DOMAIN staged = 1 .. Len(staged)
    PROVE  \E r : /\ Trace(r, "insert", <<>>, c, staged)
                  /\ PutStaged(c, staged) = r[Len(staged)]
<1>1. \A f : InsertFolds(f, c, staged)
             <=> FoldsIn(1 .. Len(staged), f, "insert", <<>>, c, staged)
  BY DEF InsertFolds, FoldsIn, Step
<1>2. PICK f : f = CHOOSE g : InsertFolds(g, c, staged)
  OBVIOUS
<1>3. InsertFolds(f, c, staged)
  BY <1>1, <1>2, FoldExists
<1>4. PutStaged(c, staged) = f[DOMAIN staged]
  BY <1>2, Zenon DEF PutStaged, InsertFolds, FoldLeft, MapThenFoldSet
<1> QED BY <1>1, <1>3, <1>4, FoldTrace

DeltaFolds(f, ps, ids) ==
    f = [s \in SUBSET DOMAIN ids |->
           IF s = {} THEN <<>>
           ELSE AddPage(ps, f[s \ {Max(s)}], ids[Max(s)])]

(* make_delta takes the overrides one at a time.                           *)
LEMMA DeltaFold ==
    ASSUME NEW ps, NEW ids,
           ids = InOrder(DOMAIN ps), Len(ids) \in Nat, DOMAIN ids = 1 .. Len(ids)
    PROVE  \E r : /\ Trace(r, "add", ps, <<>>, ids)
                  /\ make_delta(ps) = r[Len(ids)]
<1>1. \A f : DeltaFolds(f, ps, ids)
             <=> FoldsIn(1 .. Len(ids), f, "add", ps, <<>>, ids)
  BY DEF DeltaFolds, FoldsIn, Step
<1>2. PICK f : f = CHOOSE g : DeltaFolds(g, ps, ids)
  OBVIOUS
<1>3. DeltaFolds(f, ps, ids)
  BY <1>1, <1>2, FoldExists
<1>4. make_delta(ps) = f[DOMAIN ids]
  BY <1>2, Zenon DEF make_delta, DeltaFolds, FoldLeft, MapThenFoldSet
<1> QED BY <1>1, <1>3, <1>4, FoldTrace

CountFolds(f, d) ==
    f = [s \in SUBSET DOMAIN d |->
           IF s = {} THEN 0
           ELSE f[s \ {Max(s)}] + Len(d[Max(s)].data)]

(* The pages of the entries are summed one entry at a time.                *)
LEMMA CountFold ==
    ASSUME NEW d,
           Len(d) \in Nat, DOMAIN d = 1 .. Len(d)
    PROVE  \E r : /\ Trace(r, "count", <<>>, 0, d)
                  /\ DeltaPages(d) = r[Len(d)]
<1>1. \A f : CountFolds(f, d)
             <=> FoldsIn(1 .. Len(d), f, "count", <<>>, 0, d)
  BY DEF CountFolds, FoldsIn, Step
<1>2. PICK f : f = CHOOSE g : CountFolds(g, d)
  OBVIOUS
<1>3. CountFolds(f, d)
  BY <1>1, <1>2, FoldExists
<1>4. DeltaPages(d) = f[DOMAIN d]
  BY <1>2, Zenon DEF DeltaPages, CountFolds, FoldLeft, MapThenFoldSet
<1> QED BY <1>1, <1>3, <1>4, FoldTrace

-----------------------------------------------------------------------------
(* Bytes and pages.                                                        *)

(* Quotient and remainder.                                                 *)
LEMMA DivMod ==
    ASSUME NEW i \in Nat, NEW p \in Nat \ {0}
    PROVE  i \div p \in Nat /\ i % p \in 0 .. p - 1 /\ i = (i \div p) * p + (i % p)
<1>1. i \div p \in Nat /\ i % p \in 0 .. p - 1
  OBVIOUS
<1>2. i = (i \div p) * p + (i % p)
  OBVIOUS
<1> QED BY <1>1, <1>2

(* A product of naturals is natural; the next multiple.                    *)
LEMMA MulNat ==
    ASSUME NEW a \in Nat, NEW p \in Nat \ {0}
    PROVE  a * p \in Nat /\ (a + 1) * p = a * p + p
OBVIOUS

(* A later page begins at a later byte, a page further at least.           *)
LEMMA MulMono ==
    ASSUME NEW a \in Nat, NEW b \in Nat, NEW p \in Nat \ {0}
    PROVE  /\ a <= b => a * p <= b * p
           /\ a < b => a * p + p <= b * p
<1>1. a <= b => a * p <= b * p
  OBVIOUS
<1>2. a < b => (a + 1) * p <= b * p
  OBVIOUS
<1> QED BY <1>1, <1>2, MulNat

(* A byte is at one place of one page.                                     *)
LEMMA OnePlace ==
    ASSUME NEW a \in Nat, NEW b \in Nat, NEW p \in Nat \ {0}, NEW o \in 0 .. p - 1, NEW u \in 0 .. p - 1,
           a * p + o = b * p + u
    PROVE  a = b /\ o = u
OBVIOUS

(* Quotient and remainder of the byte at offset o of page a.               *)
LEMMA PageByte ==
    ASSUME NEW a \in Nat, NEW p \in Nat \ {0}, NEW o \in 0 .. p - 1
    PROVE  a * p + o \in Nat /\ (a * p + o) \div p = a /\ (a * p + o) % p = o
<1>1. a * p \in Nat
  BY MulNat
<1>2. PICK i \in Nat : i = a * p + o
  BY <1>1
<1>3. i \div p \in Nat /\ i % p \in 0 .. p - 1 /\ i = (i \div p) * p + (i % p)
  BY DivMod
<1>4. i \div p = a /\ i % p = o
  BY <1>2, <1>3, OnePlace
<1> QED BY <1>2, <1>4

(* A later byte is not on an earlier page.                                 *)
LEMMA DivMono ==
    ASSUME NEW i \in Nat, NEW j \in Nat, i <= j, NEW p \in Nat \ {0}
    PROVE  i \div p <= j \div p
<1>1. PICK a \in Nat, o \in 0 .. p - 1 : a = i \div p /\ i = a * p + o
  BY DivMod
<1>2. PICK b \in Nat, u \in 0 .. p - 1 : b = j \div p /\ j = b * p + u
  BY DivMod
<1>3. ASSUME b < a PROVE FALSE
  <2>1. b * p + p <= a * p
    BY <1>3, MulMono
  <2>2. a * p \in Nat /\ b * p \in Nat
    BY MulNat
  <2> QED BY <1>1, <1>2, <2>1, <2>2
<1> QED BY <1>1, <1>2, <1>3

(* What the constants of the module are.                                   *)
LEMMA ConstFacts ==
    /\ PageSize \in Nat \ {0} /\ NPages \in Nat \ {0} /\ SlotBytes \in Nat \ {0}
    /\ SlotBytes = NPages * PageSize /\ Offsets = 0 .. PageSize - 1
    /\ Slots \subseteq Nat
<1>1. PageSize \in Nat \ {0} /\ NPages \in Nat \ {0} /\ Slots \subseteq Nat
  BY ConstantsAssumption
<1>2. NPages * PageSize \in Nat \ {0}
  <2>1. NPages - 1 \in Nat /\ NPages - 1 + 1 = NPages
    BY <1>1
  <2>2. PICK m \in Nat : m = NPages - 1
    BY <2>1
  <2>3. m * PageSize \in Nat /\ (m + 1) * PageSize = m * PageSize + PageSize
    BY <1>1, MulNat
  <2> QED BY <1>1, <2>1, <2>2, <2>3
<1> QED BY <1>1, <1>2 DEF SlotBytes, Offsets

(* The place of a byte of a slot, and the byte at a place of a page.       *)
LEMMA PlaceOfByte ==
    ASSUME NEW i \in 0 .. SlotBytes - 1
    PROVE  /\ i \in Nat /\ i \div PageSize \in 0 .. NPages - 1 /\ i % PageSize \in Offsets
           /\ i = (i \div PageSize) * PageSize + (i % PageSize)
<1>1. i \in Nat /\ i < NPages * PageSize
  BY ConstFacts
<1>2. PICK a \in Nat, o \in 0 .. PageSize - 1 : a = i \div PageSize /\ o = i % PageSize /\ i = a * PageSize + o
  BY <1>1, DivMod, ConstFacts
<1>3. ASSUME NPages <= a PROVE FALSE
  <2>1. NPages * PageSize <= a * PageSize
    BY <1>3, MulMono, ConstFacts
  <2>2. a * PageSize \in Nat /\ NPages * PageSize \in Nat
    BY MulNat, ConstFacts
  <2> QED BY <1>1, <1>2, <2>1, <2>2
<1>4. a \in 0 .. NPages - 1
  BY <1>3, ConstFacts
<1> QED BY <1>1, <1>2, <1>4, ConstFacts

(* The byte at an offset of a page of the slot.                            *)
LEMMA ByteAtPlace ==
    ASSUME NEW a \in 0 .. NPages - 1, NEW o \in Offsets
    PROVE  /\ a * PageSize + o \in 0 .. SlotBytes - 1
           /\ (a * PageSize + o) \div PageSize = a /\ (a * PageSize + o) % PageSize = o
<1>1. a \in Nat /\ a < NPages /\ o \in 0 .. PageSize - 1
  BY ConstFacts
<1>2. a * PageSize + PageSize <= NPages * PageSize /\ a * PageSize \in Nat /\ NPages * PageSize \in Nat
  BY <1>1, MulMono, MulNat, ConstFacts
<1>3. a * PageSize + o \in 0 .. SlotBytes - 1
  BY <1>1, <1>2, ConstFacts
<1> QED BY <1>1, <1>3, PageByte, ConstFacts

(* A byte of a buffer is a byte.                                           *)
LEMMA ByteTyped ==
    ASSUME NEW tag \in Writes \cup {0}, NEW i \in 0 .. SlotBytes - 1
    PROVE  ByteOf(tag, i) \in Byte
BY DEF Byte

(* A page of the host is a page.                                           *)
LEMMA HostPageTyped == ASSUME NEW id \in PageIDs PROVE HostPage(id) \in [Offsets -> Byte]
<1>1. id[2] \in 0 .. NPages - 1
  BY DEF PageIDs
<1>2. ASSUME NEW o \in Offsets PROVE ByteOf(0, id[2] * PageSize + o) \in Byte
  <2>1. id[2] * PageSize + o \in 0 .. SlotBytes - 1
    BY <1>1, ByteAtPlace
  <2> QED BY <2>1, ByteTyped
<1> QED BY <1>2 DEF HostPage

-----------------------------------------------------------------------------
(* write, a page at a time.                                                *)

PagesMap(ps) == DOMAIN ps \subseteq PageIDs /\ \A id \in DOMAIN ps : ps[id] \in [Offsets -> Byte]

(* What the contents hold is a byte, override or not.                      *)
LEMMA HoldsTyped ==
    ASSUME NEW ps, PagesMap(ps), NEW s \in Slots, NEW i \in 0 .. SlotBytes - 1
    PROVE  Holds(ps, s, i) \in Byte
<1>1. i % PageSize \in Offsets
  BY PlaceOfByte
<1>2. ByteOf(0, i) \in Byte
  BY ByteTyped
<1> QED BY <1>1, <1>2 DEF Holds, PagesMap

(* A page after the write has the new bytes in the range, the old ones     *)
(* elsewhere.                                                              *)
LEMMA NewPageIs ==
    ASSUME NEW ps, PagesMap(ps), NEW slot \in Slots, NEW p \in 0 .. NPages - 1,
           NEW from \in 0 .. SlotBytes - 1, NEW to \in from + 1 .. SlotBytes, NEW tag \in Writes
    PROVE  /\ NewPage(ps, <<slot, p>>, from, Buf(tag, from, to)) \in [Offsets -> Byte]
           /\ \A i \in 0 .. SlotBytes - 1 : i \div PageSize = p =>
                NewPage(ps, <<slot, p>>, from, Buf(tag, from, to))[i % PageSize]
                = IF i \in from .. to - 1 THEN ByteOf(tag, i) ELSE Holds(ps, slot, i)
<1> DEFINE new == NewPage(ps, <<slot, p>>, from, Buf(tag, from, to))
<1>1. PICK base : base = IF <<slot, p>> \in DOMAIN ps THEN ps[<<slot, p>>] ELSE HostPage(<<slot, p>>)
  OBVIOUS
<1>1a. PICK buf : buf = Buf(tag, from, to)
  OBVIOUS
<1>2. new = [o \in Offsets |-> IF p * PageSize + o - from \in DOMAIN buf
                               THEN buf[p * PageSize + o - from] ELSE base[o]]
  BY <1>1, <1>1a DEF NewPage
<1>3. DOMAIN buf = 0 .. to - from - 1 /\ \A k \in 0 .. to - from - 1 : buf[k] = ByteOf(tag, from + k)
  BY <1>1a DEF Buf
<1>4. ASSUME NEW o \in Offsets
      PROVE  new[o] = IF p * PageSize + o \in from .. to - 1 THEN ByteOf(tag, p * PageSize + o)
                      ELSE Holds(ps, slot, p * PageSize + o)
  <2>1. PICK i \in 0 .. SlotBytes - 1 : i = p * PageSize + o /\ i \div PageSize = p /\ i % PageSize = o
    BY ByteAtPlace
  <2>2. i - from \in 0 .. to - from - 1 <=> i \in from .. to - 1
    BY ConstFacts
  <2>3. new[o] = IF i - from \in DOMAIN buf THEN buf[i - from] ELSE base[o]
    <3>1. new[o] = IF p * PageSize + o - from \in DOMAIN buf
                   THEN buf[p * PageSize + o - from] ELSE base[o]
      <4> HIDE DEF new
      <4> QED BY ONLY <1>2, o \in Offsets
    <3>2. p * PageSize + o - from = i - from
      <4>1. p * PageSize \in Nat /\ o \in Nat /\ from \in Nat
        BY ConstFacts, MulNat
      <4> QED BY <2>1, <4>1
    <3> HIDE DEF new
    <3> QED BY <3>1, <3>2
  <2>4. i \in from .. to - 1 => buf[i - from] = ByteOf(tag, i)
    <3>1. from + (i - from) = i
      BY ConstFacts
    <3> QED BY <1>3, <2>2, <3>1
  <2>5. base[o] = Holds(ps, slot, i)
    <3>1. <<slot, p>>[2] = p
      OBVIOUS
    <3> QED BY <1>1, <2>1, <3>1 DEF Holds, HostPage
  <2> QED BY <1>3, <2>1, <2>2, <2>3, <2>4, <2>5
<1>5. new \in [Offsets -> Byte]
  <2>1. ASSUME NEW o \in Offsets PROVE new[o] \in Byte
    <3>1. p * PageSize + o \in 0 .. SlotBytes - 1
      BY ByteAtPlace
    <3>2. Holds(ps, slot, p * PageSize + o) \in Byte /\ ByteOf(tag, p * PageSize + o) \in Byte
      BY <3>1, HoldsTyped, ByteTyped
    <3> QED BY <1>4, <3>2
  <2>2. new = [o \in Offsets |-> new[o]]
    BY <1>2
  <2> HIDE DEF new
  <2> QED BY <2>1, <2>2
<1>6. ASSUME NEW i \in 0 .. SlotBytes - 1, i \div PageSize = p
      PROVE  new[i % PageSize] = IF i \in from .. to - 1 THEN ByteOf(tag, i) ELSE Holds(ps, slot, i)
  <2>1. i % PageSize \in Offsets /\ i = p * PageSize + (i % PageSize)
    BY <1>6, PlaceOfByte
  <2> HIDE DEF new
  <2> QED BY <1>4, <2>1
<1> QED BY <1>5, <1>6

(* One more page: the overrides remain a map of pages.                     *)
LEMMA PutTyped ==
    ASSUME NEW ps, PagesMap(ps), NEW id \in PageIDs, NEW data \in [Offsets -> Byte]
    PROVE  PagesMap(Put(ps, id, data)) /\ DOMAIN Put(ps, id, data) = DOMAIN ps \cup {id}
<1>1. PICK q : q = Put(ps, id, data)
  OBVIOUS
<1>2. /\ DOMAIN q = DOMAIN ps \cup {id} /\ q[id] = data
      /\ \A x \in DOMAIN ps : x # id => q[x] = ps[x]
  BY <1>1 DEF Put
<1>3. PagesMap(q)
  BY <1>2 DEF PagesMap
<1> QED BY <1>1, <1>2, <1>3

(* One more page changes the bytes of this page and no others.             *)
LEMMA PutHolds ==
    ASSUME NEW ps, NEW slot, NEW p, NEW data, NEW s, NEW i
    PROVE  Holds(Put(ps, <<slot, p>>, data), s, i)
           = IF s = slot /\ i \div PageSize = p THEN data[i % PageSize] ELSE Holds(ps, s, i)
<1>1. PICK q, id : q = Put(ps, id, data) /\ id = <<slot, p>>
  OBVIOUS
<1>2. /\ DOMAIN q = DOMAIN ps \cup {id} /\ q[id] = data
      /\ \A x \in DOMAIN ps : x # id => q[x] = ps[x]
  BY <1>1 DEF Put
<1>3. PICK at : at = <<s, i \div PageSize>>
  OBVIOUS
<1>4. at = id <=> s = slot /\ i \div PageSize = p
  BY <1>1, <1>3
<1>5. Holds(q, s, i) = IF at \in DOMAIN q THEN q[at][i % PageSize] ELSE ByteOf(0, i)
  BY <1>3 DEF Holds
<1>6. Holds(ps, s, i) = IF at \in DOMAIN ps THEN ps[at][i % PageSize] ELSE ByteOf(0, i)
  BY <1>3 DEF Holds
<1> QED BY <1>1, <1>2, <1>4, <1>5, <1>6

(* The charges and the overrides, as a call under way keeps them.          *)
Funded(ps, fees) ==
    /\ PagesMap(ps) /\ IsFiniteSet(DOMAIN ps)
    /\ fees \in Nat /\ fees + Cardinality(DOMAIN ps) = FeePages

(* After some pages of a write: each byte is the old one or, in the range, *)
(* the new one; it is the new one in the pages done, if none failed.       *)
WriteInv(st, k, ids, slot, from, to, tag) ==
    /\ st = [pages |-> st.pages, fees |-> st.fees, ok |-> st.ok] /\ st.ok \in BOOLEAN
    /\ Funded(st.pages, st.fees)
    /\ \A s \in Slots, i \in 0 .. SlotBytes - 1 :
         \/ Holds(st.pages, s, i) = Holds(pages, s, i)
         \/ s = slot /\ i \in from .. to - 1 /\ Holds(st.pages, s, i) = ByteOf(tag, i)
    /\ st.ok => \A i \in from .. to - 1 :
                  (\E j \in 1 .. k : ids[j][2] = i \div PageSize) => Holds(st.pages, slot, i) = ByteOf(tag, i)

(* Replacing a page is free, a new one takes one fee.                      *)
LEMMA PutFunded ==
    ASSUME NEW ps, NEW fees, Funded(ps, fees), NEW slot \in Slots, NEW p \in 0 .. NPages - 1,
           NEW data \in [Offsets -> Byte]
    PROVE  /\ <<slot, p>> \in DOMAIN ps => Funded(Put(ps, <<slot, p>>, data), fees)
           /\ <<slot, p>> \notin DOMAIN ps /\ fees # 0 => Funded(Put(ps, <<slot, p>>, data), fees - 1)
<1> DEFINE id == <<slot, p>>
<1>0. PagesMap(ps) /\ id \in PageIDs
  BY DEF Funded, PageIDs
<1> HIDE DEF id
<1>1. PICK q : q = Put(ps, id, data) /\ PagesMap(q) /\ DOMAIN q = DOMAIN ps \cup {id}
  BY <1>0, PutTyped
<1>2. IsFiniteSet(DOMAIN ps) /\ Cardinality(DOMAIN ps) \in Nat /\ fees \in Nat
      /\ fees + Cardinality(DOMAIN ps) = FeePages
  BY FS_CardinalityType DEF Funded
<1>3. CASE id \in DOMAIN ps
  <2>1. DOMAIN q = DOMAIN ps
    BY <1>1, <1>3
  <2> QED BY <1>1, <1>2, <1>3, <2>1 DEF Funded, id
<1>4. CASE id \notin DOMAIN ps
  <2>1. IsFiniteSet(DOMAIN q) /\ Cardinality(DOMAIN q) = Cardinality(DOMAIN ps) + 1
    BY <1>1, <1>2, <1>4, FS_AddElement
  <2>2. fees # 0 => fees - 1 \in Nat /\ fees - 1 + Cardinality(DOMAIN q) = FeePages
    BY <1>2, <2>1
  <2> QED BY <1>1, <1>4, <2>1, <2>2 DEF Funded, id
<1> QED BY <1>3, <1>4

(* The three parts of the invariant of a write give the whole.             *)
LEMMA WriteInvOf ==
    ASSUME NEW ps, NEW fees, NEW ok \in BOOLEAN, NEW k, NEW ids, NEW slot, NEW from, NEW to, NEW tag,
           Funded(ps, fees),
           \A s \in Slots, i \in 0 .. SlotBytes - 1 :
             \/ Holds(ps, s, i) = Holds(pages, s, i)
             \/ s = slot /\ i \in from .. to - 1 /\ Holds(ps, s, i) = ByteOf(tag, i),
           ok => \A i \in from .. to - 1 :
                   (\E j \in 1 .. k : ids[j][2] = i \div PageSize) => Holds(ps, slot, i) = ByteOf(tag, i)
    PROVE  WriteInv([pages |-> ps, fees |-> fees, ok |-> ok], k, ids, slot, from, to, tag)
BY DEF WriteInv

(* One page more.                                                          *)
LEMMA WriteStepKeeps ==
    ASSUME NEW slot \in Slots, NEW from \in 0 .. SlotBytes - 1, NEW to \in from + 1 .. SlotBytes, NEW tag \in Writes,
           NEW ids, NEW k \in Nat \ {0}, NEW p \in 0 .. NPages - 1, ids[k] = <<slot, p>>,
           NEW st, WriteInv(st, k - 1, ids, slot, from, to, tag)
    PROVE  WriteInv(WriteNext(st, ids[k], from, Buf(tag, from, to)), k, ids, slot, from, to, tag)
<1>0. PICK ps, fees, ok : st = [pages |-> ps, fees |-> fees, ok |-> ok] /\ ok \in BOOLEAN
  BY DEF WriteInv
<1>1. /\ Funded(ps, fees) /\ PagesMap(ps)
      /\ \A s \in Slots, i \in 0 .. SlotBytes - 1 :
           \/ Holds(ps, s, i) = Holds(pages, s, i)
           \/ s = slot /\ i \in from .. to - 1 /\ Holds(ps, s, i) = ByteOf(tag, i)
      /\ ok => \A i \in from .. to - 1 :
                 (\E j \in 1 .. k - 1 : ids[j][2] = i \div PageSize) => Holds(ps, slot, i) = ByteOf(tag, i)
  BY <1>0 DEF WriteInv, Funded
<1>2. CASE ~ok
  <2>1. WriteNext(st, ids[k], from, Buf(tag, from, to)) = st
    BY <1>0, <1>2 DEF WriteNext
  <2> QED BY <1>0, <1>1, <1>2, <2>1 DEF WriteInv
<1>3. CASE ok
  <2>1. PICK data : data = NewPage(ps, <<slot, p>>, from, Buf(tag, from, to))
    OBVIOUS
  <2>1a. /\ data \in [Offsets -> Byte]
         /\ \A i \in 0 .. SlotBytes - 1 : i \div PageSize = p =>
              data[i % PageSize] = IF i \in from .. to - 1 THEN ByteOf(tag, i) ELSE Holds(ps, slot, i)
    <3>1. PagesMap(ps)
      BY <1>1
    <3> QED BY <2>1, <3>1, NewPageIs
  <2>2. PICK q, id : id = <<slot, p>> /\ q = Put(ps, id, data)
    OBVIOUS
  <2>3. WriteNext(st, ids[k], from, Buf(tag, from, to)) =
          IF id \in DOMAIN ps THEN [pages |-> q, fees |-> fees, ok |-> TRUE]
          ELSE IF fees = 0 THEN [pages |-> ps, fees |-> fees, ok |-> FALSE]
          ELSE [pages |-> q, fees |-> fees - 1, ok |-> TRUE]
    <3>1. WriteNext(st, ids[k], from, Buf(tag, from, to)) = WritePage(st, id, data)
      BY <1>0, <1>3, <2>1, <2>2 DEF WriteNext
    <3> QED BY <1>0, <1>3, <2>2, <3>1 DEF WritePage
  <2>4. \A s \in Slots, i \in 0 .. SlotBytes - 1 :
          Holds(q, s, i) = IF s = slot /\ i \div PageSize = p THEN data[i % PageSize] ELSE Holds(ps, s, i)
    BY <2>2, PutHolds
  <2>5. ASSUME NEW s \in Slots, NEW i \in 0 .. SlotBytes - 1
        PROVE  \/ Holds(q, s, i) = Holds(pages, s, i)
               \/ s = slot /\ i \in from .. to - 1 /\ Holds(q, s, i) = ByteOf(tag, i)
    BY <1>1, <2>1a, <2>4
  <2>6. ASSUME NEW i \in from .. to - 1, \E j \in 1 .. k : ids[j][2] = i \div PageSize
        PROVE  Holds(q, slot, i) = ByteOf(tag, i)
    <3>1. i \in 0 .. SlotBytes - 1
      BY ConstFacts
    <3>2. CASE i \div PageSize = p
      BY <2>1a, <2>4, <3>1, <3>2
    <3>3. CASE i \div PageSize # p
      <4>1. PICK j \in 1 .. k : ids[j][2] = i \div PageSize
        BY <2>6
      <4>2. j # k
        BY <3>3, <4>1
      <4>3. j \in 1 .. k - 1
        BY <4>2
      <4>4. Holds(ps, slot, i) = ByteOf(tag, i)
        BY <1>1, <1>3, <4>1, <4>3
      <4> QED BY <2>4, <3>1, <3>3, <4>4
    <3> QED BY <3>2, <3>3
  <2>7. CASE id \in DOMAIN ps
    <3>1. Funded(q, fees)
      BY <1>1, <2>1a, <2>2, <2>7, PutFunded
    <3> QED BY <2>3, <2>5, <2>6, <2>7, <3>1, WriteInvOf
  <2>8. CASE id \notin DOMAIN ps /\ fees = 0
    BY <1>1, <2>3, <2>8, WriteInvOf
  <2>9. CASE id \notin DOMAIN ps /\ fees # 0
    <3>1. Funded(q, fees - 1)
      BY <1>1, <2>1a, <2>2, <2>9, PutFunded
    <3> QED BY <2>3, <2>5, <2>6, <2>9, <3>1, WriteInvOf
  <2> QED BY <2>7, <2>8, <2>9
<1> QED BY <1>2, <1>3

-----------------------------------------------------------------------------
(* The pages of a range, and the order in which they are written.          *)

Range3(slot, from, to) ==
    slot \in Slots /\ from \in 0 .. SlotBytes - 1 /\ to \in from + 1 .. SlotBytes

(* The pages of a range of bytes.                                          *)
LEMMA RangeFacts ==
    ASSUME NEW slot, NEW from, NEW to, Range3(slot, from, to)
    PROVE  /\ from \in Nat /\ to - 1 \in Nat /\ from <= to - 1 /\ to \in Nat
           /\ FirstPage(from) \in 0 .. NPages - 1 /\ LastPage(to) \in 0 .. NPages - 1
           /\ FirstPage(from) <= LastPage(to)
           /\ \A i \in from .. to - 1 : /\ i \in 0 .. SlotBytes - 1
                                        /\ i \div PageSize \in FirstPage(from) .. LastPage(to)
<1>1. from \in 0 .. SlotBytes - 1 /\ to - 1 \in 0 .. SlotBytes - 1 /\ from <= to - 1 /\ to \in Nat
  BY ConstFacts DEF Range3
<1>2. from \in Nat /\ to - 1 \in Nat
  BY <1>1, ConstFacts
<1>3. FirstPage(from) \in 0 .. NPages - 1 /\ LastPage(to) \in 0 .. NPages - 1
  BY <1>1, PlaceOfByte DEF FirstPage, LastPage
<1>4. FirstPage(from) <= LastPage(to)
  BY <1>1, <1>2, DivMono, ConstFacts DEF FirstPage, LastPage
<1>5. ASSUME NEW i \in from .. to - 1
      PROVE  i \in 0 .. SlotBytes - 1 /\ i \div PageSize \in FirstPage(from) .. LastPage(to)
  <2>1. i \in Nat /\ from <= i /\ i <= to - 1 /\ i \in 0 .. SlotBytes - 1
    BY <1>1, <1>2, ConstFacts
  <2>2. from \div PageSize <= i \div PageSize /\ i \div PageSize <= (to - 1) \div PageSize
    BY <1>2, <2>1, DivMono, ConstFacts
  <2>3. i \div PageSize \in 0 .. NPages - 1
    BY <2>1, PlaceOfByte
  <2> QED BY <1>3, <2>1, <2>2, <2>3, ConstFacts DEF FirstPage, LastPage
<1> QED BY <1>1, <1>2, <1>3, <1>4, <1>5

(* The pages of a range in order, as a sequence.                           *)
LEMMA PagesOfIs ==
    ASSUME NEW slot, NEW from, NEW to, Range3(slot, from, to)
    PROVE  /\ PagesOf(slot, from, to) \in Seq({slot} \X (0 .. NPages - 1))
           /\ Len(PagesOf(slot, from, to)) = LastPage(to) - FirstPage(from) + 1
           /\ \A k \in 1 .. LastPage(to) - FirstPage(from) + 1 :
                PagesOf(slot, from, to)[k] = <<slot, FirstPage(from) + k - 1>>
<1>1. PICK a, b : a = FirstPage(from) /\ b = LastPage(to)
  OBVIOUS
<1>2. a \in 0 .. NPages - 1 /\ b \in 0 .. NPages - 1 /\ a <= b
  BY <1>1, RangeFacts
<1>3. PICK ids : ids = PagesOf(slot, from, to)
  OBVIOUS
<1>4. ids = [k \in 1 .. b - a + 1 |-> <<slot, a + k - 1>>]
  BY <1>1, <1>3 DEF PagesOf
<1>5. b - a + 1 \in Nat /\ \A k \in 1 .. b - a + 1 : a + k - 1 \in 0 .. NPages - 1
  BY <1>2, ConstFacts
<1>6. ids \in [1 .. b - a + 1 -> {slot} \X (0 .. NPages - 1)]
  BY <1>4, <1>5
<1>7. ids \in Seq({slot} \X (0 .. NPages - 1)) /\ Len(ids) = b - a + 1
  BY <1>5, <1>6
<1> QED BY <1>1, <1>3, <1>4, <1>7

Among(s, x) == \E j \in 1 .. Len(s) : s[j] = x

(* What is among two sequences is among the two joined.                    *)
LEMMA ConcatAmong ==
    ASSUME NEW S, NEW s \in Seq(S), NEW t \in Seq(S)
    PROVE  /\ s \o t \in Seq(S)
           /\ \A x : Among(s, x) \/ Among(t, x) => Among(s \o t, x)
<1>1. s \o t \in Seq(S)
  OBVIOUS
<1>2. ASSUME NEW x, Among(s, x) PROVE Among(s \o t, x)
  <2>1. PICK j \in 1 .. Len(s) : s[j] = x
    BY <1>2 DEF Among
  <2>2. j \in 1 .. Len(s \o t) /\ (s \o t)[j] = x
    BY <2>1
  <2> QED BY <2>2 DEF Among
<1>3. ASSUME NEW x, Among(t, x) PROVE Among(s \o t, x)
  <2>1. PICK j \in 1 .. Len(t) : t[j] = x
    BY <1>3 DEF Among
  <2>2. Len(s) + j \in 1 .. Len(s \o t) /\ (s \o t)[Len(s) + j] = x
    BY <2>1
  <2> QED BY <2>2 DEF Among
<1> QED BY <1>1, <1>2, <1>3

(* What is within the ends of a piece is among the piece.                  *)
LEMMA SubSeqAmong ==
    ASSUME NEW S, NEW s \in Seq(S), NEW a \in 1 .. 2, NEW b \in Int, b = Len(s) \/ b = Len(s) - 1
    PROVE  /\ SubSeq(s, a, b) \in Seq(S)
           /\ \A k \in a .. b : Among(SubSeq(s, a, b), s[k])
<1>1. PICK n \in Nat : n = Len(s)
  OBVIOUS
<1>2. \A k \in a .. b : s[k] \in S
  BY <1>1
<1>3. /\ SubSeq(s, a, b) \in Seq(S)
      /\ Len(SubSeq(s, a, b)) = IF a <= b THEN b - a + 1 ELSE 0
      /\ \A i \in 1 .. b - a + 1 : SubSeq(s, a, b)[i] = s[a + i - 1]
  <2>1. a \in Int
    OBVIOUS
  <2> QED BY ONLY <1>2, <2>1, b \in Int, SubSeqProperties
<1>4. ASSUME NEW k \in a .. b PROVE Among(SubSeq(s, a, b), s[k])
  <2>1. k - a + 1 \in 1 .. b - a + 1 /\ a + (k - a + 1) - 1 = k /\ a <= b
    OBVIOUS
  <2>2. SubSeq(s, a, b)[k - a + 1] = s[k]
    BY <1>3, <2>1
  <2>3. k - a + 1 \in 1 .. Len(SubSeq(s, a, b))
    BY <1>3, <2>1
  <2> QED BY <2>2, <2>3 DEF Among
<1> QED BY <1>3, <1>4

(* The order of write_inner (first page, last page, those in between)      *)
(* leaves no page of the range out.                                        *)
LEMMA WriteOrderIs ==
    ASSUME NEW slot, NEW from, NEW to, Range3(slot, from, to)
    PROVE  /\ WriteOrder(slot, from, to) \in Seq({slot} \X (0 .. NPages - 1))
           /\ \A i \in from .. to - 1 : Among(WriteOrder(slot, from, to), <<slot, i \div PageSize>>)
<1> DEFINE S == {slot} \X (0 .. NPages - 1)
<1>1. PICK ids : ids = PagesOf(slot, from, to)
  OBVIOUS
<1>2. PICK a, b : a = FirstPage(from) /\ b = LastPage(to)
  OBVIOUS
<1>3. a \in 0 .. NPages - 1 /\ b \in 0 .. NPages - 1 /\ a <= b
  BY <1>2, RangeFacts
<1>4. /\ ids \in Seq(S) /\ Len(ids) = b - a + 1
      /\ \A k \in 1 .. b - a + 1 : ids[k] = <<slot, a + k - 1>>
  BY <1>1, <1>2, PagesOfIs
<1>5. \A i \in from .. to - 1 : i \div PageSize \in a .. b
  BY <1>2, RangeFacts
<1> HIDE DEF S
<1>6. PICK first, last, whole :
        /\ first = IF from > a * PageSize THEN <<ids[1]>> ELSE <<>>
        /\ last = IF to < (b + 1) * PageSize THEN <<ids[Len(ids)]>> ELSE <<>>
        /\ whole = SubSeq(ids, IF from > a * PageSize THEN 2 ELSE 1,
                          IF to < (b + 1) * PageSize THEN Len(ids) - 1 ELSE Len(ids))
  OBVIOUS
<1>7. WriteOrder(slot, from, to) = IF Len(ids) = 1 THEN ids ELSE first \o last \o whole
  BY <1>1, <1>2, <1>6 DEF WriteOrder, Last
<1>8. /\ first \in Seq(S) /\ last \in Seq(S)
      /\ from > a * PageSize => Among(first, ids[1])
      /\ to < (b + 1) * PageSize => Among(last, ids[Len(ids)])
  <2>1. ids[1] \in S /\ ids[Len(ids)] \in S
    BY <1>3, <1>4
  <2>2. \A x \in S : <<x>> \in Seq(S) /\ Len(<<x>>) = 1 /\ <<x>>[1] = x
    OBVIOUS
  <2>3. \A x \in S : Among(<<x>>, x)
    BY <2>2 DEF Among
  <2>4. <<>> \in Seq(S)
    OBVIOUS
  <2> QED BY <1>6, <2>1, <2>2, <2>3, <2>4
<1>9. /\ whole \in Seq(S)
      /\ \A k \in (IF from > a * PageSize THEN 2 ELSE 1)
                  .. (IF to < (b + 1) * PageSize THEN Len(ids) - 1 ELSE Len(ids)) : Among(whole, ids[k])
  <2>1. PICK u, v : /\ u = IF from > a * PageSize THEN 2 ELSE 1
                    /\ v = IF to < (b + 1) * PageSize THEN Len(ids) - 1 ELSE Len(ids)
    OBVIOUS
  <2>2. u \in 1 .. 2 /\ v \in Int /\ (v = Len(ids) \/ v = Len(ids) - 1)
    BY <1>4, <2>1
  <2>3. whole = SubSeq(ids, u, v)
    BY <1>6, <2>1
  <2>4. whole \in Seq(S) /\ \A k \in u .. v : Among(whole, ids[k])
    BY <1>4, <2>2, <2>3, SubSeqAmong
  <2> QED BY <2>1, <2>4
<1>10. /\ first \o last \o whole \in Seq(S)
       /\ \A x : Among(first, x) \/ Among(last, x) \/ Among(whole, x) => Among(first \o last \o whole, x)
  <2>1. first \o last \in Seq(S) /\ \A x : Among(first, x) \/ Among(last, x) => Among(first \o last, x)
    BY <1>8, ConcatAmong
  <2>2. PICK both : both = first \o last
    OBVIOUS
  <2>3. both \o whole \in Seq(S) /\ \A x : Among(both, x) \/ Among(whole, x) => Among(both \o whole, x)
    BY <1>9, <2>1, <2>2, ConcatAmong
  <2> QED BY <2>1, <2>2, <2>3
<1>11. \A k \in 1 .. Len(ids) : Among(WriteOrder(slot, from, to), ids[k])
  <2> TAKE k \in 1 .. Len(ids)
  <2>1. CASE Len(ids) = 1
    BY <1>7, <2>1 DEF Among
  <2>2. CASE Len(ids) # 1
    <3>1. \/ k = 1 /\ from > a * PageSize
          \/ k = Len(ids) /\ to < (b + 1) * PageSize
          \/ k \in (IF from > a * PageSize THEN 2 ELSE 1)
                   .. (IF to < (b + 1) * PageSize THEN Len(ids) - 1 ELSE Len(ids))
      <4>1. PICK n \in Nat : n = Len(ids) /\ k \in 1 .. n
        BY <1>3, <1>4
      <4>2. PICK p, q : p = (from > a * PageSize) /\ q = (to < (b + 1) * PageSize)
        OBVIOUS
      <4>3. \/ k = 1 /\ p
            \/ k = n /\ q
            \/ k \in (IF p THEN 2 ELSE 1) .. (IF q THEN n - 1 ELSE n)
        BY ONLY <4>1
      <4> QED BY <4>1, <4>2, <4>3
    <3>2. Among(first \o last \o whole, ids[k])
      BY <1>8, <1>9, <1>10, <3>1
    <3> QED BY <1>7, <2>2, <3>2
  <2> QED BY <2>1, <2>2
<1>12. \A i \in from .. to - 1 : Among(WriteOrder(slot, from, to), <<slot, i \div PageSize>>)
  <2> TAKE i \in from .. to - 1
  <2>1. PICK p \in a .. b : p = i \div PageSize
    BY <1>5
  <2>2. p - a + 1 \in 1 .. b - a + 1 /\ a + (p - a + 1) - 1 = p
    BY <1>3
  <2>3. ids[p - a + 1] = <<slot, p>>
    BY <1>4, <2>2
  <2> QED BY <1>4, <1>11, <2>1, <2>2, <2>3
<1> QED BY <1>4, <1>7, <1>10, <1>12 DEF S

(* A whole write, whether it succeeds or not.                              *)
LEMMA WriteKeeps ==
    ASSUME NEW slot, NEW from, NEW to, Range3(slot, from, to), NEW tag \in Writes,
           Funded(pages, feesLeft)
    PROVE  LET r == WriteResult(slot, from, to, Buf(tag, from, to))
           IN  /\ Funded(r.pages, r.fees)
               /\ \A s \in Slots, i \in 0 .. SlotBytes - 1 :
                    \/ Holds(r.pages, s, i) = Holds(pages, s, i)
                    \/ s = slot /\ i \in from .. to - 1 /\ Holds(r.pages, s, i) = ByteOf(tag, i)
               /\ r.ok => \A i \in from .. to - 1 : Holds(r.pages, slot, i) = ByteOf(tag, i)
<1>1. PICK ids : ids = WriteOrder(slot, from, to)
  OBVIOUS
<1>2. /\ ids \in Seq({slot} \X (0 .. NPages - 1)) /\ Len(ids) \in Nat /\ DOMAIN ids = 1 .. Len(ids)
      /\ \A i \in from .. to - 1 : Among(ids, <<slot, i \div PageSize>>)
  BY <1>1, WriteOrderIs
<1>3. PICK n \in Nat : n = Len(ids)
  BY <1>2
<1>4. PICK base, buf : base = [pages |-> pages, fees |-> feesLeft, ok |-> TRUE] /\ buf = Buf(tag, from, to)
  OBVIOUS
<1>5. PICK r : Trace(r, "write", <<from, buf>>, base, ids) /\ WriteResult(slot, from, to, buf) = r[n]
  BY <1>1, <1>2, <1>3, <1>4, WriteFold
<1>6. r[0] = base /\ \A k \in 1 .. n : r[k] = WriteNext(r[k - 1], ids[k], from, buf)
  BY <1>3, <1>5 DEF Trace, Step
<1>7. slot \in Slots /\ from \in 0 .. SlotBytes - 1 /\ to \in from + 1 .. SlotBytes
  BY DEF Range3
<1> DEFINE G == {k \in 0 .. n : WriteInv(r[k], k, ids, slot, from, to, tag)}
<1>8. 0 \in G
  <2>1. 0 \in 0 .. n /\ 1 .. 0 = {}
    OBVIOUS
  <2>2. WriteInv(base, 0, ids, slot, from, to, tag)
    BY <1>4, <2>1, WriteInvOf
  <2> QED BY <1>6, <2>1, <2>2
<1>9. ASSUME NEW k \in 1 .. n, k - 1 \in G PROVE k \in G
  <2>1. ids[k] \in {slot} \X (0 .. NPages - 1)
    BY <1>2, <1>3
  <2>2. PICK p \in 0 .. NPages - 1 : ids[k] = <<slot, p>>
    BY <2>1
  <2>3. WriteInv(r[k - 1], k - 1, ids, slot, from, to, tag) /\ k \in Nat \ {0} /\ k \in 0 .. n
    BY <1>9
  <2>4. WriteInv(WriteNext(r[k - 1], ids[k], from, buf), k, ids, slot, from, to, tag)
    <3> HIDE DEF G
    <3> QED BY <1>4, <1>7, <2>2, <2>3, WriteStepKeeps
  <2> QED BY <1>6, <2>3, <2>4
<1> HIDE DEF G
<1>10. n \in G
  BY <1>8, <1>9, UpTo
<1>11. WriteInv(r[n], n, ids, slot, from, to, tag)
  BY <1>10 DEF G
<1>12. PICK end : end = r[n] /\ end = WriteResult(slot, from, to, Buf(tag, from, to))
  BY <1>4, <1>5
<1>13. \A i \in from .. to - 1 : \E j \in 1 .. n : ids[j][2] = i \div PageSize
  <2> TAKE i \in from .. to - 1
  <2>1. PICK j \in 1 .. n : ids[j] = <<slot, i \div PageSize>>
    BY <1>2, <1>3 DEF Among
  <2> QED BY <2>1
<1>14. /\ Funded(end.pages, end.fees)
       /\ \A s \in Slots, i \in 0 .. SlotBytes - 1 :
            \/ Holds(end.pages, s, i) = Holds(pages, s, i)
            \/ s = slot /\ i \in from .. to - 1 /\ Holds(end.pages, s, i) = ByteOf(tag, i)
       /\ end.ok => \A i \in from .. to - 1 : Holds(end.pages, slot, i) = ByteOf(tag, i)
  BY <1>11, <1>12, <1>13 DEF WriteInv
<1> QED BY <1>12, <1>14

-----------------------------------------------------------------------------
(* The inductive invariant.                                                *)

Entries == PageIDs \X [Offsets -> Byte]

(* The cache is within its size, and its entries are host pages, each once. *)
CacheOK(c) ==
    /\ c \in Seq(Entries) /\ Len(c) <= CacheSize
    /\ \A k \in 1 .. Len(c) : c[k][2] = HostPage(c[k][1])
    /\ \A k, l \in 1 .. Len(c) : c[k][1] = c[l][1] => k = l

IInv ==
    /\ Funded(pages, feesLeft)
    /\ CacheOK(cache)
    /\ contents = [s \in Slots |-> [i \in 0 .. SlotBytes - 1 |-> contents[s][i]]]
    /\ StorageIsContents

(* The first state: no override, an empty cache.                           *)
LEMMA InitIInv == Init => IInv
<1> SUFFICES ASSUME Init PROVE IInv
  OBVIOUS
<1>1. pages = <<>> /\ cache = <<>> /\ feesLeft = FeePages
      /\ contents = [s \in Slots |-> [i \in 0 .. SlotBytes - 1 |-> ByteOf(0, i)]]
  BY DEF Init
<1>2. DOMAIN pages = {}
  BY <1>1
<1>3. Funded(pages, feesLeft)
  <2>1. IsFiniteSet({}) /\ Cardinality({}) = 0
    BY FS_EmptySet
  <2>2. FeePages \in Nat
    BY ConstantsAssumption
  <2>3. PagesMap(pages)
    BY <1>2 DEF PagesMap
  <2> QED BY <1>1, <1>2, <2>1, <2>2, <2>3 DEF Funded
<1>4. CacheOK(cache)
  <2>1. <<>> \in Seq(Entries) /\ Len(<<>>) = 0 /\ 1 .. 0 = {}
    OBVIOUS
  <2>2. 0 <= CacheSize
    BY ConstantsAssumption
  <2> QED BY <1>1, <2>1, <2>2 DEF CacheOK
<1>5. \A s \in Slots, i \in 0 .. SlotBytes - 1 : contents[s][i] = ByteOf(0, i) /\ Holds(pages, s, i) = ByteOf(0, i)
  BY <1>1, <1>2 DEF Holds
<1>6. contents = [s \in Slots |-> [i \in 0 .. SlotBytes - 1 |-> contents[s][i]]]
  BY <1>1
<1> QED BY <1>3, <1>4, <1>5, <1>6 DEF IInv, StorageIsContents

(* A write keeps the invariant, also when the fees run out half way.       *)
LEMMA WritePreserves == ASSUME IInv, Write PROVE IInv'
<1>0. PICK slot \in Slots, from \in 0 .. SlotBytes - 1, tag \in Writes :
        \E to \in from + 1 .. SlotBytes : \E r \in {WriteResult(slot, from, to, Buf(tag, from, to))} :
        /\ pages' = r.pages
        /\ feesLeft' = r.fees
        /\ contents' = [contents EXCEPT ![slot] = [i \in DOMAIN contents[slot] |->
              IF i \in from .. to - 1 /\ (r.ok \/ Holds(r.pages, slot, i) # contents[slot][i])
              THEN ByteOf(tag, i) ELSE contents[slot][i]]]
        /\ UNCHANGED cache
  BY DEF Write
<1>1. PICK to \in from + 1 .. SlotBytes :
        \E r \in {WriteResult(slot, from, to, Buf(tag, from, to))} :
        /\ pages' = r.pages
        /\ feesLeft' = r.fees
        /\ contents' = [contents EXCEPT ![slot] = [i \in DOMAIN contents[slot] |->
              IF i \in from .. to - 1 /\ (r.ok \/ Holds(r.pages, slot, i) # contents[slot][i])
              THEN ByteOf(tag, i) ELSE contents[slot][i]]]
        /\ UNCHANGED cache
  BY <1>0
<1>2. Range3(slot, from, to)
  BY DEF Range3
<1>3. PICK r :
        /\ Funded(r.pages, r.fees)
        /\ \A s \in Slots, i \in 0 .. SlotBytes - 1 :
             \/ Holds(r.pages, s, i) = Holds(pages, s, i)
             \/ s = slot /\ i \in from .. to - 1 /\ Holds(r.pages, s, i) = ByteOf(tag, i)
        /\ r.ok => \A i \in from .. to - 1 : Holds(r.pages, slot, i) = ByteOf(tag, i)
        /\ pages' = r.pages
        /\ feesLeft' = r.fees
        /\ contents' = [contents EXCEPT ![slot] = [i \in DOMAIN contents[slot] |->
              IF i \in from .. to - 1 /\ (r.ok \/ Holds(r.pages, slot, i) # contents[slot][i])
              THEN ByteOf(tag, i) ELSE contents[slot][i]]]
  <2>1. PICK r \in {WriteResult(slot, from, to, Buf(tag, from, to))} :
          /\ pages' = r.pages
          /\ feesLeft' = r.fees
          /\ contents' = [contents EXCEPT ![slot] = [i \in DOMAIN contents[slot] |->
                IF i \in from .. to - 1 /\ (r.ok \/ Holds(r.pages, slot, i) # contents[slot][i])
                THEN ByteOf(tag, i) ELSE contents[slot][i]]]
    BY <1>1
  <2>2. Funded(pages, feesLeft)
    BY DEF IInv
  <2>3. /\ Funded(r.pages, r.fees)
        /\ \A s \in Slots, i \in 0 .. SlotBytes - 1 :
             \/ Holds(r.pages, s, i) = Holds(pages, s, i)
             \/ s = slot /\ i \in from .. to - 1 /\ Holds(r.pages, s, i) = ByteOf(tag, i)
        /\ r.ok => \A i \in from .. to - 1 : Holds(r.pages, slot, i) = ByteOf(tag, i)
    BY <1>2, <2>1, <2>2, WriteKeeps
  <2> QED BY <2>1, <2>3
<1>4. Funded(pages', feesLeft')
  BY <1>3
<1>5. CacheOK(cache)'
  BY <1>1 DEF IInv, CacheOK
<1>6. /\ DOMAIN contents = Slots /\ DOMAIN contents[slot] = 0 .. SlotBytes - 1
      /\ \A s \in Slots : contents[s] = [i \in 0 .. SlotBytes - 1 |-> contents[s][i]]
  BY DEF IInv
<1>7. /\ DOMAIN contents' = Slots
      /\ contents'[slot] = [i \in 0 .. SlotBytes - 1 |->
              IF i \in from .. to - 1 /\ (r.ok \/ Holds(r.pages, slot, i) # contents[slot][i])
              THEN ByteOf(tag, i) ELSE contents[slot][i]]
      /\ \A s \in Slots \ {slot} : contents'[s] = contents[s]
      /\ contents' = [s \in Slots |-> contents'[s]]
  BY <1>3, <1>6
<1>8. \A s \in Slots : contents'[s] = [i \in 0 .. SlotBytes - 1 |-> contents'[s][i]]
  <2> TAKE s \in Slots
  <2>1. CASE s = slot
    BY <1>7, <2>1
  <2>2. CASE s # slot
    BY <1>6, <1>7, <2>2
  <2> QED BY <2>1, <2>2
<1>9. contents' = [s \in Slots |-> [i \in 0 .. SlotBytes - 1 |-> contents'[s][i]]]
  BY <1>7, <1>8
<1>10. ASSUME NEW s \in Slots, NEW i \in 0 .. SlotBytes - 1
       PROVE  Holds(r.pages, s, i) = contents'[s][i]
  <2>1. Holds(pages, s, i) = contents[s][i]
    BY DEF IInv, StorageIsContents
  <2>2. CASE s # slot
    BY <1>3, <1>7, <2>1, <2>2
  <2>3. CASE s = slot
    <3>1. contents'[s][i] = IF i \in from .. to - 1 /\ (r.ok \/ Holds(r.pages, slot, i) # contents[slot][i])
                            THEN ByteOf(tag, i) ELSE contents[slot][i]
      BY <1>7, <2>3
    <3>2. CASE i \in from .. to - 1 /\ (r.ok \/ Holds(r.pages, slot, i) # contents[slot][i])
      BY <1>3, <2>1, <2>3, <3>1, <3>2
    <3>3. CASE i \notin from .. to - 1
      BY <1>3, <2>1, <2>3, <3>1, <3>3
    <3>4. CASE i \in from .. to - 1 /\ ~r.ok /\ Holds(r.pages, slot, i) = contents[slot][i]
      BY <2>3, <3>1, <3>4
    <3> QED BY <3>2, <3>3, <3>4
  <2> QED BY <2>2, <2>3
<1>11. StorageIsContents'
  BY <1>3, <1>10 DEF StorageIsContents, Holds
<1> QED BY <1>4, <1>5, <1>9, <1>11 DEF IInv, Funded, PagesMap

-----------------------------------------------------------------------------
(* The cache.                                                              *)

(* The entry of a page that is cached.                                     *)
LEMMA EntryOfIs ==
    ASSUME NEW c, NEW id, Cached(c, id)
    PROVE  EntryOf(c, id) \in 1 .. Len(c) /\ c[EntryOf(c, id)][1] = id
BY DEF Cached, EntryOf

(* The cache without one entry.                                            *)
LEMMA RemoveAtIs ==
    ASSUME NEW c \in Seq(Entries), NEW k \in 1 .. Len(c)
    PROVE  /\ RemoveAt(c, k) \in Seq(Entries) /\ Len(RemoveAt(c, k)) = Len(c) - 1
           /\ \A j \in 1 .. Len(c) - 1 : RemoveAt(c, k)[j] = IF j < k THEN c[j] ELSE c[j + 1]
<1>1. PICK n \in Nat : n = Len(c)
  OBVIOUS
<1>2. PICK s, t : s = SubSeq(c, 1, k - 1) /\ t = SubSeq(c, k + 1, n)
  OBVIOUS
<1>3. \A j \in 1 .. n : c[j] \in Entries
  BY <1>1
<1>4. /\ s \in Seq(Entries) /\ Len(s) = k - 1
      /\ \A j \in 1 .. k - 1 : s[j] = c[j]
  <2>1. k - 1 \in Int /\ 1 \in Int /\ \A j \in 1 .. k - 1 : c[j] \in Entries
    BY <1>1, <1>3
  <2>2. /\ s \in Seq(Entries) /\ Len(s) = IF 1 <= k - 1 THEN k - 1 - 1 + 1 ELSE 0
        /\ \A j \in 1 .. k - 1 - 1 + 1 : s[j] = c[1 + j - 1]
    BY ONLY <1>2, <2>1, SubSeqProperties
  <2>3. k \in Nat /\ k >= 1
    BY <1>1
  <2> QED BY <2>2, <2>3
<1>5. /\ t \in Seq(Entries) /\ Len(t) = n - k
      /\ \A j \in 1 .. n - k : t[j] = c[k + j]
  <2>1. k + 1 \in Int /\ n \in Int /\ \A j \in k + 1 .. n : c[j] \in Entries
    BY <1>1, <1>3
  <2>2. /\ t \in Seq(Entries) /\ Len(t) = IF k + 1 <= n THEN n - (k + 1) + 1 ELSE 0
        /\ \A j \in 1 .. n - (k + 1) + 1 : t[j] = c[k + 1 + j - 1]
    BY ONLY <1>2, <2>1, SubSeqProperties
  <2>3. k \in Nat /\ k <= n
    BY <1>1
  <2> QED BY <2>2, <2>3
<1>6. RemoveAt(c, k) = s \o t
  BY <1>1, <1>2 DEF RemoveAt
<1>7. /\ s \o t \in Seq(Entries) /\ Len(s \o t) = Len(s) + Len(t)
      /\ \A j \in 1 .. Len(s) + Len(t) : (s \o t)[j] = IF j <= Len(s) THEN s[j] ELSE t[j - Len(s)]
  BY <1>4, <1>5, ConcatProperties
<1>8. \A j \in 1 .. n - 1 : (s \o t)[j] = IF j < k THEN c[j] ELSE c[j + 1]
  <2> TAKE j \in 1 .. n - 1
  <2>1. CASE j < k
    BY <1>1, <1>4, <1>5, <1>7, <2>1
  <2>2. CASE ~(j < k)
    <3>1. j - (k - 1) \in 1 .. n - k /\ k + (j - (k - 1)) = j + 1 /\ ~(j <= k - 1)
      BY <1>1, <2>2
    <3> QED BY <1>1, <1>4, <1>5, <1>7, <2>2, <3>1
  <2> QED BY <2>1, <2>2
<1> QED BY <1>1, <1>4, <1>5, <1>6, <1>7, <1>8

(* Without an entry, the cache is as good.                                 *)
LEMMA WithoutKeeps ==
    ASSUME NEW c, CacheOK(c), NEW id
    PROVE  /\ CacheOK(Without(c, id)) /\ ~Cached(Without(c, id), id)
           /\ \A y : Cached(Without(c, id), y) => Cached(c, y)
           /\ ~Cached(c, id) => Without(c, id) = c
<1>1. CASE ~Cached(c, id)
  BY <1>1 DEF Without
<1>2. CASE Cached(c, id)
  <2>1. PICK k \in 1 .. Len(c) : k = EntryOf(c, id) /\ c[k][1] = id
    BY <1>2, EntryOfIs
  <2>2. PICK w : w = Without(c, id) /\ w = RemoveAt(c, k)
    BY <1>2, <2>1 DEF Without
  <2>3. PICK n \in Nat : n = Len(c) /\ n <= CacheSize /\ k \in 1 .. n
    BY DEF CacheOK
  <2>4. /\ w \in Seq(Entries) /\ Len(w) = n - 1
        /\ \A j \in 1 .. n - 1 : w[j] = IF j < k THEN c[j] ELSE c[j + 1]
    BY <2>2, <2>3, RemoveAtIs DEF CacheOK
  <2>5. ASSUME NEW j \in 1 .. n - 1
        PROVE  \E i \in 1 .. n : i # k /\ w[j] = c[i] /\ i = IF j < k THEN j ELSE j + 1
    BY <2>3, <2>4
  <2>6. /\ \A i \in 1 .. n : c[i][2] = HostPage(c[i][1])
        /\ \A i, l \in 1 .. n : c[i][1] = c[l][1] => i = l
    BY <2>3 DEF CacheOK
  <2>7. \A j \in 1 .. n - 1 : w[j][2] = HostPage(w[j][1]) /\ w[j][1] # id
    BY <2>1, <2>3, <2>5, <2>6
  <2>8. ASSUME NEW j \in 1 .. n - 1, NEW l \in 1 .. n - 1, w[j][1] = w[l][1] PROVE j = l
    <3>1. PICK i \in 1 .. n : w[j] = c[i] /\ i = IF j < k THEN j ELSE j + 1
      BY <2>5
    <3>2. PICK m \in 1 .. n : w[l] = c[m] /\ m = IF l < k THEN l ELSE l + 1
      BY <2>5
    <3>3. i = m
      BY <2>6, <2>8, <3>1, <3>2
    <3> QED BY <2>3, <3>1, <3>2, <3>3
  <2>9. CacheOK(w)
    <3>1. n - 1 <= CacheSize
      BY <2>3, ConstantsAssumption
    <3> QED BY <2>4, <2>7, <2>8, <3>1 DEF CacheOK
  <2>10. ~Cached(w, id) /\ \A y : Cached(w, y) => Cached(c, y)
    BY <2>3, <2>4, <2>5, <2>7 DEF Cached
  <2> QED BY <1>2, <2>2, <2>9, <2>10
<1> QED BY <1>1, <1>2

(* An entry is found, and all that is more recent is of a set of pages.    *)
Ahead(c, q, R, e) == e \in 1 .. Len(c) /\ c[e][1] = q /\ \A a \in 1 .. e - 1 : c[a][1] \in R

(* The cache with one entry in front.                                      *)
LEMMA InFront ==
    ASSUME NEW e \in Entries, NEW w \in Seq(Entries)
    PROVE  /\ <<e>> \o w \in Seq(Entries) /\ Len(<<e>> \o w) = Len(w) + 1
           /\ (<<e>> \o w)[1] = e /\ \A j \in 1 .. Len(w) : (<<e>> \o w)[j + 1] = w[j]
<1>1. <<e>> \in Seq(Entries) /\ Len(<<e>>) = 1 /\ <<e>>[1] = e
  OBVIOUS
<1>2. PICK s : s = <<e>>
  OBVIOUS
<1>3. /\ s \o w \in Seq(Entries) /\ Len(s \o w) = Len(s) + Len(w)
      /\ \A i \in 1 .. Len(s) + Len(w) : (s \o w)[i] = IF i <= Len(s) THEN s[i] ELSE w[i - Len(s)]
  BY <1>1, <1>2, ConcatProperties
<1>4. PICK n \in Nat : n = Len(w)
  OBVIOUS
<1>5. (s \o w)[1] = e
  BY <1>1, <1>2, <1>3, <1>4
<1>6. \A j \in 1 .. n : (s \o w)[j + 1] = w[j]
  <2> TAKE j \in 1 .. n
  <2>1. j + 1 \in 1 .. 1 + n /\ ~(j + 1 <= 1) /\ j + 1 - 1 = j
    OBVIOUS
  <2> QED BY <1>1, <1>2, <1>3, <1>4, <2>1
<1> QED BY <1>1, <1>2, <1>3, <1>4, <1>5, <1>6

(* A page that is found is moved to the front, those before it by one.     *)
LEMMA LruGetIs ==
    ASSUME NEW c, CacheOK(c), NEW x, Cached(c, x)
    PROVE  \E k \in 1 .. Len(c) :
             /\ c[k][1] = x /\ CachedPage(c, x) = c[k][2]
             /\ LruGet(c, x) \in Seq(Entries) /\ Len(LruGet(c, x)) = Len(c) /\ LruGet(c, x)[1] = c[k]
             /\ \A j \in 2 .. Len(c) : LruGet(c, x)[j] = IF j <= k THEN c[j - 1] ELSE c[j]
<1>1. PICK n \in Nat : n = Len(c)
  BY DEF CacheOK
<1>2. PICK k \in 1 .. n : k = EntryOf(c, x) /\ c[k][1] = x
  BY <1>1, EntryOfIs
<1>3. PICK e, w, g : e = <<x, CachedPage(c, x)>> /\ w = RemoveAt(c, k) /\ g = LruGet(c, x)
  OBVIOUS
<1>4. CachedPage(c, x) = c[k][2] /\ e = c[k] /\ e \in Entries
  <2>1. c[k] \in Entries
    BY <1>1 DEF CacheOK
  <2>2. CachedPage(c, x) = c[k][2]
    BY <1>2 DEF CachedPage
  <2>3. c[k] = <<c[k][1], c[k][2]>>
    BY <2>1 DEF Entries
  <2> QED BY <1>2, <1>3, <2>1, <2>2, <2>3
<1>5. /\ w \in Seq(Entries) /\ Len(w) = n - 1
      /\ \A j \in 1 .. n - 1 : w[j] = IF j < k THEN c[j] ELSE c[j + 1]
  BY <1>1, <1>2, <1>3, RemoveAtIs DEF CacheOK
<1>6. g = <<e>> \o w
  BY <1>2, <1>3 DEF LruGet, Without
<1>7. /\ g \in Seq(Entries) /\ Len(g) = Len(w) + 1
      /\ g[1] = e /\ \A j \in 1 .. Len(w) : g[j + 1] = w[j]
  BY <1>4, <1>5, <1>6, InFront
<1>8. \A j \in 2 .. n : g[j] = IF j <= k THEN c[j - 1] ELSE c[j]
  <2> TAKE j \in 2 .. n
  <2>1. PICK i \in 1 .. n - 1 : i = j - 1
    BY <1>1
  <2>2. i + 1 = j /\ (i < k <=> j <= k)
    BY <1>2, <2>1
  <2>3. g[i + 1] = IF i < k THEN c[i] ELSE c[i + 1]
    BY <1>5, <1>7, <2>1
  <2> QED BY <2>1, <2>2, <2>3
<1>9. Len(g) = n
  BY <1>1, <1>5, <1>7
<1> QED BY <1>1, <1>2, <1>3, <1>4, <1>7, <1>8, <1>9

(* Looking for a page moves its entry to the front and nothing else.       *)
LEMMA GetKeeps ==
    ASSUME NEW c, CacheOK(c), NEW x
    PROVE  /\ CacheOK(LruGet(c, x))
           /\ \A y : Cached(LruGet(c, x), y) <=> Cached(c, y)
           /\ \A R : x \in R => \A q, e : Ahead(c, q, R, e) => \E f : Ahead(LruGet(c, x), q, R, f)
           /\ Cached(c, x) => \A R : \E f : Ahead(LruGet(c, x), x, R, f)
<1>1. CASE ~Cached(c, x)
  <2>1. LruGet(c, x) = c
    BY <1>1 DEF LruGet
  <2> QED BY <1>1, <2>1
<1>2. CASE Cached(c, x)
  <2>1. PICK g : g = LruGet(c, x)
    OBVIOUS
  <2>2. PICK n \in Nat : n = Len(c) /\ n <= CacheSize
    BY DEF CacheOK
  <2>3. PICK k \in 1 .. n :
             /\ c[k][1] = x
             /\ g \in Seq(Entries) /\ Len(g) = n /\ g[1] = c[k]
             /\ \A j \in 2 .. n : g[j] = IF j <= k THEN c[j - 1] ELSE c[j]
    BY <1>2, <2>1, <2>2, LruGetIs
  <2>4. /\ \A i \in 1 .. n : c[i][2] = HostPage(c[i][1])
        /\ \A i, l \in 1 .. n : c[i][1] = c[l][1] => i = l
    BY <2>2 DEF CacheOK
  <2>5. ASSUME NEW j \in 1 .. n
        PROVE  \E i \in 1 .. n : g[j] = c[i] /\ i = IF j = 1 THEN k ELSE IF j <= k THEN j - 1 ELSE j
    BY <2>3
  <2>6. ASSUME NEW i \in 1 .. n
        PROVE  \E j \in 1 .. n : g[j] = c[i] /\ j = IF i = k THEN 1 ELSE IF i < k THEN i + 1 ELSE i
    <3>1. CASE i = k
      <4>1. 1 \in 1 .. n
        BY <2>3
      <4> QED BY <2>3, <3>1, <4>1
    <3>2. CASE i < k
      <4>1. i + 1 \in 2 .. n /\ i + 1 <= k /\ i + 1 - 1 = i /\ i + 1 \in 1 .. n /\ i # k
        BY <3>2
      <4> QED BY <2>3, <3>2, <4>1
    <3>3. CASE i > k
      <4>1. i \in 2 .. n /\ ~(i <= k) /\ i # k /\ ~(i < k)
        BY <3>3
      <4> QED BY <2>3, <4>1
    <3> QED BY <3>1, <3>2, <3>3
  <2>7. CacheOK(g)
    <3>1. \A j \in 1 .. n : g[j][2] = HostPage(g[j][1])
      BY <2>4, <2>5
    <3>2. ASSUME NEW j \in 1 .. n, NEW l \in 1 .. n, g[j][1] = g[l][1] PROVE j = l
      <4>1. PICK i \in 1 .. n : g[j] = c[i] /\ i = IF j = 1 THEN k ELSE IF j <= k THEN j - 1 ELSE j
        BY <2>5
      <4>2. PICK m \in 1 .. n : g[l] = c[m] /\ m = IF l = 1 THEN k ELSE IF l <= k THEN l - 1 ELSE l
        BY <2>5
      <4>3. i = m
        BY <2>4, <3>2, <4>1, <4>2
      <4> QED BY <4>1, <4>2, <4>3
    <3> QED BY <2>2, <2>3, <3>1, <3>2 DEF CacheOK
  <2>8. \A y : Cached(g, y) <=> Cached(c, y)
    <3>1. ASSUME NEW y, Cached(g, y) PROVE Cached(c, y)
      <4>1. PICK j \in 1 .. n : g[j][1] = y
        BY <2>3, <3>1 DEF Cached
      <4>2. PICK i \in 1 .. n : g[j] = c[i]
        BY <2>5
      <4> QED BY <2>2, <4>1, <4>2 DEF Cached
    <3>2. ASSUME NEW y, Cached(c, y) PROVE Cached(g, y)
      <4>1. PICK i \in 1 .. n : c[i][1] = y
        BY <2>2, <3>2 DEF Cached
      <4>2. PICK j \in 1 .. n : g[j] = c[i]
        BY <2>6
      <4> QED BY <2>3, <4>1, <4>2 DEF Cached
    <3> QED BY <3>1, <3>2
  <2>9. ASSUME NEW R, x \in R, NEW q, NEW e, Ahead(c, q, R, e) PROVE \E f : Ahead(g, q, R, f)
    <3>1. e \in 1 .. n /\ c[e][1] = q /\ \A a \in 1 .. e - 1 : c[a][1] \in R
      BY <2>2, <2>9 DEF Ahead
    <3>2. PICK f \in 1 .. n : g[f] = c[e] /\ f = IF e = k THEN 1 ELSE IF e < k THEN e + 1 ELSE e
      BY <2>6, <3>1
    <3>3. ASSUME NEW a \in 1 .. f - 1 PROVE g[a][1] \in R
      <4>1. a \in 1 .. n /\ e # k
        BY <3>1, <3>2
      <4>2. PICK i \in 1 .. n : g[a] = c[i] /\ i = IF a = 1 THEN k ELSE IF a <= k THEN a - 1 ELSE a
        BY <2>5, <4>1
      <4>3. i = k \/ i \in 1 .. e - 1
        BY <3>1, <3>2, <4>1, <4>2
      <4> QED BY <2>3, <2>9, <3>1, <4>2, <4>3
    <3> QED BY <2>3, <3>1, <3>2, <3>3 DEF Ahead
  <2>10. \A R : Ahead(g, x, R, 1)
    <3>1. 1 \in 1 .. n /\ 1 .. 1 - 1 = {}
      BY <2>3
    <3> QED BY <2>3, <3>1 DEF Ahead
  <2> QED BY <2>1, <2>7, <2>8, <2>9, <2>10
<1> QED BY <1>1, <1>2

(* The cache cut to its capacity is its first entries.                     *)
LEMMA NewestIs ==
    ASSUME NEW w, CacheOK(w), NEW n \in Nat
    PROVE  /\ Newest(w, n) \in Seq(Entries)
           /\ Len(Newest(w, n)) = IF Len(w) > n THEN n ELSE Len(w)
           /\ \A j \in 1 .. Len(Newest(w, n)) : Newest(w, n)[j] = w[j]
<1>1. PICK m \in Nat : m = Len(w) /\ w \in Seq(Entries)
  BY DEF CacheOK
<1>2. CASE m > n
  <2>1. PICK s : s = SubSeq(w, 1, n) /\ s = Newest(w, n)
    BY <1>1, <1>2 DEF Newest
  <2>2. 1 \in Int /\ n \in Int /\ \A j \in 1 .. n : w[j] \in Entries
    BY <1>1, <1>2
  <2>3. /\ s \in Seq(Entries) /\ Len(s) = IF 1 <= n THEN n - 1 + 1 ELSE 0
        /\ \A j \in 1 .. n - 1 + 1 : s[j] = w[1 + j - 1]
    BY ONLY <2>1, <2>2, SubSeqProperties
  <2>4. Len(s) = n /\ \A j \in 1 .. n : s[j] = w[j]
    BY <2>3
  <2> QED BY <1>1, <1>2, <2>1, <2>3, <2>4
<1>3. CASE ~(m > n)
  BY <1>1, <1>3 DEF Newest
<1> QED BY <1>2, <1>3

(* A new page goes to the front; only the oldest entry may go.             *)
LEMMA InsertKeeps ==
    ASSUME NEW c, CacheOK(c), NEW x \in PageIDs
    PROVE  /\ CacheOK(LruInsert(c, x, HostPage(x)))
           /\ \A y : Cached(LruInsert(c, x, HostPage(x)), y) => y = x \/ Cached(c, y)
           /\ ~Cached(c, x) => \A R : x \in R => \A q, e :
                Ahead(c, q, R, e) /\ e < CacheSize
                => Ahead(LruInsert(c, x, HostPage(x)), q, R, e + 1)
<1>1. PICK w, t, g, a : w = Without(c, x) /\ t = Newest(w, CacheSize - 1)
                     /\ g = LruInsert(c, x, HostPage(x)) /\ a = <<x, HostPage(x)>>
  OBVIOUS
<1>2. CacheOK(w) /\ ~Cached(w, x) /\ (\A y : Cached(w, y) => Cached(c, y)) /\ (~Cached(c, x) => w = c)
  BY <1>1, WithoutKeeps
<1>3. PICK m \in Nat : m = Len(w)
  BY <1>2 DEF CacheOK
<1>4. /\ \A i \in 1 .. m : w[i][2] = HostPage(w[i][1]) /\ w[i][1] # x
      /\ \A i, l \in 1 .. m : w[i][1] = w[l][1] => i = l
  BY <1>2, <1>3 DEF CacheOK, Cached
<1>5. CacheSize \in Nat \ {0} /\ CacheSize - 1 \in Nat
  BY ConstantsAssumption
<1>6. PICK n \in Nat : /\ t \in Seq(Entries) /\ Len(t) = n /\ n = (IF m > CacheSize - 1 THEN CacheSize - 1 ELSE m)
                       /\ \A j \in 1 .. n : t[j] = w[j]
  BY <1>1, <1>2, <1>3, <1>5, NewestIs
<1>7. n + 1 <= CacheSize /\ n <= m
  BY <1>5, <1>6
<1>8. a \in Entries /\ a[1] = x /\ a[2] = HostPage(x)
  BY <1>1, HostPageTyped DEF Entries
<1>9. /\ g \in Seq(Entries) /\ Len(g) = n + 1 /\ g[1] = a
      /\ \A j \in 1 .. n : g[j + 1] = w[j]
  <2>1. g = <<a>> \o t
    BY <1>1 DEF LruInsert
  <2> QED BY <1>6, <1>8, <2>1, InFront
<1>10. ASSUME NEW j \in 1 .. n + 1
       PROVE  \/ j = 1 /\ g[j] = a
              \/ j - 1 \in 1 .. m /\ g[j] = w[j - 1]
  <2>1. CASE j = 1
    <3>1. g[1] = a
      BY <1>9
    <3> QED BY <2>1, <3>1
  <2>2. CASE j # 1
    <3>1. j - 1 \in 1 .. n /\ j - 1 + 1 = j /\ j - 1 \in 1 .. m
      BY <1>7, <2>2
    <3> QED BY <1>9, <3>1
  <2> QED BY <2>1, <2>2
<1>11. CacheOK(g)
  <2>1. \A j \in 1 .. n + 1 : g[j][2] = HostPage(g[j][1])
    BY <1>4, <1>8, <1>10
  <2>2. ASSUME NEW j \in 1 .. n + 1, NEW l \in 1 .. n + 1, g[j][1] = g[l][1] PROVE j = l
    BY <1>4, <1>8, <1>10, <2>2
  <2> QED BY <1>7, <1>9, <2>1, <2>2 DEF CacheOK
<1>12. ASSUME NEW y, Cached(g, y) PROVE y = x \/ Cached(c, y)
  <2>1. PICK j \in 1 .. n + 1 : g[j][1] = y
    BY <1>9, <1>12 DEF Cached
  <2> QED BY <1>2, <1>3, <1>8, <1>10, <2>1 DEF Cached
<1>13. ASSUME ~Cached(c, x), NEW R, x \in R, NEW q, NEW e, Ahead(c, q, R, e), e < CacheSize
       PROVE  Ahead(g, q, R, e + 1)
  <2>1. w = c
    BY <1>2, <1>13
  <2>2. e \in 1 .. m /\ w[e][1] = q /\ \A b \in 1 .. e - 1 : w[b][1] \in R
    BY <1>3, <1>13, <2>1 DEF Ahead
  <2>3. e \in 1 .. n /\ e + 1 \in 1 .. n + 1
    BY <1>5, <1>6, <1>13, <2>2
  <2>4. g[e + 1][1] = q
    BY <1>9, <2>2, <2>3
  <2>5. ASSUME NEW b \in 1 .. e + 1 - 1 PROVE g[b][1] \in R
    <3>1. b \in 1 .. n + 1 /\ (b = 1 \/ b - 1 \in 1 .. e - 1)
      BY <2>3
    <3> QED BY <1>8, <1>10, <1>13, <2>2, <3>1
  <2> QED BY <1>9, <2>3, <2>4, <2>5 DEF Ahead
<1> QED BY <1>1, <1>11, <1>12, <1>13

-----------------------------------------------------------------------------
(* read, the known pages at both ends.                                     *)

(* The least element of a set of naturals.                                 *)
LEMMA MinIs ==
    ASSUME NEW S, S \subseteq Nat, S # {}
    PROVE  Min(S) \in S /\ \A x \in S : Min(S) <= x
<1>1. \E x \in S : \A y \in S : x <= y
  BY LeastNat
<1> QED BY <1>1 DEF Min

(* The pages cut off at one end are known ones.                            *)
LEMMA KnownRunIs ==
    ASSUME NEW S, NEW ids \in Seq(S)
    PROVE  KnownRun(ids) \in 0 .. Len(ids) /\ \A k \in 1 .. KnownRun(ids) : Known(ids[k])
<1>1. PICK n \in Nat : n = Len(ids)
  OBVIOUS
<1>2. PICK T : T = {k \in 1 .. n : ~Known(ids[k])} \cup {n + 1}
  OBVIOUS
<1>3. T \subseteq Nat /\ T # {} /\ T \subseteq 1 .. n + 1
  BY <1>2
<1>4. PICK m : m = Min(T) /\ m \in T /\ \A x \in T : m <= x
  BY <1>3, MinIs
<1>5. KnownRun(ids) = m - 1
  BY <1>1, <1>2, <1>4 DEF KnownRun
<1>6. m \in 1 .. n + 1
  BY <1>3, <1>4
<1>7. ASSUME NEW k \in 1 .. m - 1 PROVE Known(ids[k])
  <2>1. k \in 1 .. n /\ ~(m <= k)
    BY <1>6
  <2>2. k \notin T
    BY <1>4, <2>1
  <2> QED BY <1>2, <2>1, <2>2
<1> QED BY <1>1, <1>5, <1>6, <1>7

(* The prefix of a sequence.                                               *)
LEMMA PrefixIs ==
    ASSUME NEW S, NEW s \in Seq(S), NEW m \in 0 .. Len(s)
    PROVE  SubSeq(s, 1, m) \in Seq(S) /\ \A k \in 1 .. m : Among(SubSeq(s, 1, m), s[k])
<1>1. 1 \in Int /\ m \in Int /\ m >= 0 /\ \A k \in 1 .. m : s[k] \in S
  OBVIOUS
<1>2. PICK t : t = SubSeq(s, 1, m)
  OBVIOUS
<1>3. /\ t \in Seq(S) /\ Len(t) = IF 1 <= m THEN m - 1 + 1 ELSE 0
      /\ \A k \in 1 .. m - 1 + 1 : t[k] = s[1 + k - 1]
  BY ONLY <1>1, <1>2, SubSeqProperties
<1>4. Len(t) = m /\ \A k \in 1 .. m : t[k] = s[k]
  BY <1>1, <1>3
<1> QED BY <1>2, <1>3, <1>4 DEF Among

(* A sequence from its end.                                                *)
LEMMA ReverseIs ==
    ASSUME NEW S, NEW s \in Seq(S)
    PROVE  /\ Reverse(s) \in Seq(S) /\ Len(Reverse(s)) = Len(s)
           /\ \A k \in 1 .. Len(s) : Reverse(s)[k] = s[Len(s) - k + 1]
<1>1. PICK n \in Nat : n = Len(s)
  OBVIOUS
<1>2. PICK t : t = Reverse(s) /\ t = [i \in 1 .. n |-> s[(n - i) + 1]]
  BY <1>1 DEF Reverse
<1>3. \A i \in 1 .. n : (n - i) + 1 \in 1 .. n /\ (n - i) + 1 = n - i + 1
  OBVIOUS
<1>4. t \in [1 .. n -> S]
  BY <1>1, <1>2, <1>3
<1>5. t \in Seq(S) /\ Len(t) = n
  BY <1>2, <1>4
<1> QED BY <1>1, <1>2, <1>3, <1>5

(* Looking at one page keeps the cache and every page that was ahead; a    *)
(* page found is ahead.                                                    *)
LEMMA LookKeeps ==
    ASSUME NEW c, CacheOK(c), NEW x, NEW R, x \in R
    PROVE  /\ CacheOK(Look(c, x))
           /\ \A y : Cached(Look(c, x), y) <=> Cached(c, y)
           /\ \A q, e : Ahead(c, q, R, e) => \E f : Ahead(Look(c, x), q, R, f)
           /\ x \notin Written /\ Cached(c, x) => \E f : Ahead(Look(c, x), x, R, f)
<1>1. CASE x \in Written
  BY <1>1 DEF Look
<1>2. CASE x \notin Written
  BY <1>2, GetKeeps DEF Look
<1> QED BY <1>1, <1>2

(* Asking keeps every entry, and leaves only pages of the range in front   *)
(* of those that were found.                                               *)
LEMMA TouchKeeps ==
    ASSUME CacheOK(cache), NEW R, NEW seq \in Seq(R)
    PROVE  LET c == Touch(cache, seq)
           IN  /\ CacheOK(c)
               /\ \A y : Cached(c, y) <=> Cached(cache, y)
               /\ \A q : Among(seq, q) /\ q \notin Written /\ Cached(cache, q) => \E e : Ahead(c, q, R, e)
<1>1. PICK n \in Nat : n = Len(seq) /\ DOMAIN seq = 1 .. n
  OBVIOUS
<1>2. PICK r : Trace(r, "look", <<>>, cache, seq) /\ Touch(cache, seq) = r[n]
  BY <1>1, TouchFold
<1>3. r[0] = cache /\ \A k \in 1 .. n : r[k] = Look(r[k - 1], seq[k])
  BY <1>1, <1>2 DEF Trace, Step
<1> DEFINE I(k) == /\ CacheOK(r[k])
                   /\ \A y : Cached(r[k], y) <=> Cached(cache, y)
                   /\ \A j \in 1 .. k : seq[j] \notin Written /\ Cached(cache, seq[j])
                                        => \E e : Ahead(r[k], seq[j], R, e)
           G == {k \in 0 .. n : I(k)}
<1>4. 0 \in G
  <2>1. 0 \in 0 .. n /\ 1 .. 0 = {}
    OBVIOUS
  <2> QED BY <1>3, <2>1
<1>5. ASSUME NEW k \in 1 .. n, k - 1 \in G PROVE k \in G
  <2>1. I(k - 1) /\ k \in 0 .. n
    BY <1>5
  <2>2. PICK c, x : c = r[k - 1] /\ x = seq[k]
    OBVIOUS
  <2>3. x \in R /\ r[k] = Look(c, x)
    BY <1>1, <1>3, <2>2
  <2>4. /\ CacheOK(c) /\ \A y : Cached(c, y) <=> Cached(cache, y)
        /\ \A j \in 1 .. k - 1 : seq[j] \notin Written /\ Cached(cache, seq[j]) => \E e : Ahead(c, seq[j], R, e)
    BY <2>1, <2>2
  <2> HIDE DEF G, I
  <2>5. /\ CacheOK(r[k])
        /\ \A y : Cached(r[k], y) <=> Cached(c, y)
        /\ \A q, e : Ahead(c, q, R, e) => \E f : Ahead(r[k], q, R, f)
        /\ x \notin Written /\ Cached(c, x) => \E f : Ahead(r[k], x, R, f)
    BY <2>3, <2>4, LookKeeps
  <2>6. ASSUME NEW j \in 1 .. k, seq[j] \notin Written, Cached(cache, seq[j])
        PROVE  \E e : Ahead(r[k], seq[j], R, e)
    <3>1. CASE j = k
      BY <2>2, <2>4, <2>5, <2>6, <3>1
    <3>2. CASE j # k
      <4>1. j \in 1 .. k - 1
        BY <3>2
      <4>2. PICK e : Ahead(c, seq[j], R, e)
        BY <2>4, <2>6, <4>1
      <4> QED BY <2>5, <4>2
    <3> QED BY <3>1, <3>2
  <2>7. I(k)
    BY <2>4, <2>5, <2>6 DEF I
  <2> QED BY <2>1, <2>7 DEF G
<1>6. n \in G
  <2>1. PICK g : g = G
    OBVIOUS
  <2> HIDE DEF G
  <2>2. 0 \in g
    BY <1>4, <2>1
  <2>3. \A k \in 1 .. n : k - 1 \in g => k \in g
    BY <1>5, <2>1
  <2>5. \A k \in 0 .. n : k \in g
    BY ONLY <2>2, <2>3, n \in Nat, UpTo, ZenonT(30)
  <2>6. n \in 0 .. n
    BY n \in Nat
  <2> QED BY <2>1, <2>5, <2>6
<1>7. I(n)
  BY <1>6
<1>8. \A q : Among(seq, q) => \E j \in 1 .. n : seq[j] = q
  BY <1>1 DEF Among
<1> QED BY <1>2, <1>7, <1>8

(* The pages of a range, and those of them at an end that is known.        *)
Span(slot, from, to) == {slot} \X (FirstPage(from) .. LastPage(to))
Ends(slot, from, to) ==
    {p \in FirstPage(from) .. LastPage(to) :
        \/ p < FirstPage(from) + KnownRun(PagesOf(slot, from, to))
        \/ p > LastPage(to) - KnownRun(Reverse(PagesOf(slot, from, to)))}

(* The pages of a range as a sequence, and how many are known at each end. *)
LEMMA SpanIs ==
    ASSUME NEW slot, NEW from, NEW to, Range3(slot, from, to)
    PROVE  LET ids == PagesOf(slot, from, to)
               n == LastPage(to) - FirstPage(from) + 1
           IN  /\ n \in Nat /\ ids \in Seq(Span(slot, from, to)) /\ Len(ids) = n
               /\ \A k \in 1 .. n : ids[k] = <<slot, FirstPage(from) + k - 1>>
               /\ Reverse(ids) \in Seq(Span(slot, from, to)) /\ Len(Reverse(ids)) = n
               /\ \A k \in 1 .. n : Reverse(ids)[k] = <<slot, LastPage(to) - k + 1>>
               /\ KnownRun(ids) \in 0 .. n /\ KnownRun(Reverse(ids)) \in 0 .. n
               /\ \A k \in 1 .. KnownRun(ids) : Known(ids[k])
               /\ \A k \in 1 .. KnownRun(Reverse(ids)) : Known(Reverse(ids)[k])
<1>1. PICK a, b : a = FirstPage(from) /\ b = LastPage(to)
  OBVIOUS
<1>2. a \in Nat /\ b \in Nat /\ a <= b
  BY <1>1, RangeFacts
<1>3. PICK ids, R : ids = PagesOf(slot, from, to) /\ R = {slot} \X (a .. b)
  OBVIOUS
<1>4. PICK n \in Nat : n = b - a + 1
  BY <1>2
<1>5. /\ ids = [k \in 1 .. n |-> <<slot, a + k - 1>>]
  BY <1>1, <1>3, <1>4 DEF PagesOf
<1>6. \A k \in 1 .. n : a + k - 1 \in a .. b /\ ids[k] = <<slot, a + k - 1>>
  BY <1>2, <1>4, <1>5
<1>7. ids \in [1 .. n -> R]
  BY <1>3, <1>5, <1>6
<1>8. ids \in Seq(R) /\ Len(ids) = n
  BY <1>5, <1>7
<1>9. PICK rev : rev = Reverse(ids)
  OBVIOUS
<1>10. rev \in Seq(R) /\ Len(rev) = n /\ \A k \in 1 .. n : rev[k] = ids[n - k + 1]
  BY <1>8, <1>9, ReverseIs
<1>11. \A k \in 1 .. n : rev[k] = <<slot, b - k + 1>>
  <2> TAKE k \in 1 .. n
  <2>1. n - k + 1 \in 1 .. n /\ a + (n - k + 1) - 1 = b - k + 1
    BY <1>2, <1>4
  <2>2. ids[n - k + 1] = <<slot, a + (n - k + 1) - 1>>
    BY <1>6, <2>1
  <2> QED BY <1>10, <2>1, <2>2
<1>12. KnownRun(ids) \in 0 .. n /\ \A k \in 1 .. KnownRun(ids) : Known(ids[k])
  BY <1>8, KnownRunIs
<1>13. KnownRun(rev) \in 0 .. n /\ \A k \in 1 .. KnownRun(rev) : Known(rev[k])
  BY <1>10, KnownRunIs
<1>14. R = Span(slot, from, to)
  BY <1>1, <1>3 DEF Span
<1> QED BY <1>1, <1>3, <1>4, <1>6, <1>8, <1>9, <1>10, <1>11, <1>12, <1>13, <1>14

(* The pages cut off are found, or are overrides; the cache has no other   *)
(* pages in front of those it holds.                                       *)
LEMMA EndsLooked ==
    ASSUME CacheOK(cache), NEW slot, NEW from, NEW to, Range3(slot, from, to)
    PROVE  LET c == CutEnds(PagesOf(slot, from, to))
           IN  /\ CacheOK(c)
               /\ \A p \in Ends(slot, from, to) :
                    \/ <<slot, p>> \in Written
                    \/ \E e : Ahead(c, <<slot, p>>, Span(slot, from, to), e)
<1>1. PICK a, b, n : a = FirstPage(from) /\ b = LastPage(to) /\ n = b - a + 1
  OBVIOUS
<1>2. a \in Nat /\ b \in Nat /\ a <= b
  BY <1>1, RangeFacts
<1>3. PICK ids, R : ids = PagesOf(slot, from, to) /\ R = Span(slot, from, to)
  OBVIOUS
<1>4. PICK rev, u, v : rev = Reverse(ids) /\ u = KnownRun(ids) /\ v = KnownRun(rev)
  OBVIOUS
<1>5. /\ n \in Nat /\ ids \in Seq(R) /\ Len(ids) = n
      /\ \A k \in 1 .. n : ids[k] = <<slot, a + k - 1>>
      /\ rev \in Seq(R) /\ Len(rev) = n
      /\ \A k \in 1 .. n : rev[k] = <<slot, b - k + 1>>
      /\ u \in 0 .. n /\ v \in 0 .. n
      /\ \A k \in 1 .. u : Known(ids[k])
      /\ \A k \in 1 .. v : Known(rev[k])
  BY <1>1, <1>3, <1>4, SpanIs
<1>6. PICK s, t : s = SubSeq(ids, 1, u) /\ t = SubSeq(rev, 1, v)
  OBVIOUS
<1>7. s \in Seq(R) /\ \A k \in 1 .. u : Among(s, ids[k])
  BY <1>5, <1>6, PrefixIs
<1>8. t \in Seq(R) /\ \A k \in 1 .. v : Among(t, rev[k])
  BY <1>5, <1>6, PrefixIs
<1>9. s \o t \in Seq(R) /\ \A x : Among(s, x) \/ Among(t, x) => Among(s \o t, x)
  BY <1>7, <1>8, ConcatAmong
<1>10. PICK seq, c : seq = s \o t /\ c = Touch(cache, seq)
  OBVIOUS
<1>11. c = CutEnds(ids)
  BY <1>4, <1>6, <1>10 DEF CutEnds
<1>12. /\ CacheOK(c)
       /\ \A q : Among(seq, q) /\ q \notin Written /\ Cached(cache, q) => \E e : Ahead(c, q, R, e)
  BY <1>9, <1>10, TouchKeeps
<1>13. ASSUME NEW p \in a .. b, p < a + u \/ p > b - v
       PROVE  Among(seq, <<slot, p>>) /\ Known(<<slot, p>>)
  <2>1. CASE p < a + u
    <3>1. p - a + 1 \in 1 .. u /\ p - a + 1 \in 1 .. n /\ a + (p - a + 1) - 1 = p
      BY <1>2, <1>5, <2>1
    <3>2. ids[p - a + 1] = <<slot, p>>
      BY <1>5, <3>1
    <3> QED BY <1>5, <1>7, <1>9, <1>10, <3>1, <3>2
  <2>2. CASE p > b - v
    <3>1. b - p + 1 \in 1 .. v /\ b - p + 1 \in 1 .. n /\ b - (b - p + 1) + 1 = p
      BY <1>2, <1>5, <2>2
    <3>2. rev[b - p + 1] = <<slot, p>>
      BY <1>5, <3>1
    <3> QED BY <1>5, <1>8, <1>9, <1>10, <3>1, <3>2
  <2> QED BY <1>13, <2>1, <2>2
<1>14. ASSUME NEW p \in Ends(slot, from, to)
       PROVE  <<slot, p>> \in Written \/ \E e : Ahead(c, <<slot, p>>, R, e)
  <2>1. p \in a .. b /\ (p < a + u \/ p > b - v)
    BY <1>1, <1>3, <1>4 DEF Ends
  <2>2. Among(seq, <<slot, p>>) /\ Known(<<slot, p>>)
    BY <1>13, <2>1
  <2> QED BY <1>12, <2>2 DEF Known
<1> QED BY <1>3, <1>11, <1>12, <1>14

(* The host is asked for every byte of the range that is not of a page cut *)
(* off, and for no byte outside it.                                        *)
LEMMA NeedIs ==
    ASSUME NEW slot, NEW from, NEW to, Range3(slot, from, to)
    PROVE  LET needFrom == NeedFrom(slot, from, to)
               needTo == NeedTo(slot, from, to)
           IN  /\ needFrom \in Nat /\ needTo \in Nat /\ from <= needFrom /\ needTo <= to
               /\ \A i \in from .. to - 1 :
                    i \div PageSize \notin Ends(slot, from, to) => needFrom <= i /\ i < needTo
<1>1. PICK a, b, n : a = FirstPage(from) /\ b = LastPage(to) /\ n = b - a + 1
  OBVIOUS
<1>2. /\ a \in Nat /\ b \in Nat /\ a <= b /\ from \in Nat /\ to \in Nat /\ to - 1 \in Nat
      /\ \A i \in from .. to - 1 : i \div PageSize \in a .. b /\ i \in Nat
  BY <1>1, RangeFacts
<1>3. PICK ids, rev : ids = PagesOf(slot, from, to) /\ rev = Reverse(ids)
  OBVIOUS
<1>4. PICK u \in 0 .. n, v \in 0 .. n : u = KnownRun(ids) /\ v = KnownRun(rev)
  BY <1>1, <1>3, SpanIs
<1>5. u \in Nat /\ v \in Nat /\ n \in Nat /\ a + u \in Nat /\ b - v + 1 \in Nat
  BY <1>1, <1>2
<1>6. PICK nf, nt : /\ nf = NeedFrom(slot, from, to) /\ nt = NeedTo(slot, from, to)
                    /\ nf = (IF u = 0 THEN from ELSE (a + u) * PageSize)
                    /\ nt = (IF v = 0 THEN to ELSE (b - v + 1) * PageSize)
  BY <1>1, <1>3, <1>4 DEF NeedFrom, NeedTo
<1>7. /\ a * PageSize \in Nat /\ b * PageSize \in Nat
      /\ (a + u) * PageSize \in Nat /\ (b - v + 1) * PageSize \in Nat
  BY <1>2, <1>5, MulNat, ConstFacts
<1>8. from < a * PageSize + PageSize /\ b * PageSize <= to - 1
  <2>1. from % PageSize \in 0 .. PageSize - 1 /\ from = a * PageSize + (from % PageSize)
    BY <1>1, <1>2, DivMod, ConstFacts DEF FirstPage
  <2>2. (to - 1) % PageSize \in 0 .. PageSize - 1 /\ to - 1 = b * PageSize + ((to - 1) % PageSize)
    BY <1>1, <1>2, DivMod, ConstFacts DEF LastPage
  <2> QED BY <1>2, <1>7, <2>1, <2>2, ConstFacts
<1>9. nf \in Nat /\ from <= nf
  <2>1. CASE u = 0
    BY <1>2, <1>6, <2>1
  <2>2. CASE u # 0
    <3>1. a < a + u
      BY <1>2, <1>5, <2>2
    <3>2. a * PageSize + PageSize <= (a + u) * PageSize
      BY <1>2, <1>5, <3>1, MulMono, ConstFacts
    <3> QED BY <1>2, <1>6, <1>7, <1>8, <2>2, <3>2, ConstFacts
  <2> QED BY <2>1, <2>2
<1>10. nt \in Nat /\ nt <= to
  <2>1. CASE v = 0
    BY <1>2, <1>6, <2>1
  <2>2. CASE v # 0
    <3>1. b - v + 1 <= b
      BY <1>2, <1>5, <2>2
    <3>2. (b - v + 1) * PageSize <= b * PageSize
      BY <1>2, <1>5, <3>1, MulMono, ConstFacts
    <3> QED BY <1>2, <1>6, <1>7, <1>8, <2>2, <3>2
  <2> QED BY <2>1, <2>2
<1>11. ASSUME NEW i \in from .. to - 1, i \div PageSize \notin Ends(slot, from, to)
       PROVE  nf <= i /\ i < nt
  <2>1. PICK p \in a .. b, o \in 0 .. PageSize - 1 : p = i \div PageSize /\ i = p * PageSize + o
    <3>1. i \in Nat /\ i \div PageSize \in a .. b
      BY <1>2
    <3>2. i % PageSize \in 0 .. PageSize - 1 /\ i = (i \div PageSize) * PageSize + (i % PageSize)
      BY <3>1, DivMod, ConstFacts
    <3> QED BY <3>1, <3>2
  <2>2. ~(p < a + u) /\ ~(p > b - v)
    BY <1>1, <1>3, <1>4, <1>11, <2>1 DEF Ends
  <2>3. p \in Nat /\ a + u <= p /\ p < b - v + 1
    BY <1>2, <1>5, <2>2
  <2>4. (a + u) * PageSize <= p * PageSize /\ p * PageSize + PageSize <= (b - v + 1) * PageSize /\ p * PageSize \in Nat
    BY <1>5, <2>3, MulMono, MulNat, ConstFacts
  <2>5. from <= i /\ i < to /\ i \in Nat /\ o <= PageSize - 1 /\ o >= 0
    <3>1. i \in Nat /\ from <= i /\ i < to
      BY <1>2
    <3>2. o <= PageSize - 1 /\ o >= 0
      BY <2>1, ConstFacts
    <3> QED BY <3>1, <3>2
  <2>6. nf <= i
    BY <1>6, <1>7, <2>1, <2>4, <2>5, ConstFacts
  <2>7. i < nt
    BY <1>6, <1>7, <2>1, <2>4, <2>5, ConstFacts
  <2> QED BY <2>6, <2>7
<1> QED BY <1>6, <1>9, <1>10, <1>11

-----------------------------------------------------------------------------
(* read, the second pass.                                                  *)

(* The buffer when the pages before u are laid over it: what the host was  *)
(* asked for is the host's, but for overrides.                             *)
BufOK(buf, slot, from, to, needFrom, needTo, u) ==
    /\ DOMAIN buf = from .. to - 1
    /\ \A i \in from .. to - 1 :
         <<slot, i \div PageSize>> \notin Written /\ needFrom <= i /\ i < needTo => buf[i] = ByteOf(0, i)
    /\ \A i \in from .. to - 1 :
         <<slot, i \div PageSize>> \in Written /\ i \div PageSize < u
         => buf[i] = pages[<<slot, i \div PageSize>>][i % PageSize]

(* Pages that were cut off have been read.                                 *)
EndsRead(buf, slot, from, to, E, u) ==
    \A i \in from .. to - 1 :
        i \div PageSize \in E /\ i \div PageSize < u /\ <<slot, i \div PageSize>> \notin Written
        => buf[i] = ByteOf(0, i)

(* Pages that were cut off are still there, with only pages of the range   *)
(* in front of them.                                                       *)
EndsAhead(c, slot, E, R, u) ==
    \A p \in E : u <= p => <<slot, p>> \in Written \/ \E e : Ahead(c, <<slot, p>>, R, e)

(* What is staged: host pages of the range before u, not cached, each once. *)
StagedOK(c, staged, slot, a, u) ==
    /\ staged \in Seq(Entries) /\ Len(staged) <= StagingSize
    /\ \A j \in 1 .. Len(staged) :
         /\ ~Cached(c, staged[j][1])
         /\ \E p \in a .. u - 1 : staged[j] = <<<<slot, p>>, HostPage(<<slot, p>>)>>
    /\ \A j, l \in 1 .. Len(staged) : staged[j][1] = staged[l][1] => j = l

(* A page is only put into the cache when the staging area is full; then   *)
(* an entry behind none but pages of the range is not the oldest one, for  *)
(* the range would have more pages than fit.                               *)
LEMMA Room ==
    ASSUME NEW slot, NEW a \in Nat, NEW b \in Nat, NEW u \in a .. b,
           NEW c, CacheOK(c), NEW staged, StagedOK(c, staged, slot, a, u), Len(staged) = StagingSize,
           ~Cached(c, <<slot, u>>),
           b - a + 1 <= CacheSize + StagingSize,
           NEW q \in {slot} \X (a .. b), NEW e, Ahead(c, q, {slot} \X (a .. b), e)
    PROVE  e < CacheSize
<1>1. CacheSize \in Nat \ {0} /\ StagingSize \in Nat
  BY ConstantsAssumption
<1>2. PICK n \in Nat : n = Len(c) /\ n <= CacheSize /\ \A k, l \in 1 .. n : c[k][1] = c[l][1] => k = l
  BY DEF CacheOK
<1>3. e \in 1 .. n /\ \A k \in 1 .. e : c[k][1] \in {slot} \X (a .. b)
  <2>1. e \in 1 .. n /\ c[e][1] = q /\ \A k \in 1 .. e - 1 : c[k][1] \in {slot} \X (a .. b)
    BY <1>2 DEF Ahead
  <2>2. \A k \in 1 .. e : k = e \/ k \in 1 .. e - 1
    BY <2>1
  <2> QED BY <2>1, <2>2
<1> SUFFICES ASSUME ~(e < CacheSize) PROVE FALSE
  OBVIOUS
<1>4. e = CacheSize /\ n = CacheSize
  BY <1>1, <1>2, <1>3
<1>5. \A k \in 1 .. CacheSize : \E p \in a .. b : c[k][1] = <<slot, p>> /\ c[k][1][2] = p
  BY <1>3, <1>4
<1>6. \A j \in 1 .. StagingSize :
        \E p \in a .. u - 1 : staged[j][1] = <<slot, p>> /\ staged[j][1][2] = p
  <2> TAKE j \in 1 .. StagingSize
  <2>1. PICK p \in a .. u - 1 : staged[j] = <<<<slot, p>>, HostPage(<<slot, p>>)>>
    BY DEF StagedOK
  <2> QED BY <2>1
<1>7. \A j \in 1 .. StagingSize, k \in 1 .. CacheSize : staged[j][1] # c[k][1]
  BY <1>2, <1>4 DEF StagedOK, Cached
<1>8. \A j, l \in 1 .. StagingSize : staged[j][1] = staged[l][1] => j = l
  BY DEF StagedOK
<1>9. \A k \in 1 .. CacheSize : c[k][1] # <<slot, u>>
  BY <1>2, <1>4 DEF Cached
<1>10. \A k, l \in 1 .. CacheSize : c[k][1] = c[l][1] => k = l
  BY <1>2, <1>4
<1>11. PICK m \in Nat : m = CacheSize + StagingSize + 1
  BY <1>1
<1>12. PICK h : h = [j \in 1 .. m |-> IF j <= CacheSize THEN c[j][1][2]
                                      ELSE IF j <= CacheSize + StagingSize THEN staged[j - CacheSize][1][2]
                                      ELSE u]
  OBVIOUS
<1>13. ASSUME NEW j \in 1 .. m
       PROVE  \/ j \in 1 .. CacheSize /\ h[j] \in a .. b /\ c[j][1] = <<slot, h[j]>>
              \/ /\ j > CacheSize /\ j - CacheSize \in 1 .. StagingSize /\ h[j] \in a .. u - 1
                 /\ staged[j - CacheSize][1] = <<slot, h[j]>>
              \/ j = m /\ h[j] = u
  <2>1. CASE j <= CacheSize
    <3>1. j \in 1 .. CacheSize
      BY <1>1, <2>1
    <3>2. h[j] = c[j][1][2]
      BY <1>12, <2>1
    <3>3. PICK p \in a .. b : c[j][1] = <<slot, p>> /\ c[j][1][2] = p
      BY <1>5, <3>1
    <3> QED BY <3>1, <3>2, <3>3
  <2>2. CASE j > CacheSize /\ j <= CacheSize + StagingSize
    <3>1. j - CacheSize \in 1 .. StagingSize /\ ~(j <= CacheSize)
      BY <1>1, <2>2
    <3>2. h[j] = staged[j - CacheSize][1][2]
      BY <1>12, <2>2, <3>1
    <3>3. PICK p \in a .. u - 1 : staged[j - CacheSize][1] = <<slot, p>> /\ staged[j - CacheSize][1][2] = p
      BY <1>6, <3>1
    <3> QED BY <2>2, <3>1, <3>2, <3>3
  <2>3. CASE j > CacheSize + StagingSize
    <3>1. j = m /\ ~(j <= CacheSize) /\ ~(j <= CacheSize + StagingSize)
      BY <1>1, <1>11, <2>3
    <3> QED BY <1>12, <3>1
  <2> QED BY <1>1, <2>1, <2>2, <2>3
<1>14. u \in a .. b /\ \A p \in a .. u - 1 : p \in a .. b /\ p # u
  OBVIOUS
<1>15. h \in [1 .. m -> a .. b]
  <2>1. \A j \in 1 .. m : h[j] \in a .. b
    BY <1>13, <1>14
  <2> QED BY <1>12, <2>1
<1>16. \A p, r : <<slot, p>> = <<slot, r>> <=> p = r
  OBVIOUS
<1>17. ASSUME NEW j \in 1 .. m, NEW l \in 1 .. m, h[j] = h[l], j < l PROVE FALSE
  <2>1. CASE j \in 1 .. CacheSize /\ c[j][1] = <<slot, h[j]>>
    <3>1. CASE l \in 1 .. CacheSize /\ c[l][1] = <<slot, h[l]>>
      <4>1. j = l
        BY <1>10, <1>17, <2>1, <3>1
      <4> QED BY <1>17, <4>1
    <3>2. CASE l - CacheSize \in 1 .. StagingSize /\ staged[l - CacheSize][1] = <<slot, h[l]>>
      BY <1>7, <1>17, <2>1, <3>2
    <3>3. CASE h[l] = u
      BY <1>9, <1>17, <2>1, <3>3
    <3> QED BY <1>13, <3>1, <3>2, <3>3
  <2>2. CASE /\ j > CacheSize /\ j - CacheSize \in 1 .. StagingSize /\ h[j] \in a .. u - 1
             /\ staged[j - CacheSize][1] = <<slot, h[j]>>
    <3>1. CASE l \in 1 .. CacheSize
      BY <1>1, <1>17, <2>2, <3>1
    <3>2. CASE l - CacheSize \in 1 .. StagingSize /\ staged[l - CacheSize][1] = <<slot, h[l]>>
      <4>1. j - CacheSize = l - CacheSize
        BY <1>8, <1>17, <2>2, <3>2
      <4> QED BY <1>1, <1>17, <4>1
    <3>3. CASE h[l] = u
      BY <1>14, <1>17, <2>2, <3>3
    <3> QED BY <1>13, <3>1, <3>2, <3>3
  <2>3. CASE j = m
    BY <1>17, <2>3
  <2> QED BY <1>13, <2>1, <2>2, <2>3
<1>18. ~ \E x, y \in 1 .. m : x # y /\ h[x] = h[y]
  <2>1. \A j, l \in 1 .. m : j # l => j < l \/ l < j
    OBVIOUS
  <2> QED BY <1>17, <2>1
<1>19. /\ IsFiniteSet(1 .. m) /\ Cardinality(1 .. m) = m
       /\ IsFiniteSet(a .. b) /\ Cardinality(a .. b) = b - a + 1
  <2>1. 1 \in Int /\ m \in Int /\ a \in Int /\ b \in Int /\ ~(a > b) /\ ~(1 > m) /\ m - 1 + 1 = m
    BY <1>1, <1>11
  <2> QED BY <2>1, FS_Interval
<1>20. Cardinality(a .. b) < Cardinality(1 .. m)
  BY <1>1, <1>11, <1>19
<1>21. PICK S, T : S = 1 .. m /\ T = a .. b
  OBVIOUS
<1>22. \E x, y \in S : x # y /\ h[x] = h[y]
  <2>1. IsFiniteSet(S) /\ IsFiniteSet(T) /\ Cardinality(T) < Cardinality(S) /\ h \in [S -> T]
    BY <1>15, <1>19, <1>20, <1>21
  <2> QED BY ONLY <2>1, FS_PigeonHole, SMT
<1> QED BY <1>18, <1>21, <1>22

(* A page that the host was asked for as a whole is what the host holds.   *)
LEMMA ExtractIs ==
    ASSUME NEW slot, NEW from \in Nat, NEW to \in Nat, NEW needFrom \in Nat, NEW needTo \in Nat,
           from <= needFrom, needTo <= to,
           NEW u \in 0 .. NPages - 1, NEW p, NEW buf, BufOK(buf, slot, from, to, needFrom, needTo, p),
           <<slot, u>> \notin Written,
           u * PageSize >= needFrom, (u + 1) * PageSize <= needTo
    PROVE  Extract(buf, <<slot, u>>) = HostPage(<<slot, u>>)
<1>1. <<slot, u>>[2] = u
  OBVIOUS
<1>2. u \in Nat
  BY ConstFacts
<1>3. u * PageSize \in Nat /\ (u + 1) * PageSize = u * PageSize + PageSize
  BY <1>2, MulNat, ConstFacts
<1>4. ASSUME NEW o \in Offsets PROVE buf[u * PageSize + o] = ByteOf(0, u * PageSize + o)
  <2>1. PICK i : i = u * PageSize + o
    OBVIOUS
  <2>2. i \div PageSize = u
    BY <2>1, ByteAtPlace
  <2>3. o \in Nat /\ o < PageSize
    BY ConstFacts
  <2>4. i \in from .. to - 1 /\ needFrom <= i /\ i < needTo
    BY <1>3, <2>1, <2>3, ConstFacts
  <2> QED BY <2>1, <2>2, <2>4 DEF BufOK
<1>5. Extract(buf, <<slot, u>>) = [o \in Offsets |-> buf[u * PageSize + o]]
  BY <1>1 DEF Extract
<1>6. HostPage(<<slot, u>>) = [o \in Offsets |-> ByteOf(0, u * PageSize + o)]
  BY <1>1 DEF HostPage
<1> QED BY <1>4, <1>5, <1>6

(* Laying a page over the buffer: an override, or else a page of the host. *)
LEMMA LayKeeps ==
    ASSUME NEW slot, NEW from, NEW to, Range3(slot, from, to), NEW needFrom, NEW needTo,
           NEW u \in Nat, NEW buf, BufOK(buf, slot, from, to, needFrom, needTo, u),
           NEW data, data = IF <<slot, u>> \in Written THEN pages[<<slot, u>>] ELSE HostPage(<<slot, u>>)
    PROVE  /\ BufOK(Overlay(buf, <<slot, u>>, data), slot, from, to, needFrom, needTo, u + 1)
           /\ \A E : EndsRead(buf, slot, from, to, E, u)
                     => EndsRead(Overlay(buf, <<slot, u>>, data), slot, from, to, E, u + 1)
<1>1. PICK over : over = Overlay(buf, <<slot, u>>, data)
  OBVIOUS
<1>2. DOMAIN buf = from .. to - 1
  BY DEF BufOK
<1>3. /\ DOMAIN over = from .. to - 1
      /\ \A i \in from .. to - 1 : over[i] = IF i \div PageSize = u THEN data[i % PageSize] ELSE buf[i]
  BY <1>1, <1>2 DEF Overlay
<1>4. \A i \in from .. to - 1 : i \div PageSize \in Nat /\ i % PageSize \in Offsets
                                /\ i = (i \div PageSize) * PageSize + (i % PageSize)
  <2> TAKE i \in from .. to - 1
  <2>1. i \in 0 .. SlotBytes - 1
    BY RangeFacts
  <2> QED BY <2>1, PlaceOfByte, ConstFacts
<1>5. ASSUME NEW i \in from .. to - 1, i \div PageSize = u
      PROVE  over[i] = IF <<slot, u>> \in Written THEN pages[<<slot, u>>][i % PageSize] ELSE ByteOf(0, i)
  <2>1. over[i] = data[i % PageSize]
    BY <1>3, <1>5
  <2>2. HostPage(<<slot, u>>)[i % PageSize] = ByteOf(0, u * PageSize + (i % PageSize))
    BY <1>4 DEF HostPage
  <2>3. i = u * PageSize + (i % PageSize)
    BY <1>4, <1>5
  <2>4. CASE <<slot, u>> \in Written
    BY <2>1, <2>4
  <2>5. CASE <<slot, u>> \notin Written
    BY <2>1, <2>2, <2>3, <2>5
  <2> QED BY <2>4, <2>5
<1>6. \A i \in from .. to - 1 : i \div PageSize # u => over[i] = buf[i]
  BY <1>3
<1>7. \A i \in from .. to - 1 : i \div PageSize < u + 1 => i \div PageSize < u \/ i \div PageSize = u
  <2> TAKE i \in from .. to - 1
  <2> QED BY <1>4
<1>8. ASSUME NEW i \in from .. to - 1, <<slot, i \div PageSize>> \notin Written, needFrom <= i, i < needTo
      PROVE  over[i] = ByteOf(0, i)
  <2>1. buf[i] = ByteOf(0, i)
    BY <1>8 DEF BufOK
  <2> QED BY <1>5, <1>6, <1>8, <2>1
<1>9. ASSUME NEW i \in from .. to - 1, <<slot, i \div PageSize>> \in Written, i \div PageSize < u + 1
      PROVE  over[i] = pages[<<slot, i \div PageSize>>][i % PageSize]
  <2>1. CASE i \div PageSize = u
    BY <1>5, <1>9, <2>1
  <2>2. CASE i \div PageSize # u
    <3>1. i \div PageSize < u
      BY <1>7, <1>9, <2>2
    <3>2. buf[i] = pages[<<slot, i \div PageSize>>][i % PageSize]
      BY <1>9, <3>1 DEF BufOK
    <3> QED BY <1>6, <2>2, <3>2
  <2> QED BY <2>1, <2>2
<1>10. BufOK(over, slot, from, to, needFrom, needTo, u + 1)
  BY <1>3, <1>8, <1>9 DEF BufOK
<1>11. ASSUME NEW E, EndsRead(buf, slot, from, to, E, u) PROVE EndsRead(over, slot, from, to, E, u + 1)
  <2> SUFFICES ASSUME NEW i \in from .. to - 1, i \div PageSize \in E, i \div PageSize < u + 1,
                      <<slot, i \div PageSize>> \notin Written
               PROVE  over[i] = ByteOf(0, i)
    BY DEF EndsRead
  <2>1. CASE i \div PageSize = u
    BY <1>5, <2>1
  <2>2. CASE i \div PageSize # u
    <3>1. i \div PageSize < u
      BY <1>7, <2>2
    <3>2. buf[i] = ByteOf(0, i)
      BY <1>11, <3>1 DEF EndsRead
    <3> QED BY <1>6, <2>2, <3>2
  <2> QED BY <2>1, <2>2
<1> QED BY <1>1, <1>10, <1>11

(* A page that is not an override may be left as it is in the buffer.      *)
LEMMA StayKeeps ==
    ASSUME NEW slot, NEW from, NEW to, Range3(slot, from, to), NEW needFrom, NEW needTo,
           NEW u \in Nat, NEW buf, BufOK(buf, slot, from, to, needFrom, needTo, u),
           <<slot, u>> \notin Written
    PROVE  /\ BufOK(buf, slot, from, to, needFrom, needTo, u + 1)
           /\ \A E : u \notin E /\ EndsRead(buf, slot, from, to, E, u)
                     => EndsRead(buf, slot, from, to, E, u + 1)
<1>1. \A i \in from .. to - 1 : i \div PageSize < u + 1 => i \div PageSize < u \/ i \div PageSize = u
  <2> TAKE i \in from .. to - 1
  <2>1. i \in 0 .. SlotBytes - 1
    BY RangeFacts
  <2>2. i \div PageSize \in Nat
    BY <2>1, PlaceOfByte, ConstFacts
  <2> QED BY <2>2
<1>2. BufOK(buf, slot, from, to, needFrom, needTo, u + 1)
  BY <1>1 DEF BufOK
<1>3. ASSUME NEW E, u \notin E, EndsRead(buf, slot, from, to, E, u)
      PROVE  EndsRead(buf, slot, from, to, E, u + 1)
  BY <1>1, <1>3 DEF EndsRead
<1> QED BY <1>2, <1>3

(* The pass at a page, case by case.                                       *)
Whole(id, needFrom, needTo) == id[2] * PageSize >= needFrom /\ (id[2] + 1) * PageSize <= needTo

(* The second pass at one page, case by case: an override, a cached page,  *)
(* a page to stage, any other.                                             *)
LEMMA ReadPassIs ==
    ASSUME NEW buf, NEW c, NEW staged, NEW id, NEW needFrom, NEW needTo,
           NEW st, st = [buf |-> buf, cache |-> c, staged |-> staged],
           NEW next, next = ReadPass(st, id, needFrom, needTo)
    PROVE  /\ id \in Written =>
                next = [buf |-> Overlay(buf, id, pages[id]), cache |-> c, staged |-> staged]
           /\ id \notin Written /\ Cached(c, id) =>
                next = [buf |-> Overlay(buf, id, CachedPage(c, id)), cache |-> LruGet(c, id),
                        staged |-> staged]
           /\ id \notin Written /\ ~Cached(c, id) /\ Whole(id, needFrom, needTo) /\ Len(staged) < StagingSize =>
                next = [buf |-> buf, cache |-> c,
                        staged |-> Append(staged, <<id, Extract(buf, id)>>)]
           /\ id \notin Written /\ ~Cached(c, id) /\ Whole(id, needFrom, needTo) /\ ~(Len(staged) < StagingSize) =>
                next = [buf |-> buf, cache |-> LruInsert(c, id, Extract(buf, id)), staged |-> staged]
           /\ id \notin Written /\ ~Cached(c, id) /\ ~Whole(id, needFrom, needTo) => next = st
<1>2. st.buf = buf /\ st.cache = c /\ st.staged = staged
  OBVIOUS
<1> DEFINE whole == Whole(id, needFrom, needTo)
<1>5. id \in Written => next = [st EXCEPT !.buf = Overlay(st.buf, id, pages[id])]
  BY DEF ReadPass
<1>6. id \notin Written /\ Cached(c, id) =>
        next = [st EXCEPT !.buf = Overlay(st.buf, id, CachedPage(c, id)), !.cache = LruGet(st.cache, id)]
  BY <1>2 DEF ReadPass
<1>7. id \notin Written /\ ~Cached(c, id) /\ whole /\ Len(staged) < StagingSize =>
        next = [st EXCEPT !.staged = Append(st.staged, <<id, Extract(buf, id)>>)]
  BY <1>2 DEF ReadPass, Whole
<1>8. id \notin Written /\ ~Cached(c, id) /\ whole /\ ~(Len(staged) < StagingSize) =>
        next = [st EXCEPT !.cache = LruInsert(st.cache, id, Extract(buf, id))]
  BY <1>2 DEF ReadPass, Whole
<1>9. id \notin Written /\ ~Cached(c, id) /\ ~whole => next = st
  BY <1>2 DEF ReadPass, Whole
<1> HIDE DEF whole
<1>10. \A x : /\ [st EXCEPT !.buf = x] = [buf |-> x, cache |-> c, staged |-> staged]
              /\ [st EXCEPT !.cache = x] = [buf |-> buf, cache |-> x, staged |-> staged]
              /\ [st EXCEPT !.staged = x] = [buf |-> buf, cache |-> c, staged |-> x]
  OBVIOUS
<1>11. ASSUME NEW x, NEW y
       PROVE  [st EXCEPT !.buf = x, !.cache = y] = [buf |-> x, cache |-> y, staged |-> staged]
  <2>1. PICK f : f = [st EXCEPT !.buf = x, !.cache = y]
    OBVIOUS
  <2>2. f.buf = x /\ f.cache = y /\ f.staged = staged
    BY <2>1
  <2>3. DOMAIN f = {"buf", "cache", "staged"}
    BY <2>1
  <2>4. f = [k \in {"buf", "cache", "staged"} |-> f[k]]
    BY <2>1, <2>3
  <2> QED BY <2>1, <2>2, <2>3, <2>4
<1>12. id \in Written => next = [buf |-> Overlay(buf, id, pages[id]), cache |-> c, staged |-> staged]
  BY <1>2, <1>5, <1>10
<1>13. id \notin Written /\ Cached(c, id) =>
        next = [buf |-> Overlay(buf, id, CachedPage(c, id)), cache |-> LruGet(c, id), staged |-> staged]
  BY <1>2, <1>6, <1>11
<1>14. id \notin Written /\ ~Cached(c, id) /\ whole /\ Len(staged) < StagingSize =>
        next = [buf |-> buf, cache |-> c, staged |-> Append(staged, <<id, Extract(buf, id)>>)]
  BY <1>2, <1>7, <1>10
<1>15. id \notin Written /\ ~Cached(c, id) /\ whole /\ ~(Len(staged) < StagingSize) =>
        next = [buf |-> buf, cache |-> LruInsert(c, id, Extract(buf, id)), staged |-> staged]
  BY <1>2, <1>8, <1>10
<1> QED BY <1>9, <1>12, <1>13, <1>14, <1>15 DEF whole

(* The case of a page that is staged.                                      *)
LEMMA ReadPassStages ==
    ASSUME NEW buf, NEW c, NEW staged, NEW id, NEW needFrom, NEW needTo,
           NEW st, st = [buf |-> buf, cache |-> c, staged |-> staged],
           NEW next, next = ReadPass(st, id, needFrom, needTo),
           id \notin Written, ~Cached(c, id), Whole(id, needFrom, needTo), Len(staged) < StagingSize
    PROVE  next = [buf |-> buf, cache |-> c, staged |-> Append(staged, <<id, Extract(buf, id)>>)]
BY ReadPassIs

(* What is staged stays in order when the cache only loses entries or      *)
(* gains the page at hand.                                                 *)
LEMMA StagedKeeps ==
    ASSUME NEW slot, NEW a \in Nat, NEW u \in Nat, a <= u, NEW c, NEW d, NEW staged, StagedOK(c, staged, slot, a, u),
           \A y : Cached(d, y) => y = <<slot, u>> \/ Cached(c, y)
    PROVE  StagedOK(d, staged, slot, a, u + 1)
<1>1. ASSUME NEW j \in 1 .. Len(staged)
      PROVE  ~Cached(d, staged[j][1]) /\ \E p \in a .. u + 1 - 1 : staged[j] = <<<<slot, p>>, HostPage(<<slot, p>>)>>
  <2>1. PICK p \in a .. u - 1 : staged[j] = <<<<slot, p>>, HostPage(<<slot, p>>)>>
    BY DEF StagedOK
  <2>2. ~Cached(c, staged[j][1])
    BY DEF StagedOK
  <2>3. p \in a .. u + 1 - 1 /\ p # u
    OBVIOUS
  <2>4. staged[j][1] # <<slot, u>>
    BY <2>1, <2>3
  <2> QED BY <2>1, <2>2, <2>3, <2>4
<1> QED BY <1>1 DEF StagedOK

(* Staging one more page.                                                  *)
LEMMA StageKeeps ==
    ASSUME NEW slot \in Slots, NEW a \in Nat, NEW u \in 0 .. NPages - 1, a <= u, NEW c, NEW staged,
           StagedOK(c, staged, slot, a, u), Len(staged) < StagingSize, ~Cached(c, <<slot, u>>)
    PROVE  StagedOK(c, Append(staged, <<<<slot, u>>, HostPage(<<slot, u>>)>>), slot, a, u + 1)
<1>1. PICK n \in Nat : n = Len(staged) /\ staged \in Seq(Entries)
  BY DEF StagedOK
<1>2. PICK x, e : x = <<slot, u>> /\ e = <<x, HostPage(x)>>
  OBVIOUS
<1>3. e \in Entries /\ e[1] = x
  <2>1. x \in PageIDs
    BY <1>2 DEF PageIDs
  <2> QED BY <1>2, <2>1, HostPageTyped DEF Entries
<1>4. PICK more : more = Append(staged, e)
  OBVIOUS
<1>5. /\ more \in Seq(Entries) /\ Len(more) = n + 1 /\ more[n + 1] = e
      /\ \A j \in 1 .. n : more[j] = staged[j]
  BY <1>1, <1>3, <1>4
<1>6. u \in Nat
  BY ConstFacts
<1>8. \A j \in 1 .. n + 1 : j \in 1 .. n \/ j = n + 1
  BY <1>1
<1>9. ASSUME NEW j \in 1 .. n
      PROVE  ~Cached(c, staged[j][1]) /\ staged[j][1] # x
             /\ \E p \in a .. u + 1 - 1 : staged[j] = <<<<slot, p>>, HostPage(<<slot, p>>)>>
  <2>1. PICK p \in a .. u - 1 : staged[j] = <<<<slot, p>>, HostPage(<<slot, p>>)>>
    BY <1>1 DEF StagedOK
  <2>2. p # u
    BY <1>6
  <2>3. staged[j][1] # x
    BY <1>2, <2>1, <2>2
  <2>4. ~Cached(c, staged[j][1])
    BY <1>1 DEF StagedOK
  <2>5. p \in a .. u + 1 - 1
    BY <1>6
  <2> QED BY <2>1, <2>3, <2>4, <2>5
<1>10. ASSUME NEW j \in 1 .. n + 1
       PROVE  ~Cached(c, more[j][1])
              /\ \E p \in a .. u + 1 - 1 : more[j] = <<<<slot, p>>, HostPage(<<slot, p>>)>>
  <2>1. CASE j = n + 1
    <3>1. u \in a .. u + 1 - 1
      BY <1>6
    <3> QED BY <1>2, <1>3, <1>5, <2>1, <3>1
  <2>2. CASE j \in 1 .. n
    BY <1>5, <1>9, <2>2
  <2> QED BY <1>8, <2>1, <2>2
<1>11. ASSUME NEW j \in 1 .. n + 1, NEW l \in 1 .. n + 1, more[j][1] = more[l][1] PROVE j = l
  <2>1. \A k, m \in 1 .. n : staged[k][1] = staged[m][1] => k = m
    BY <1>1 DEF StagedOK
  <2> QED BY <1>3, <1>5, <1>8, <1>9, <1>11, <2>1
<1>12. n + 1 <= StagingSize
  BY <1>1, ConstantsAssumption
<1>13. StagedOK(c, more, slot, a, u + 1)
  <2>1. /\ more \in Seq(Entries) /\ Len(more) <= StagingSize
        /\ \A j \in 1 .. Len(more) :
             /\ ~Cached(c, more[j][1])
             /\ \E p \in a .. u + 1 - 1 : more[j] = <<<<slot, p>>, HostPage(<<slot, p>>)>>
    BY <1>5, <1>10, <1>12
  <2>2. \A j, l \in 1 .. Len(more) : more[j][1] = more[l][1] => j = l
    BY <1>5, <1>11
  <2> QED BY ONLY <2>1, <2>2 DEF StagedOK
<1> QED BY <1>2, <1>4, <1>13

(* The state of the second pass when the pages before u are done; E are    *)
(* the pages that were cut off.  Those are read whatever the cache does in *)
(* between, when the range is not longer than the cache and what is staged. *)
Fits(from, to) == LastPage(to) - FirstPage(from) + 1 <= CacheSize + StagingSize
PassInv(st, u, slot, from, to, needFrom, needTo, E) ==
    /\ st = [buf |-> st.buf, cache |-> st.cache, staged |-> st.staged]
    /\ CacheOK(st.cache)
    /\ BufOK(st.buf, slot, from, to, needFrom, needTo, u)
    /\ StagedOK(st.cache, st.staged, slot, FirstPage(from), u)
    /\ Fits(from, to) => /\ EndsRead(st.buf, slot, from, to, E, u)
                         /\ EndsAhead(st.cache, slot, E, Span(slot, from, to), u)

(* The parts of the invariant of the second pass give the whole.           *)
LEMMA PassInvOf ==
    ASSUME NEW buf, NEW c, NEW staged, NEW u, NEW slot, NEW from, NEW to, NEW needFrom, NEW needTo, NEW E,
           CacheOK(c), BufOK(buf, slot, from, to, needFrom, needTo, u),
           StagedOK(c, staged, slot, FirstPage(from), u),
           Fits(from, to) => /\ EndsRead(buf, slot, from, to, E, u)
                             /\ EndsAhead(c, slot, E, Span(slot, from, to), u)
    PROVE  PassInv([buf |-> buf, cache |-> c, staged |-> staged], u, slot, from, to, needFrom, needTo, E)
BY DEF PassInv

(* What moves ahead in the cache is ahead for the pages that are left.     *)
LEMMA AheadKeeps ==
    ASSUME NEW slot, NEW E, E \subseteq Nat, NEW R, NEW u \in Nat, NEW c, EndsAhead(c, slot, E, R, u),
           NEW d, \A p \in E : \A e : u < p /\ Ahead(c, <<slot, p>>, R, e) => \E f : Ahead(d, <<slot, p>>, R, f)
    PROVE  EndsAhead(d, slot, E, R, u + 1)
<1> SUFFICES ASSUME NEW p \in E, u + 1 <= p, <<slot, p>> \notin Written
             PROVE  \E f : Ahead(d, <<slot, p>>, R, f)
  BY DEF EndsAhead
<1>1. u <= p /\ u < p
  OBVIOUS
<1>2. PICK e : Ahead(c, <<slot, p>>, R, e)
  BY <1>1 DEF EndsAhead
<1> QED BY <1>1, <1>2

(* One page of the second pass keeps its invariant.                        *)
LEMMA PassStepKeeps ==
    ASSUME NEW slot, NEW from, NEW to, Range3(slot, from, to),
           NEW needFrom \in Nat, NEW needTo \in Nat, from <= needFrom, needTo <= to,
           NEW E, E \subseteq FirstPage(from) .. LastPage(to),
           PagesMap(pages),
           NEW u \in FirstPage(from) .. LastPage(to),
           NEW st, PassInv(st, u, slot, from, to, needFrom, needTo, E)
    PROVE  PassInv(ReadPass(st, <<slot, u>>, needFrom, needTo), u + 1, slot, from, to, needFrom, needTo, E)
<1>1. PICK buf, c, staged : st = [buf |-> buf, cache |-> c, staged |-> staged]
  BY DEF PassInv
<1>2. PICK a, b, x, R : a = FirstPage(from) /\ b = LastPage(to) /\ x = <<slot, u>> /\ R = {slot} \X (a .. b)
  OBVIOUS
<1>3. /\ a \in Nat /\ b \in Nat /\ u \in a .. b /\ u \in Nat /\ u \in 0 .. NPages - 1 /\ a <= u
      /\ from \in Nat /\ to \in Nat /\ E \subseteq Nat /\ E \subseteq a .. b /\ slot \in Slots
  <2>1. /\ from \in Nat /\ to \in Nat /\ a \in 0 .. NPages - 1 /\ b \in 0 .. NPages - 1
    BY <1>2, RangeFacts
  <2>2. u \in a .. b /\ E \subseteq a .. b
    BY <1>2
  <2>3. a \in Nat /\ b \in Nat /\ u \in Nat /\ u \in 0 .. NPages - 1 /\ a <= u
    BY <2>1, <2>2, ConstFacts
  <2>4. a .. b \subseteq Nat
    BY <2>3
  <2> QED BY <2>1, <2>2, <2>3, <2>4 DEF Range3
<1>4. x[2] = u /\ x \in PageIDs /\ x \in R /\ R = Span(slot, from, to)
  BY <1>2, <1>3 DEF PageIDs, Span
<1>5. /\ CacheOK(c) /\ BufOK(buf, slot, from, to, needFrom, needTo, u)
      /\ StagedOK(c, staged, slot, a, u)
      /\ Fits(from, to) => EndsRead(buf, slot, from, to, E, u) /\ EndsAhead(c, slot, E, R, u)
  BY <1>1, <1>2, <1>4 DEF PassInv
<1>6. PICK next : next = ReadPass(st, x, needFrom, needTo)
  OBVIOUS
<1> DEFINE whole == Whole(x, needFrom, needTo)
<1>7. /\ x \in Written =>
           next = [buf |-> Overlay(buf, x, pages[x]), cache |-> c, staged |-> staged]
      /\ x \notin Written /\ Cached(c, x) =>
           next = [buf |-> Overlay(buf, x, CachedPage(c, x)), cache |-> LruGet(c, x), staged |-> staged]
      /\ x \notin Written /\ ~Cached(c, x) /\ whole /\ Len(staged) < StagingSize =>
           next = [buf |-> buf, cache |-> c, staged |-> Append(staged, <<x, Extract(buf, x)>>)]
      /\ x \notin Written /\ ~Cached(c, x) /\ whole /\ ~(Len(staged) < StagingSize) =>
           next = [buf |-> buf, cache |-> LruInsert(c, x, Extract(buf, x)), staged |-> staged]
      /\ x \notin Written /\ ~Cached(c, x) /\ ~whole => next = st
  <2>1. x \in Written =>
           next = [buf |-> Overlay(buf, x, pages[x]), cache |-> c, staged |-> staged]
    BY ONLY <1>1, <1>6, ReadPassIs
  <2>2. x \notin Written /\ Cached(c, x) =>
           next = [buf |-> Overlay(buf, x, CachedPage(c, x)), cache |-> LruGet(c, x), staged |-> staged]
    BY ONLY <1>1, <1>6, ReadPassIs
  <2>3. x \notin Written /\ ~Cached(c, x) /\ whole /\ Len(staged) < StagingSize =>
           next = [buf |-> buf, cache |-> c, staged |-> Append(staged, <<x, Extract(buf, x)>>)]
    <3> HIDE DEF whole
    <3> SUFFICES ASSUME x \notin Written, ~Cached(c, x), Whole(x, needFrom, needTo), Len(staged) < StagingSize
                 PROVE  next = [buf |-> buf, cache |-> c, staged |-> Append(staged, <<x, Extract(buf, x)>>)]
      BY DEF whole
    <3> QED BY ONLY <1>1, <1>6, x \notin Written, ~Cached(c, x), Whole(x, needFrom, needTo),
                    Len(staged) < StagingSize, ReadPassStages
  <2>4. x \notin Written /\ ~Cached(c, x) /\ whole /\ ~(Len(staged) < StagingSize) =>
           next = [buf |-> buf, cache |-> LruInsert(c, x, Extract(buf, x)), staged |-> staged]
    BY ONLY <1>1, <1>6, ReadPassIs
  <2>5. x \notin Written /\ ~Cached(c, x) /\ ~whole => next = st
    BY ONLY <1>1, <1>6, ReadPassIs
  <2> QED BY <2>1, <2>2, <2>3, <2>4, <2>5
<1>7a. whole => u * PageSize >= needFrom /\ (u + 1) * PageSize <= needTo
  BY <1>4 DEF Whole
<1> HIDE DEF whole
<1>8. StagedOK(c, staged, slot, a, u + 1)
  BY <1>3, <1>5, StagedKeeps
<1>9. Fits(from, to) => EndsAhead(c, slot, E, R, u + 1)
  BY <1>3, <1>5, AheadKeeps
(* An override is laid over the buffer.                                    *)
<1>10. CASE x \in Written
  <2>1. PICK over : over = Overlay(buf, x, pages[x])
    OBVIOUS
  <2>2. BufOK(over, slot, from, to, needFrom, needTo, u + 1)
        /\ (EndsRead(buf, slot, from, to, E, u) => EndsRead(over, slot, from, to, E, u + 1))
    <3>1. PICK data : data = pages[x]
      OBVIOUS
    <3>2. data = IF <<slot, u>> \in Written THEN pages[<<slot, u>>] ELSE HostPage(<<slot, u>>)
      BY <1>2, <1>10, <3>1
    <3> QED BY <1>2, <1>3, <1>5, <2>1, <3>1, <3>2, LayKeeps
  <2>3. next = [buf |-> over, cache |-> c, staged |-> staged]
    BY <1>7, <1>10, <2>1
  <2> QED BY <1>2, <1>4, <1>5, <1>6, <1>8, <1>9, <2>2, <2>3, PassInvOf
(* A cached page too, which moves to the front.                            *)
<1>11. CASE x \notin Written /\ Cached(c, x)
  <2>1. PICK over, d : over = Overlay(buf, x, CachedPage(c, x)) /\ d = LruGet(c, x)
    OBVIOUS
  <2>2. CachedPage(c, x) = HostPage(x)
    <3>1. EntryOf(c, x) \in 1 .. Len(c) /\ c[EntryOf(c, x)][1] = x
      BY <1>11, EntryOfIs
    <3> QED BY <1>5, <3>1 DEF CachedPage, CacheOK
  <2>3. BufOK(over, slot, from, to, needFrom, needTo, u + 1)
        /\ (EndsRead(buf, slot, from, to, E, u) => EndsRead(over, slot, from, to, E, u + 1))
    <3>1. PICK data : data = HostPage(x)
      OBVIOUS
    <3>2. data = IF <<slot, u>> \in Written THEN pages[<<slot, u>>] ELSE HostPage(<<slot, u>>)
      BY <1>2, <1>11, <3>1
    <3> QED BY <1>2, <1>3, <1>5, <2>1, <2>2, <3>1, <3>2, LayKeeps
  <2>4. /\ CacheOK(d) /\ \A y : Cached(d, y) <=> Cached(c, y)
        /\ \A q, e : Ahead(c, q, R, e) => \E f : Ahead(d, q, R, f)
    BY <1>4, <1>5, <2>1, GetKeeps
  <2>5. Fits(from, to) => EndsAhead(d, slot, E, R, u + 1)
    BY <1>3, <1>5, <2>4, AheadKeeps
  <2>6. StagedOK(d, staged, slot, a, u + 1)
    BY <1>3, <1>5, <2>4, StagedKeeps
  <2>7. next = [buf |-> over, cache |-> d, staged |-> staged]
    BY <1>7, <1>11, <2>1
  <2> QED BY <1>2, <1>4, <1>5, <1>6, <2>3, <2>4, <2>5, <2>6, <2>7, PassInvOf
(* The page is as the host sent it; then it was not cut off, if the range  *)
(* fits, for it would still be cached.                                     *)
<1>12. CASE x \notin Written /\ ~Cached(c, x)
  <2>1. Fits(from, to) => u \notin E
    <3> SUFFICES ASSUME Fits(from, to), u \in E PROVE FALSE
      OBVIOUS
    <3>1. u <= u
      BY <1>3
    <3>2. PICK e : Ahead(c, x, R, e)
      BY <1>2, <1>5, <1>12, <3>1 DEF EndsAhead
    <3> QED BY <1>12, <3>2 DEF Ahead, Cached
  <2>2. BufOK(buf, slot, from, to, needFrom, needTo, u + 1)
        /\ (Fits(from, to) => EndsRead(buf, slot, from, to, E, u + 1))
    <3>1. <<slot, u>> \notin Written
      BY <1>2, <1>12
    <3>2. /\ BufOK(buf, slot, from, to, needFrom, needTo, u + 1)
          /\ u \notin E /\ EndsRead(buf, slot, from, to, E, u) => EndsRead(buf, slot, from, to, E, u + 1)
      BY <1>3, <1>5, <3>1, StayKeeps
    <3> QED BY <1>5, <2>1, <3>2
  <2>3. whole => Extract(buf, x) = HostPage(x)
    <3> SUFFICES ASSUME whole PROVE Extract(buf, x) = HostPage(x)
      OBVIOUS
    <3>1. u * PageSize >= needFrom /\ (u + 1) * PageSize <= needTo
      BY <1>7a
    <3>2. <<slot, u>> \notin Written
      BY <1>2, <1>12
    <3> QED BY <1>2, <1>3, <1>5, <3>1, <3>2, ExtractIs
  <2>4. CASE whole /\ Len(staged) < StagingSize
    <3>1. PICK more : more = Append(staged, <<x, HostPage(x)>>)
      OBVIOUS
    <3>2. StagedOK(c, more, slot, a, u + 1)
      BY <1>2, <1>3, <1>5, <1>12, <2>4, <3>1, StageKeeps
    <3>3. next = [buf |-> buf, cache |-> c, staged |-> more]
      BY <1>7, <1>12, <2>3, <2>4, <3>1
    <3> QED BY <1>2, <1>4, <1>5, <1>6, <1>9, <2>2, <3>2, <3>3, PassInvOf
  <2>5. CASE whole /\ ~(Len(staged) < StagingSize)
    <3>1. PICK d : d = LruInsert(c, x, HostPage(x))
      OBVIOUS
    <3>2. /\ CacheOK(d) /\ \A y : Cached(d, y) => y = x \/ Cached(c, y)
          /\ \A q, e : Ahead(c, q, R, e) /\ e < CacheSize => Ahead(d, q, R, e + 1)
      BY <1>4, <1>5, <1>12, <3>1, InsertKeeps
    <3>3. StagedOK(d, staged, slot, a, u + 1)
      BY <1>2, <1>3, <1>5, <3>2, StagedKeeps
    <3>4. Len(staged) = StagingSize
      BY <1>5, <2>5, ConstantsAssumption DEF StagedOK
    <3>5. Fits(from, to) => EndsAhead(d, slot, E, R, u + 1)
      <4> SUFFICES ASSUME Fits(from, to) PROVE EndsAhead(d, slot, E, R, u + 1)
        OBVIOUS
      <4>1. b - a + 1 <= CacheSize + StagingSize
        BY <1>2 DEF Fits
      <4>2. ASSUME NEW p \in E, NEW e, Ahead(c, <<slot, p>>, R, e) PROVE Ahead(d, <<slot, p>>, R, e + 1)
        <5>1. <<slot, p>> \in {slot} \X (a .. b)
          BY <1>3
        <5>2. e < CacheSize
          BY <1>2, <1>3, <1>5, <1>12, <3>4, <4>1, <4>2, <5>1, Room
        <5> QED BY <3>2, <4>2, <5>2
      <4> QED BY <1>3, <1>5, <4>2, AheadKeeps
    <3>6. next = [buf |-> buf, cache |-> d, staged |-> staged]
      BY <1>7, <1>12, <2>3, <2>5, <3>1
    <3> QED BY <1>2, <1>4, <1>6, <2>2, <3>2, <3>3, <3>5, <3>6, PassInvOf
  <2>6. CASE ~whole
    <3>1. next = [buf |-> buf, cache |-> c, staged |-> staged]
      BY <1>1, <1>7, <1>12, <2>6
    <3> QED BY <1>2, <1>4, <1>5, <1>6, <1>8, <1>9, <2>2, <3>1, PassInvOf
  <2> QED BY <2>4, <2>5, <2>6
<1> QED BY <1>10, <1>11, <1>12

(* The second pass over the whole range.                                   *)
LEMMA SecondPassKeeps ==
    ASSUME NEW slot, NEW from, NEW to, Range3(slot, from, to),
           NEW needFrom \in Nat, NEW needTo \in Nat, from <= needFrom, needTo <= to,
           NEW E, E \subseteq FirstPage(from) .. LastPage(to),
           PagesMap(pages),
           NEW st, PassInv(st, FirstPage(from), slot, from, to, needFrom, needTo, E)
    PROVE  PassInv(SecondPass(st, PagesOf(slot, from, to), needFrom, needTo),
                   LastPage(to) + 1, slot, from, to, needFrom, needTo, E)
<1>1. PICK a, b, ids : a = FirstPage(from) /\ b = LastPage(to) /\ ids = PagesOf(slot, from, to)
  OBVIOUS
<1>2. a \in Nat /\ b \in Nat /\ a <= b
  BY <1>1, RangeFacts
<1>3. PICK n \in Nat : n = b - a + 1
  BY <1>2
<1>4. Len(ids) = n /\ DOMAIN ids = 1 .. n /\ \A k \in 1 .. n : ids[k] = <<slot, a + k - 1>>
  BY <1>1, <1>3, PagesOfIs DEF PagesOf
<1>5. PICK r : Trace(r, "pass", <<needFrom, needTo>>, st, ids) /\ SecondPass(st, ids, needFrom, needTo) = r[n]
  BY <1>3, <1>4, PassFold
<1>6. r[0] = st /\ \A k \in 1 .. n : r[k] = ReadPass(r[k - 1], ids[k], needFrom, needTo)
  BY <1>4, <1>5 DEF Trace, Step
<1> DEFINE I(k) == PassInv(r[k], a + k, slot, from, to, needFrom, needTo, E)
           G == {k \in 0 .. n : I(k)}
<1>7. 0 \in G
  <2>1. a + 0 = a /\ 0 \in 0 .. n
    BY <1>2
  <2>2. PassInv(r[0], a, slot, from, to, needFrom, needTo, E)
    BY <1>1, <1>6
  <2> QED BY <2>1, <2>2
<1>8. ASSUME NEW k \in 1 .. n, k - 1 \in G PROVE k \in G
  <2>1. PICK u : u = a + k - 1
    OBVIOUS
  <2>2. u = a + (k - 1) /\ u + 1 = a + k /\ u \in a .. b
    BY <1>2, <1>3, <2>1
  <2>3. PassInv(r[k - 1], u, slot, from, to, needFrom, needTo, E)
    BY <1>8, <2>2
  <2>4. r[k] = ReadPass(r[k - 1], <<slot, u>>, needFrom, needTo)
    BY <1>4, <1>6, <2>1
  <2> HIDE DEF G, I
  <2>5. PassInv(r[k], u + 1, slot, from, to, needFrom, needTo, E)
    BY <1>1, <2>2, <2>3, <2>4, PassStepKeeps
  <2>6. I(k) /\ k \in 0 .. n
    BY <2>2, <2>5 DEF I
  <2> QED BY <2>6 DEF G
<1>9. n \in G
  <2>1. PICK g : g = G
    OBVIOUS
  <2> HIDE DEF G
  <2>2. 0 \in g
    BY <1>7, <2>1
  <2>3. \A k \in 1 .. n : k - 1 \in g => k \in g
    BY <1>8, <2>1
  <2>4. \A k \in 0 .. n : k \in g
    BY ONLY <2>2, <2>3, n \in Nat, UpTo, ZenonT(30)
  <2>5. n \in 0 .. n
    BY n \in Nat
  <2> QED BY <2>1, <2>4, <2>5
<1>10. I(n)
  BY <1>9
<1>11. a + n = b + 1
  BY <1>2, <1>3
<1> QED BY <1>1, <1>5, <1>10, <1>11

(* Caching what was staged.                                                *)
LEMMA PutStagedKeeps ==
    ASSUME NEW c, CacheOK(c), NEW staged \in Seq(Entries),
           \A j \in 1 .. Len(staged) : staged[j][2] = HostPage(staged[j][1])
    PROVE  CacheOK(PutStaged(c, staged))
<1>1. PICK n \in Nat : n = Len(staged) /\ DOMAIN staged = 1 .. n
  OBVIOUS
<1>2. PICK r : Trace(r, "insert", <<>>, c, staged) /\ PutStaged(c, staged) = r[n]
  BY <1>1, InsertFold
<1>3. r[0] = c /\ \A k \in 1 .. n : r[k] = LruInsert(r[k - 1], staged[k][1], staged[k][2])
  BY <1>1, <1>2 DEF Trace, Step
<1> DEFINE G == {k \in 0 .. n : CacheOK(r[k])}
<1>4. 0 \in G
  <2>1. 0 \in 0 .. n
    OBVIOUS
  <2> QED BY <1>3, <2>1
<1>5. ASSUME NEW k \in 1 .. n, k - 1 \in G PROVE k \in G
  <2>1. PICK d, x : d = r[k - 1] /\ x = staged[k][1]
    OBVIOUS
  <2>2. CacheOK(d) /\ k \in 0 .. n
    BY <1>5, <2>1
  <2>3. x \in PageIDs /\ r[k] = LruInsert(d, x, HostPage(x))
    <3>1. staged[k] \in Entries
      BY <1>1
    <3>2. x \in PageIDs
      BY <2>1, <3>1 DEF Entries
    <3> QED BY <1>1, <1>3, <2>1, <3>2
  <2>4. CacheOK(r[k])
    <3> HIDE DEF G
    <3> QED BY <2>2, <2>3, InsertKeeps
  <2> QED BY <2>2, <2>4
<1>6. n \in G
  <2>1. PICK g : g = G
    OBVIOUS
  <2> HIDE DEF G
  <2>2. 0 \in g
    BY <1>4, <2>1
  <2>3. \A k \in 1 .. n : k - 1 \in g => k \in g
    BY <1>5, <2>1
  <2>4. \A k \in 0 .. n : k \in g
    BY ONLY <2>2, <2>3, n \in Nat, UpTo, ZenonT(30)
  <2>5. n \in 0 .. n
    BY n \in Nat
  <2> QED BY <2>1, <2>4, <2>5
<1> QED BY <1>2, <1>6

(* A whole read: the cache stays right, and the bytes that are returned    *)
(* are those of the storage, when the range fits.                          *)
LEMMA ReadKeeps ==
    ASSUME NEW slot, NEW from, NEW to, Range3(slot, from, to), CacheOK(cache), PagesMap(pages)
    PROVE  LET r == ReadResult(slot, from, to)
           IN  /\ CacheOK(r.cache)
               /\ Fits(from, to) => \A i \in from .. to - 1 : r.buf[i] = Holds(pages, slot, i)
<1>1. PICK a, b, ids, R, E : /\ a = FirstPage(from) /\ b = LastPage(to) /\ ids = PagesOf(slot, from, to)
                             /\ R = Span(slot, from, to) /\ E = Ends(slot, from, to)
  OBVIOUS
<1>2. /\ a \in Nat /\ b \in Nat /\ a <= b /\ slot \in Slots
      /\ \A i \in from .. to - 1 : i \in 0 .. SlotBytes - 1 /\ i \div PageSize \in a .. b
  <2>1. slot \in Slots
    BY DEF Range3
  <2>2. a \in 0 .. NPages - 1 /\ b \in 0 .. NPages - 1 /\ a <= b
    BY <1>1, RangeFacts
  <2>3. \A i \in from .. to - 1 : i \in 0 .. SlotBytes - 1 /\ i \div PageSize \in a .. b
    BY <1>1, RangeFacts
  <2> QED BY <2>1, <2>2, <2>3
<1>3. PICK needFrom, needTo : needFrom = NeedFrom(slot, from, to) /\ needTo = NeedTo(slot, from, to)
  OBVIOUS
<1>4. /\ needFrom \in Nat /\ needTo \in Nat /\ from <= needFrom /\ needTo <= to
      /\ \A i \in from .. to - 1 : i \div PageSize \notin E => needFrom <= i /\ i < needTo
  BY <1>1, <1>3, NeedIs
<1>5. PICK buf, c : buf = HostRead(from, to, needFrom, needTo) /\ c = CutEnds(ids)
  OBVIOUS
<1>6. CacheOK(c) /\ \A p \in E : <<slot, p>> \in Written \/ \E e : Ahead(c, <<slot, p>>, R, e)
  BY <1>1, <1>5, EndsLooked
<1>7. E \subseteq a .. b
  BY <1>1 DEF Ends
<1>8. \A i \in from .. to - 1 : ~(i \div PageSize < a)
  <2> TAKE i \in from .. to - 1
  <2>1. PICK p \in a .. b : p = i \div PageSize
    BY <1>2
  <2> QED BY <1>2, <2>1
<1>9. BufOK(buf, slot, from, to, needFrom, needTo, a)
  <2>1. /\ DOMAIN buf = from .. to - 1
        /\ \A i \in from .. to - 1 : needFrom <= i /\ i < needTo => buf[i] = ByteOf(0, i)
    BY <1>5 DEF HostRead
  <2> QED BY <1>8, <2>1 DEF BufOK
<1>10. EndsRead(buf, slot, from, to, E, a)
  BY <1>8 DEF EndsRead
<1>11. EndsAhead(c, slot, E, R, a)
  BY <1>6 DEF EndsAhead
<1>12. StagedOK(c, <<>>, slot, a, a)
  <2>1. <<>> \in Seq(Entries) /\ Len(<<>>) = 0 /\ 1 .. 0 = {}
    OBVIOUS
  <2>2. 0 <= StagingSize
    BY ConstantsAssumption
  <2> QED BY <2>1, <2>2 DEF StagedOK
<1>13. PICK start, end : /\ start = [buf |-> buf, cache |-> c, staged |-> <<>>]
                         /\ end = SecondPass(start, ids, needFrom, needTo)
  OBVIOUS
<1>14. PassInv(start, a, slot, from, to, needFrom, needTo, E)
  BY <1>1, <1>6, <1>9, <1>10, <1>11, <1>12, <1>13, PassInvOf
<1>15. PassInv(end, b + 1, slot, from, to, needFrom, needTo, E)
  BY <1>1, <1>4, <1>7, <1>13, <1>14, SecondPassKeeps
<1>16. PICK r : r = ReadResult(slot, from, to) /\ r = [buf |-> end.buf, cache |-> PutStaged(end.cache, end.staged)]
  BY <1>1, <1>3, <1>5, <1>13 DEF ReadResult
<1>17. r.buf = end.buf /\ r.cache = PutStaged(end.cache, end.staged)
  BY <1>16
<1>18. CacheOK(r.cache)
  <2>1. CacheOK(end.cache) /\ StagedOK(end.cache, end.staged, slot, a, b + 1)
    BY <1>1, <1>15 DEF PassInv
  <2>2. PICK s : s = end.staged
    OBVIOUS
  <2>3. s \in Seq(Entries)
    BY <2>1, <2>2 DEF StagedOK
  <2>4. ASSUME NEW j \in 1 .. Len(s) PROVE s[j][2] = HostPage(s[j][1])
    <3>1. PICK p : s[j] = <<<<slot, p>>, HostPage(<<slot, p>>)>>
      BY <2>1, <2>2 DEF StagedOK
    <3> QED BY <3>1
  <2>5. CacheOK(PutStaged(end.cache, s))
    BY <2>1, <2>3, <2>4, PutStagedKeeps
  <2> QED BY <1>17, <2>2, <2>5
<1>19. ASSUME Fits(from, to), NEW i \in from .. to - 1 PROVE r.buf[i] = Holds(pages, slot, i)
  <2>1. /\ BufOK(end.buf, slot, from, to, needFrom, needTo, b + 1)
        /\ EndsRead(end.buf, slot, from, to, E, b + 1)
    BY <1>15, <1>19 DEF PassInv
  <2>2. i \div PageSize < b + 1
    <3>1. PICK p \in a .. b : p = i \div PageSize
      BY <1>2
    <3> QED BY <1>2, <3>1
  <2>3. CASE <<slot, i \div PageSize>> \in Written
    <3>1. end.buf[i] = pages[<<slot, i \div PageSize>>][i % PageSize]
      BY <2>1, <2>2, <2>3 DEF BufOK
    <3> QED BY <1>17, <2>3, <3>1 DEF Holds, Written
  <2>4. CASE <<slot, i \div PageSize>> \notin Written
    <3>1. Holds(pages, slot, i) = ByteOf(0, i)
      BY <2>4 DEF Holds, Written
    <3>2. CASE i \div PageSize \in E
      BY <1>17, <2>1, <2>2, <2>4, <3>1, <3>2 DEF EndsRead
    <3>3. CASE i \div PageSize \notin E
      <4>1. needFrom <= i /\ i < needTo
        BY <1>4, <3>3
      <4>2. end.buf[i] = ByteOf(0, i)
        BY <2>1, <2>4, <4>1 DEF BufOK
      <4> QED BY <1>17, <3>1, <4>2
    <3> QED BY <3>2, <3>3
  <2> QED BY <2>3, <2>4
<1> QED BY <1>16, <1>18, <1>19

(* A read keeps the invariant.                                             *)
LEMMA ReadPreserves == ASSUME IInv, Read PROVE IInv'
<1>1. PICK slot, from, to : Range3(slot, from, to) /\ ReadRange(slot, from, to)
  BY DEF Read, Range3
<1>2. PICK r : /\ r = ReadResult(slot, from, to) /\ cache' = r.cache
               /\ pages' = pages /\ feesLeft' = feesLeft /\ contents' = contents
  BY <1>1 DEF ReadRange
<1>3. PagesMap(pages) /\ CacheOK(cache)
  BY DEF IInv, Funded, PagesMap
<1>4. CacheOK(r.cache)
  BY <1>1, <1>2, <1>3, ReadKeeps
<1>5. CacheOK(cache)'
  BY <1>2, <1>4 DEF CacheOK
<1>6. StorageIsContents'
  BY <1>2 DEF IInv, StorageIsContents, Holds
<1> QED BY <1>2, <1>5, <1>6 DEF IInv, Funded, PagesMap

(* A read that fits returns the storage.                                   *)
LEMMA ReadReturns ==
    ASSUME IInv, NEW slot, NEW from, NEW to, Range3(slot, from, to), Fits(from, to), ReadRange(slot, from, to)
    PROVE  ReadReturnsContents'
<1>1. PICK r : r = ReadResult(slot, from, to) /\ wrong' = {i \in from .. to - 1 : r.buf[i] # contents[slot][i]}
  BY DEF ReadRange
<1>2. PagesMap(pages) /\ CacheOK(cache) /\ slot \in Slots
  BY DEF IInv, Funded, PagesMap, Range3
<1>3. \A i \in from .. to - 1 : r.buf[i] = Holds(pages, slot, i)
  BY <1>1, <1>2, ReadKeeps
<1>4. \A i \in from .. to - 1 : Holds(pages, slot, i) = contents[slot][i]
  <2> TAKE i \in from .. to - 1
  <2>1. i \in 0 .. SlotBytes - 1
    BY RangeFacts
  <2> QED BY <1>2, <2>1 DEF IInv, StorageIsContents
<1> QED BY <1>1, <1>3, <1>4 DEF ReadReturnsContents

(* Every step keeps the invariant.                                         *)
LEMMA NextIInv == IInv /\ [Next]_vars => IInv'
<1> SUFFICES ASSUME IInv, [Next]_vars PROVE IInv'
  OBVIOUS
<1>1. CASE Read
  BY <1>1, ReadPreserves
<1>2. CASE Write
  BY <1>2, WritePreserves
<1>3. CASE UNCHANGED vars
  BY <1>3 DEF vars, IInv, Funded, PagesMap, CacheOK, StorageIsContents, Holds
<1> QED BY <1>1, <1>2, <1>3 DEF Next

(* The invariant always holds.                                             *)
LEMMA AlwaysIInv == Spec => []IInv
<1> QED BY InitIInv, NextIInv, PTL DEF Spec

-----------------------------------------------------------------------------
(* make_delta: the order of the pages.                                     *)

(* A page is a slot and an index.                                          *)
LEMMA PageIs == ASSUME NEW x \in PageIDs PROVE x = <<x[1], x[2]>> /\ x[1] \in Nat /\ x[2] \in Nat
<1>1. PICK s \in Slots, p \in 0 .. NPages - 1 : x = <<s, p>>
  <2>1. x \in Slots \X (0 .. NPages - 1)
    BY DEF PageIDs
  <2> QED BY <2>1
<1>2. x[1] = s /\ x[2] = p
  BY <1>1
<1>3. s \in Nat /\ p \in Nat
  BY ConstFacts
<1> QED BY <1>1, <1>2, <1>3

(* The order of pages is a strict total one.                               *)
LEMMA PageOrder ==
    /\ \A x \in PageIDs : ~PageBefore(x, x)
    /\ \A x, y, z \in PageIDs : PageBefore(x, y) /\ PageBefore(y, z) => PageBefore(x, z)
    /\ \A x, y \in PageIDs : PageBefore(x, y) \/ x = y \/ PageBefore(y, x)
    /\ \A x, y \in PageIDs : PageBefore(x, y) => ~PageBefore(y, x)
<1>1. \A x \in PageIDs : x = <<x[1], x[2]>> /\ x[1] \in Nat /\ x[2] \in Nat
  BY PageIs
<1>2. \A x \in PageIDs : ~PageBefore(x, x)
  BY <1>1 DEF PageBefore
<1>3. \A x, y, z \in PageIDs : PageBefore(x, y) /\ PageBefore(y, z) => PageBefore(x, z)
  <2> TAKE x, y, z \in PageIDs
  <2> QED BY <1>1 DEF PageBefore
<1>4. \A x, y \in PageIDs : PageBefore(x, y) \/ x = y \/ PageBefore(y, x)
  <2> TAKE x, y \in PageIDs
  <2>1. x = <<x[1], x[2]>> /\ y = <<y[1], y[2]>> /\ x[1] \in Nat /\ x[2] \in Nat /\ y[1] \in Nat /\ y[2] \in Nat
    BY <1>1
  <2>2. CASE x[1] = y[1] /\ x[2] = y[2]
    BY <2>1, <2>2
  <2>3. CASE x[1] # y[1] \/ x[2] # y[2]
    BY <2>1, <2>3 DEF PageBefore
  <2> QED BY <2>2, <2>3
<1>5. \A x, y \in PageIDs : PageBefore(x, y) => ~PageBefore(y, x)
  BY <1>2, <1>3
<1> QED BY <1>2, <1>3, <1>4, <1>5

(* Nothing lies between a page and the next one of its slot.               *)
LEMMA NextPage ==
    ASSUME NEW x \in PageIDs, x[2] # 0, NEW y \in PageIDs
    PROVE  /\ PageBefore(<<x[1], x[2] - 1>>, x)
           /\ ~(PageBefore(<<x[1], x[2] - 1>>, y) /\ PageBefore(y, x))
<1>1. x[1] \in Nat /\ x[2] \in Nat /\ y[1] \in Nat /\ y[2] \in Nat
  BY PageIs
<1>2. PICK p : p = <<x[1], x[2] - 1>> /\ p[1] = x[1] /\ p[2] = x[2] - 1
  <2>1. PICK p : p = <<x[1], x[2] - 1>>
    OBVIOUS
  <2>2. p[1] = x[1] /\ p[2] = x[2] - 1
    BY <2>1
  <2> QED BY <2>1, <2>2
<1>3. PageBefore(p, x)
  BY <1>1, <1>2 DEF PageBefore
<1>4. ~(PageBefore(p, y) /\ PageBefore(y, x))
  BY <1>1, <1>2 DEF PageBefore
<1> QED BY <1>2, <1>3, <1>4

(* Some page of a set comes before all others.                             *)
LEMMA FirstOne ==
    ASSUME NEW D, D \subseteq PageIDs, D # {}
    PROVE  \E x \in D : \A y \in D \ {x} : PageBefore(x, y)
<1>1. \A x \in D : x = <<x[1], x[2]>> /\ x[1] \in Nat /\ x[2] \in Nat
  BY PageIs
<1>2. PICK S : S = {x[1] : x \in D}
  OBVIOUS
<1>3. PICK s \in S : \A t \in S : s <= t
  <2>1. S \subseteq Nat /\ S # {}
    BY <1>1, <1>2
  <2> QED BY <2>1, LeastNat
<1>4. PICK P : P = {x[2] : x \in {d \in D : d[1] = s}}
  OBVIOUS
<1>5. PICK p \in P : \A t \in P : p <= t
  <2>1. P \subseteq Nat /\ P # {}
    BY <1>1, <1>2, <1>3, <1>4
  <2> QED BY <2>1, LeastNat
<1>6. PICK x \in D : x[1] = s /\ x[2] = p
  BY <1>4, <1>5
<1>7. ASSUME NEW y \in D \ {x} PROVE PageBefore(x, y)
  <2>1. y[1] \in S /\ (y[1] = s => y[2] \in P)
    BY <1>2, <1>4
  <2>2. s <= y[1] /\ (y[1] = s => p <= y[2])
    BY <1>3, <1>5, <2>1
  <2>3. x[1] # y[1] \/ x[2] # y[2]
    BY <1>1
  <2>4. x[1] \in Nat /\ x[2] \in Nat /\ y[1] \in Nat /\ y[2] \in Nat
    BY <1>1
  <2> QED BY <1>6, <2>2, <2>3, <2>4 DEF PageBefore
<1> QED BY <1>7

(* The pages of a finite set can be put in order.                          *)
Ordered(s, D) ==
    /\ s \in [1 .. Cardinality(D) -> D]
    /\ \A i, j \in DOMAIN s : i < j => PageBefore(s[i], s[j])

(* A finite set of pages can be put in order.                              *)
LEMMA OrderExists ==
    ASSUME NEW D, IsFiniteSet(D), D \subseteq PageIDs
    PROVE  \E s : Ordered(s, D)
<1> DEFINE Bad == {T \in SUBSET D : ~ \E s : Ordered(s, T)}
<1> SUFFICES ASSUME Bad # {} PROVE FALSE
  OBVIOUS
<1>1. \A T \in SUBSET D : IsFiniteSet(T) /\ Cardinality(T) \in Nat
  BY FS_Subset, FS_CardinalityType
<1>2. PICK T \in Bad : \A U \in Bad : Cardinality(T) <= Cardinality(U)
  <2>1. \A U \in Bad : IsFiniteSet(U)
    BY <1>1
  <2> HIDE DEF Bad
  <2> QED BY <2>1, SmallestSet
<1>3. T \subseteq PageIDs /\ IsFiniteSet(T) /\ ~ \E s : Ordered(s, T)
  BY <1>1, <1>2
<1>4. CASE T = {}
  <2>1. Cardinality(T) = 0 /\ 1 .. 0 = {}
    BY <1>4, FS_EmptySet
  <2>2. PICK s : s = [i \in 1 .. 0 |-> i]
    OBVIOUS
  <2>3. s \in [1 .. Cardinality(T) -> T] /\ DOMAIN s = {}
    BY <2>1, <2>2
  <2>4. Ordered(s, T)
    BY <2>3 DEF Ordered
  <2> QED BY <1>3, <2>4
<1>5. CASE T # {}
  <2>1. PICK x \in T : \A y \in T \ {x} : PageBefore(x, y)
    BY <1>3, <1>5, FirstOne
  <2>2. PICK U : U = T \ {x}
    OBVIOUS
  <2>3. /\ U \in SUBSET D /\ Cardinality(U) \in Nat /\ Cardinality(T) = Cardinality(U) + 1
        /\ U \notin Bad
    <3>1. IsFiniteSet(U) /\ Cardinality(U) = Cardinality(T) - 1
      BY <1>3, <2>2, FS_RemoveElement
    <3>2. Cardinality(T) \in Nat /\ Cardinality(U) \in Nat
      BY <1>3, <3>1, FS_CardinalityType
    <3>3. ~(Cardinality(T) <= Cardinality(U)) /\ Cardinality(T) = Cardinality(U) + 1
      BY <3>1, <3>2
    <3>4. U \in SUBSET D
      BY <1>2, <2>2
    <3>5. U \notin Bad
      <4> HIDE DEF Bad
      <4> QED BY <1>2, <3>3
    <3> QED BY <3>2, <3>3, <3>4, <3>5
  <2>4. PICK s : Ordered(s, U)
    BY <2>3
  <2>5. PICK n \in Nat : n = Cardinality(U) /\ Cardinality(T) = n + 1
    BY <2>3
  <2>6. s \in [1 .. n -> U] /\ \A i, j \in 1 .. n : i < j => PageBefore(s[i], s[j])
    BY <2>4, <2>5 DEF Ordered
  <2>7. PICK t : t = [i \in 1 .. n + 1 |-> IF i = 1 THEN x ELSE s[i - 1]]
    OBVIOUS
  <2>8. ASSUME NEW i \in 1 .. n + 1
        PROVE  \/ i = 1 /\ t[i] = x
               \/ i - 1 \in 1 .. n /\ t[i] = s[i - 1] /\ t[i] \in U
    <3>1. CASE i = 1
      BY <2>7, <3>1
    <3>2. CASE i # 1
      <4>1. i - 1 \in 1 .. n
        BY <3>2
      <4> QED BY <2>6, <2>7, <3>2, <4>1
    <3> QED BY <3>1, <3>2
  <2>9. t \in [1 .. n + 1 -> T]
    <3>1. \A i \in 1 .. n + 1 : t[i] \in T
      BY <2>2, <2>8
    <3> QED BY <2>7, <3>1
  <2>10. ASSUME NEW i \in 1 .. n + 1, NEW j \in 1 .. n + 1, i < j PROVE PageBefore(t[i], t[j])
    <3>1. j - 1 \in 1 .. n /\ t[j] = s[j - 1] /\ t[j] \in U
      <4>1. j # 1
        BY <2>10
      <4> QED BY <2>8, <4>1
    <3>2. CASE i = 1 /\ t[i] = x
      BY <2>1, <2>2, <3>1, <3>2
    <3>3. CASE i - 1 \in 1 .. n /\ t[i] = s[i - 1]
      <4>1. i - 1 < j - 1
        BY <2>10
      <4> QED BY <2>6, <3>1, <3>3, <4>1
    <3> QED BY <2>8, <3>2, <3>3
  <2>11. Ordered(t, T)
    <3>1. DOMAIN t = 1 .. n + 1
      BY <2>9
    <3> QED BY <2>5, <2>9, <2>10, <3>1 DEF Ordered
  <2> QED BY <1>3, <2>11
<1> QED BY <1>4, <1>5

(* The order make_delta takes has each page once.                          *)
LEMMA InOrderIs ==
    ASSUME NEW D, IsFiniteSet(D), D \subseteq PageIDs
    PROVE  /\ Cardinality(D) \in Nat
           /\ InOrder(D) \in [1 .. Cardinality(D) -> D]
           /\ \A i, j \in 1 .. Cardinality(D) : i < j => PageBefore(InOrder(D)[i], InOrder(D)[j])
           /\ \A x \in D : \E k \in 1 .. Cardinality(D) : InOrder(D)[k] = x
<1>1. PICK n \in Nat : n = Cardinality(D)
  BY FS_CardinalityType
<1>2. PICK s : s = InOrder(D) /\ Ordered(s, D)
  <2>1. \E t \in [1 .. Cardinality(D) -> D] : \A i, j \in DOMAIN t : i < j => PageBefore(t[i], t[j])
    BY OrderExists DEF Ordered
  <2> QED BY <2>1 DEF Ordered, InOrder
<1>3. s \in [1 .. n -> D] /\ \A i, j \in 1 .. n : i < j => PageBefore(s[i], s[j])
  BY <1>1, <1>2 DEF Ordered
<1>4. ASSUME NEW x \in D PROVE \E k \in 1 .. n : s[k] = x
  <2> SUFFICES ASSUME ~ \E k \in 1 .. n : s[k] = x PROVE FALSE
    OBVIOUS
  <2>1. PICK S, T : S = 1 .. n /\ T = D \ {x}
    OBVIOUS
  <2>2. s \in [S -> T]
    BY <1>3, <2>1
  <2>3. IsFiniteSet(T) /\ Cardinality(T) = n - 1
    BY <1>1, <2>1, FS_RemoveElement
  <2>4. IsFiniteSet(S) /\ Cardinality(S) = n
    <3>1. 1 \in Int /\ n \in Int /\ (IF 1 > n THEN 0 ELSE n - 1 + 1) = n
      OBVIOUS
    <3> QED BY <2>1, <3>1, FS_Interval
  <2>5. Cardinality(T) < Cardinality(S)
    BY <2>3, <2>4
  <2>6. \E i, j \in S : i # j /\ s[i] = s[j]
    BY ONLY <2>2, <2>3, <2>4, <2>5, FS_PigeonHole, SMT
  <2>7. PICK i \in 1 .. n, j \in 1 .. n : i # j /\ s[i] = s[j]
    BY <2>1, <2>6
  <2>8. s[i] \in PageIDs /\ PageBefore(s[i], s[i])
    <3>1. i < j \/ j < i
      BY <2>7
    <3>2. s[i] \in D /\ s[j] = s[i]
      BY <1>3, <2>7
    <3> QED BY <1>3, <3>1, <3>2
  <2> QED BY <2>8, PageOrder
<1> QED BY <1>1, <1>2, <1>3, <1>4

-----------------------------------------------------------------------------
(* make_delta: what the entries say.                                       *)

Runs == [id : PageIDs, data : Seq([Offsets -> Byte])]

(* t[i] is the number of pages in the first i entries.                     *)
Totals(t, d) ==
    /\ t[0] = 0 /\ \A i \in 0 .. Len(d) : t[i] \in Nat
    /\ \A i \in 1 .. Len(d) : t[i] = t[i - 1] + Len(d[i].data)

(* The entry e says z of its page number n.                                *)
Says(e, n, z) == n \in 1 .. Len(e.data) /\ z = <<<<e.id[1], e.id[2] + n - 1>>, e.data[n]>>

(* What the delta says, by its entries.                                    *)
LEMMA SaysIs ==
    ASSUME NEW d, NEW z
    PROVE  z \in DeltaSays(d) <=> \E k \in 1 .. Len(d) : \E n : Says(d[k], n, z)
BY DEF DeltaSays, Says

(* The entries after the first k pages.                                    *)
DeltaInv(ps, ids, k, d) ==
    /\ d \in Seq(Runs)
    /\ \A z : z \in DeltaSays(d) <=> \E j \in 1 .. k : z = <<ids[j], ps[ids[j]]>>
    /\ k > 0 => /\ Len(d) > 0
                /\ ids[k] = <<d[Len(d)].id[1], d[Len(d)].id[2] + Len(d[Len(d)].data) - 1>>
    /\ \E t : Totals(t, d) /\ t[Len(d)] = k

(* A page that follows the last one of the last entry.                     *)
LEMMA GrowKeeps ==
    ASSUME NEW ps, NEW ids, NEW k \in Nat \ {0}, NEW d, DeltaInv(ps, ids, k - 1, d),
           NEW x, x = ids[k], x \in PageIDs, ps[x] \in [Offsets -> Byte],
           k > 1, x[2] # 0, ids[k - 1] = <<x[1], x[2] - 1>>
    PROVE  DeltaInv(ps, ids, k, [d EXCEPT ![Len(d)].data = Append(d[Len(d)].data, ps[x])])
<1>1. PICK m \in Nat : m = Len(d) /\ d \in Seq(Runs) /\ m > 0
  BY DEF DeltaInv
<1>2. PICK e : e = d[m] /\ e \in Runs
  BY <1>1
<1>3. PICK w \in Nat : w = Len(e.data) /\ e.data \in Seq([Offsets -> Byte]) /\ e.id \in PageIDs
  BY <1>2 DEF Runs
<1>4. PICK f : f = [id |-> e.id, data |-> Append(e.data, ps[x])]
  OBVIOUS
<1>5. /\ f \in Runs /\ f.id = e.id /\ Len(f.data) = w + 1 /\ f.data[w + 1] = ps[x]
      /\ \A n \in 1 .. w : f.data[n] = e.data[n]
  <2>1. PICK s : s = Append(e.data, ps[x])
    OBVIOUS
  <2>2. /\ s \in Seq([Offsets -> Byte]) /\ Len(s) = w + 1 /\ s[w + 1] = ps[x]
        /\ \A n \in 1 .. w : s[n] = e.data[n]
    BY <1>3, <2>1
  <2>3. f = [id |-> e.id, data |-> s]
    BY <1>4, <2>1
  <2> QED BY <1>3, <2>2, <2>3 DEF Runs
<1>6. PICK g : g = [d EXCEPT ![Len(d)].data = Append(d[Len(d)].data, ps[x])]
  OBVIOUS
<1>7. g = [i \in 1 .. m |-> IF i = m THEN f ELSE d[i]]
  <2>1. DOMAIN d = 1 .. m /\ d = [i \in 1 .. m |-> d[i]] /\ m \in 1 .. m
    BY <1>1
  <2>2. [e EXCEPT !.data = Append(e.data, ps[x])] = f
    <3>1. PICK i, a, q : i = e.id /\ a = e.data /\ q = Append(e.data, ps[x])
      OBVIOUS
    <3>2. e = [id |-> i, data |-> a]
      BY <1>2, <3>1 DEF Runs
    <3>3. [e EXCEPT !.data = q] = [id |-> i, data |-> q]
      BY ONLY <3>2
    <3> QED BY <1>4, <3>1, <3>3
  <2>3. g = [d EXCEPT ![m] = [e EXCEPT !.data = Append(e.data, ps[x])]]
    BY <1>1, <1>2, <1>6
  <2> QED BY <2>1, <2>2, <2>3
<1>8. g \in Seq(Runs) /\ Len(g) = m /\ g[m] = f /\ \A i \in 1 .. m - 1 : g[i] = d[i]
  <2>1. \A i \in 1 .. m : d[i] \in Runs
    BY <1>1
  <2>2. g \in [1 .. m -> Runs]
    BY <1>5, <1>7, <2>1
  <2>3. m \in 1 .. m /\ \A i \in 1 .. m - 1 : i \in 1 .. m /\ i # m
    BY <1>1
  <2>4. g \in Seq(Runs) /\ Len(g) = m
    BY <1>7, <2>2
  <2> QED BY <1>7, <2>3, <2>4
<1>9. x = <<e.id[1], e.id[2] + w>>
  <2>1. k - 1 > 0
    OBVIOUS
  <2>2. ids[k - 1] = <<e.id[1], e.id[2] + w - 1>>
    BY <1>1, <1>2, <1>3, <2>1 DEF DeltaInv
  <2>3. x[1] = e.id[1] /\ x[2] - 1 = e.id[2] + w - 1
    BY <2>2
  <2>4. x = <<x[1], x[2]>> /\ x[2] \in Nat /\ e.id[2] \in Nat
    BY <1>3, PageIs
  <2>5. x[2] = e.id[2] + w
    BY <2>3, <2>4
  <2> QED BY <2>3, <2>4, <2>5
<1>10. \A n, z : Says(f, n, z) <=> Says(e, n, z) \/ (n = w + 1 /\ z = <<x, ps[x]>>)
  <2> TAKE n, z
  <2>1. CASE n \in 1 .. w
    <3>1. n \in 1 .. w + 1 /\ n # w + 1
      BY <2>1
    <3> QED BY <1>3, <1>5, <2>1, <3>1 DEF Says
  <2>2. CASE n = w + 1
    <3>1. n \in 1 .. w + 1 /\ n \notin 1 .. w
      BY <2>2
    <3>2. e.id[2] \in Nat
      BY <1>3, PageIs
    <3>3. e.id[2] + n - 1 = e.id[2] + w
      BY <2>2, <3>2
    <3> QED BY <1>3, <1>5, <1>9, <2>2, <3>1, <3>3 DEF Says
  <2>3. CASE n \notin 1 .. w + 1
    <3>1. n \notin 1 .. w /\ n # w + 1
      BY <2>3
    <3> QED BY <1>3, <1>5, <2>3, <3>1 DEF Says
  <2>4. n \in 1 .. w + 1 => n \in 1 .. w \/ n = w + 1
    OBVIOUS
  <2> QED BY <2>1, <2>2, <2>3, <2>4
<1>11. ASSUME NEW z PROVE z \in DeltaSays(g) <=> z \in DeltaSays(d) \/ z = <<x, ps[x]>>
  <2>1. \A i \in 1 .. m : i = m \/ i \in 1 .. m - 1
    BY <1>1
  <2>2. m \in 1 .. m /\ \A i \in 1 .. m - 1 : i \in 1 .. m
    BY <1>1
  <2>3. (\E i \in 1 .. m : \E n : Says(g[i], n, z))
        <=> (\E i \in 1 .. m - 1 : \E n : Says(d[i], n, z)) \/ (\E n : Says(f, n, z))
    BY <1>8, <2>1, <2>2
  <2>4. (\E i \in 1 .. m : \E n : Says(d[i], n, z))
        <=> (\E i \in 1 .. m - 1 : \E n : Says(d[i], n, z)) \/ (\E n : Says(e, n, z))
    BY <1>2, <2>1, <2>2
  <2>5. (\E n : Says(f, n, z)) <=> (\E n : Says(e, n, z)) \/ z = <<x, ps[x]>>
    BY <1>10
  <2>6. /\ z \in DeltaSays(g) <=> \E i \in 1 .. m : \E n : Says(g[i], n, z)
        /\ z \in DeltaSays(d) <=> \E i \in 1 .. m : \E n : Says(d[i], n, z)
    BY <1>1, <1>8, SaysIs
  <2> QED BY <2>3, <2>4, <2>5, <2>6
<1>12. \A z : z \in DeltaSays(g) <=> \E j \in 1 .. k : z = <<ids[j], ps[ids[j]]>>
  <2> TAKE z
  <2>1. z \in DeltaSays(d) <=> \E j \in 1 .. k - 1 : z = <<ids[j], ps[ids[j]]>>
    BY DEF DeltaInv
  <2>2. /\ k \in 1 .. k /\ \A j \in 1 .. k - 1 : j \in 1 .. k
        /\ \A j \in 1 .. k : j = k \/ j \in 1 .. k - 1
    OBVIOUS
  <2> QED BY <1>11, <2>1, <2>2
<1>13. ids[k] = <<g[m].id[1], g[m].id[2] + Len(g[m].data) - 1>>
  <2>1. e.id[2] \in Nat
    BY <1>3, PageIs
  <2>2. e.id[2] + (w + 1) - 1 = e.id[2] + w
    BY <2>1
  <2> QED BY <1>5, <1>8, <1>9, <2>2
<1>14. \E t : Totals(t, g) /\ t[Len(g)] = k
  <2>1. PICK t : Totals(t, d) /\ t[m] = k - 1
    BY <1>1 DEF DeltaInv
  <2>2. PICK v : v = [i \in 0 .. m |-> IF i = m THEN k ELSE t[i]]
    OBVIOUS
  <2>3. m \in 0 .. m /\ 0 \in 0 .. m /\ 0 # m /\ m - 1 \in 0 .. m /\ m - 1 # m /\ m \in 1 .. m
    BY <1>1
  <2>4. t[0] = 0 /\ (\A i \in 0 .. m : t[i] \in Nat) /\ \A i \in 1 .. m : t[i] = t[i - 1] + Len(d[i].data)
    BY <1>1, <2>1 DEF Totals
  <2>5. v[0] = 0 /\ v[m] = k /\ \A i \in 0 .. m : v[i] \in Nat
    BY <2>2, <2>3, <2>4
  <2>6. v[m] = v[m - 1] + Len(g[m].data)
    <3>1. v[m - 1] = t[m - 1] /\ t[m - 1] \in Nat
      BY <2>2, <2>3, <2>4
    <3>2. k - 1 = t[m - 1] + w
      BY <1>2, <1>3, <2>1, <2>3, <2>4
    <3>3. Len(g[m].data) = w + 1
      BY <1>5, <1>8
    <3>4. PICK y \in Nat : y = t[m - 1]
      BY <3>1
    <3>5. k = y + (w + 1)
      BY <3>2, <3>4
    <3> QED BY <2>5, <3>1, <3>3, <3>4, <3>5
  <2>7. ASSUME NEW i \in 1 .. m - 1 PROVE v[i] = v[i - 1] + Len(g[i].data)
    <3>1. i \in 0 .. m /\ i # m /\ i - 1 \in 0 .. m /\ i - 1 # m /\ i \in 1 .. m
      BY <1>1
    <3> QED BY <1>8, <2>2, <2>4, <3>1
  <2>8. \A i \in 1 .. m : i = m \/ i \in 1 .. m - 1
    BY <1>1
  <2>9. Totals(v, g)
    BY <1>8, <2>5, <2>6, <2>7, <2>8 DEF Totals
  <2> QED BY <1>8, <2>5, <2>9
<1>15. DeltaInv(ps, ids, k, g)
  BY <1>1, <1>8, <1>12, <1>13, <1>14 DEF DeltaInv
<1> QED BY <1>6, <1>15

(* A page that begins an entry.                                            *)
LEMMA BeginKeeps ==
    ASSUME NEW ps, NEW ids, NEW k \in Nat \ {0}, NEW d, DeltaInv(ps, ids, k - 1, d),
           NEW x, x = ids[k], x \in PageIDs, ps[x] \in [Offsets -> Byte]
    PROVE  DeltaInv(ps, ids, k, Append(d, [id |-> x, data |-> <<ps[x]>>]))
<1>1. PICK m \in Nat : m = Len(d) /\ d \in Seq(Runs)
  BY DEF DeltaInv
<1>2. PICK f : f = [id |-> x, data |-> <<ps[x]>>]
  OBVIOUS
<1>3. f \in Runs /\ f.id = x /\ Len(f.data) = 1 /\ f.data[1] = ps[x]
  BY <1>2 DEF Runs
<1>4. PICK g : g = Append(d, f)
  OBVIOUS
<1>5. g \in Seq(Runs) /\ Len(g) = m + 1 /\ g[m + 1] = f /\ \A i \in 1 .. m : g[i] = d[i]
  BY <1>1, <1>3, <1>4
<1>6. x = <<x[1], x[2]>> /\ x[2] \in Nat /\ x[2] + 1 - 1 = x[2]
  <2>1. x = <<x[1], x[2]>> /\ x[2] \in Nat
    BY PageIs
  <2> QED BY <2>1
<1>7. \A n, z : Says(f, n, z) <=> n = 1 /\ z = <<x, ps[x]>>
  <2> TAKE n, z
  <2>1. n \in 1 .. 1 <=> n = 1
    OBVIOUS
  <2> QED BY <1>3, <1>6, <2>1 DEF Says
<1>8. ASSUME NEW z PROVE z \in DeltaSays(g) <=> z \in DeltaSays(d) \/ z = <<x, ps[x]>>
  <2>1. /\ \A i \in 1 .. m + 1 : i = m + 1 \/ i \in 1 .. m
        /\ m + 1 \in 1 .. m + 1 /\ \A i \in 1 .. m : i \in 1 .. m + 1
    OBVIOUS
  <2>2. (\E i \in 1 .. m + 1 : \E n : Says(g[i], n, z))
        <=> (\E i \in 1 .. m : \E n : Says(d[i], n, z)) \/ (\E n : Says(f, n, z))
    BY <1>5, <2>1
  <2>3. /\ z \in DeltaSays(g) <=> \E i \in 1 .. m + 1 : \E n : Says(g[i], n, z)
        /\ z \in DeltaSays(d) <=> \E i \in 1 .. m : \E n : Says(d[i], n, z)
    BY <1>1, <1>5, SaysIs
  <2> QED BY <1>7, <2>2, <2>3
<1>9. \A z : z \in DeltaSays(g) <=> \E j \in 1 .. k : z = <<ids[j], ps[ids[j]]>>
  <2> TAKE z
  <2>1. z \in DeltaSays(d) <=> \E j \in 1 .. k - 1 : z = <<ids[j], ps[ids[j]]>>
    BY DEF DeltaInv
  <2>2. /\ k \in 1 .. k /\ \A j \in 1 .. k - 1 : j \in 1 .. k
        /\ \A j \in 1 .. k : j = k \/ j \in 1 .. k - 1
    OBVIOUS
  <2> QED BY <1>8, <2>1, <2>2
<1>10. ids[k] = <<g[m + 1].id[1], g[m + 1].id[2] + Len(g[m + 1].data) - 1>>
  BY <1>3, <1>5, <1>6
<1>11. \E t : Totals(t, g) /\ t[Len(g)] = k
  <2>1. PICK t : Totals(t, d) /\ t[m] = k - 1
    BY <1>1 DEF DeltaInv
  <2>2. PICK v : v = [i \in 0 .. m + 1 |-> IF i = m + 1 THEN k ELSE t[i]]
    OBVIOUS
  <2>3. t[0] = 0 /\ (\A i \in 0 .. m : t[i] \in Nat) /\ \A i \in 1 .. m : t[i] = t[i - 1] + Len(d[i].data)
    BY <1>1, <2>1 DEF Totals
  <2>4. /\ m + 1 \in 0 .. m + 1 /\ 0 # m + 1
        /\ \A i \in 0 .. m : i \in 0 .. m + 1 /\ i # m + 1
        /\ \A i \in 0 .. m + 1 : i = m + 1 \/ i \in 0 .. m
        /\ \A i \in 1 .. m + 1 : i = m + 1 \/ i \in 1 .. m
    OBVIOUS
  <2>5. v[m + 1] = k /\ \A i \in 0 .. m : v[i] = t[i]
    BY <2>2, <2>4
  <2>6. v[0] = 0 /\ \A i \in 0 .. m + 1 : v[i] \in Nat
    <3>1. 0 \in 0 .. m
      OBVIOUS
    <3> QED BY <2>3, <2>4, <2>5, <3>1
  <2>7. v[m + 1] = v[m + 1 - 1] + Len(g[m + 1].data)
    <3>1. m + 1 - 1 = m /\ m \in 0 .. m /\ k - 1 + 1 = k
      OBVIOUS
    <3> QED BY <1>3, <1>5, <2>1, <2>5, <3>1
  <2>8. ASSUME NEW i \in 1 .. m PROVE v[i] = v[i - 1] + Len(g[i].data)
    <3>1. i \in 0 .. m /\ i - 1 \in 0 .. m
      OBVIOUS
    <3> QED BY <1>5, <2>3, <2>5, <3>1
  <2>9. Totals(v, g)
    BY <1>5, <2>4, <2>6, <2>7, <2>8 DEF Totals
  <2> QED BY <1>5, <2>5, <2>9
<1>12. m + 1 > 0
  OBVIOUS
<1>13. DeltaInv(ps, ids, k, g)
  BY <1>5, <1>9, <1>10, <1>11, <1>12 DEF DeltaInv
<1> QED BY <1>2, <1>4, <1>13

(* One page more: it either follows the last entry or begins one.          *)
LEMMA AddPageKeeps ==
    ASSUME NEW ps, IsFiniteSet(DOMAIN ps), PagesMap(ps),
           NEW ids, ids = InOrder(DOMAIN ps), NEW k \in 1 .. Cardinality(DOMAIN ps),
           NEW d, DeltaInv(ps, ids, k - 1, d)
    PROVE  DeltaInv(ps, ids, k, AddPage(ps, d, ids[k]))
<1>1. PICK D, n : D = DOMAIN ps /\ n = Cardinality(D)
  OBVIOUS
<1>2. /\ D \subseteq PageIDs /\ IsFiniteSet(D) /\ n \in Nat /\ k \in 1 .. n
      /\ \A id \in D : ps[id] \in [Offsets -> Byte]
  BY <1>1, FS_CardinalityType DEF PagesMap
<1>3. /\ ids \in [1 .. n -> D]
      /\ \A i, j \in 1 .. n : i < j => PageBefore(ids[i], ids[j])
      /\ \A x \in D : \E j \in 1 .. n : ids[j] = x
  BY <1>1, <1>2, InOrderIs
<1>4. PICK x : x = ids[k]
  OBVIOUS
<1>5. x \in D /\ x \in PageIDs /\ ps[x] \in [Offsets -> Byte] /\ k \in Nat \ {0}
  BY <1>2, <1>3, <1>4
<1>6. CASE x[2] # 0 /\ <<x[1], x[2] - 1>> \in D
  <2>1. PICK p : p = <<x[1], x[2] - 1>>
    OBVIOUS
  <2>2. p \in D /\ p \in PageIDs
    BY <1>2, <1>6, <2>1
  <2>3. PICK j \in 1 .. n : ids[j] = p
    BY <1>3, <2>2
  <2>4. PageBefore(p, x) /\ \A y \in PageIDs : ~(PageBefore(p, y) /\ PageBefore(y, x))
    BY <1>5, <1>6, <2>1, NextPage
  <2>5. j < k
    <3> SUFFICES ASSUME ~(j < k) PROVE FALSE
      OBVIOUS
    <3>1. j = k \/ k < j
      BY <1>2
    <3>2. CASE j = k
      BY <1>4, <1>5, <2>3, <2>4, <3>2, PageOrder
    <3>3. CASE k < j
      <4>1. PageBefore(x, p)
        BY <1>2, <1>3, <1>4, <2>3, <3>3
      <4> QED BY <1>5, <2>2, <2>4, <4>1, PageOrder
    <3> QED BY <3>1, <3>2, <3>3
  <2>6. j = k - 1
    <3> SUFFICES ASSUME j # k - 1 PROVE FALSE
      OBVIOUS
    <3>1. k - 1 \in 1 .. n /\ j < k - 1 /\ k - 1 < k
      BY <1>2, <2>5
    <3>2. PageBefore(p, ids[k - 1]) /\ PageBefore(ids[k - 1], x)
      BY <1>2, <1>3, <1>4, <2>3, <3>1
    <3>3. ids[k - 1] \in PageIDs
      BY <1>2, <1>3, <3>1
    <3> QED BY <2>4, <3>2, <3>3
  <2>7. k > 1 /\ ids[k - 1] = <<x[1], x[2] - 1>>
    BY <2>1, <2>3, <2>6
  <2>8. AddPage(ps, d, x) = [d EXCEPT ![Len(d)].data = Append(d[Len(d)].data, ps[x])]
    BY <1>1, <1>6 DEF AddPage
  <2>9. x[2] # 0 /\ k > 1 /\ ids[k - 1] = <<x[1], x[2] - 1>> /\ x = ids[k]
    BY <1>4, <1>6, <2>7
  <2>10. DeltaInv(ps, ids, k, [d EXCEPT ![Len(d)].data = Append(d[Len(d)].data, ps[x])])
    BY <1>5, <2>9, GrowKeeps
  <2> QED BY <1>4, <2>8, <2>10
<1>7. CASE ~(x[2] # 0 /\ <<x[1], x[2] - 1>> \in D)
  <2>1. AddPage(ps, d, x) = Append(d, [id |-> x, data |-> <<ps[x]>>])
    BY <1>1, <1>7 DEF AddPage
  <2> QED BY <1>4, <1>5, <2>1, BeginKeeps
<1> QED BY <1>6, <1>7

(* The whole of make_delta: after the last override the invariant of the   *)
(* delta speaks of all of them.                                            *)
LEMMA DeltaKeeps ==
    ASSUME NEW ps, IsFiniteSet(DOMAIN ps), PagesMap(ps)
    PROVE  DeltaInv(ps, InOrder(DOMAIN ps), Cardinality(DOMAIN ps), make_delta(ps))
<1>1. PICK n, ids : n = Cardinality(DOMAIN ps) /\ ids = InOrder(DOMAIN ps)
  OBVIOUS
<1>2. n \in Nat /\ ids \in [1 .. n -> DOMAIN ps]
  BY <1>1, InOrderIs DEF PagesMap
<1>3. Len(ids) = n /\ DOMAIN ids = 1 .. n
  <2>1. DOMAIN ids = 1 .. n
    BY <1>2
  <2>2. ids \in Seq(DOMAIN ps)
    BY <1>2
  <2> QED BY <1>2, <2>1, <2>2
<1>4. PICK r : Trace(r, "add", ps, <<>>, ids) /\ make_delta(ps) = r[n]
  BY <1>1, <1>2, <1>3, DeltaFold
<1>5. r[0] = <<>> /\ \A k \in 1 .. n : r[k] = AddPage(ps, r[k - 1], ids[k])
  BY <1>3, <1>4 DEF Trace, Step
<1> DEFINE G == {k \in 0 .. n : DeltaInv(ps, ids, k, r[k])}
<1>6. 0 \in G
  <2>1. <<>> \in Seq(Runs) /\ Len(<<>>) = 0 /\ 1 .. 0 = {} /\ 0 \in 0 .. n
    BY <1>2
  <2>2. \A z : z \notin DeltaSays(<<>>)
    BY <2>1, SaysIs
  <2>3. PICK t : t = [i \in {0} |-> 0]
    OBVIOUS
  <2>4. Totals(t, <<>>) /\ t[0] = 0
    <3>1. 0 .. 0 = {0}
      OBVIOUS
    <3> QED BY <2>1, <2>3, <3>1 DEF Totals
  <2>5. DeltaInv(ps, ids, 0, <<>>)
    BY <2>1, <2>2, <2>4 DEF DeltaInv
  <2> QED BY <1>5, <2>1, <2>5
<1>7. ASSUME NEW k \in 1 .. n, k - 1 \in G PROVE k \in G
  <2>1. DeltaInv(ps, ids, k - 1, r[k - 1]) /\ k \in 0 .. n
    BY <1>7
  <2>2. DeltaInv(ps, ids, k, r[k])
    <3> HIDE DEF G
    <3>1. DeltaInv(ps, ids, k, AddPage(ps, r[k - 1], ids[k]))
      BY <1>1, <2>1, AddPageKeeps
    <3> QED BY <1>5, <3>1
  <2> QED BY <2>1, <2>2
<1>8. n \in G
  <2>1. PICK g : g = G
    OBVIOUS
  <2> HIDE DEF G
  <2>2. 0 \in g
    BY <1>6, <2>1
  <2>3. \A k \in 1 .. n : k - 1 \in g => k \in g
    BY <1>7, <2>1
  <2>4. n \in Nat
    BY <1>2
  <2>5. \A k \in 0 .. n : k \in g
    BY ONLY <2>2, <2>3, <2>4, UpTo, ZenonT(30)
  <2>6. n \in 0 .. n
    BY <2>4
  <2> QED BY <2>1, <2>5, <2>6
<1> QED BY <1>1, <1>4, <1>8

(* Counting the pages of the entries gives the last total.                 *)
LEMMA CountIs ==
    ASSUME NEW d \in Seq(Runs), NEW t, Totals(t, d)
    PROVE  DeltaPages(d) = t[Len(d)]
<1>1. PICK n \in Nat : n = Len(d) /\ DOMAIN d = 1 .. n
  OBVIOUS
<1>2. PICK r : Trace(r, "count", <<>>, 0, d) /\ DeltaPages(d) = r[n]
  BY <1>1, CountFold
<1>3. r[0] = 0 /\ \A k \in 1 .. n : r[k] = r[k - 1] + Len(d[k].data)
  BY <1>1, <1>2 DEF Trace, Step
<1>4. t[0] = 0 /\ \A k \in 1 .. n : t[k] = t[k - 1] + Len(d[k].data)
  BY <1>1 DEF Totals
<1> DEFINE G == {k \in 0 .. n : r[k] = t[k]}
<1>5. 0 \in G
  BY <1>3, <1>4
<1>6. \A k \in 1 .. n : k - 1 \in G => k \in G
  <2> TAKE k \in 1 .. n
  <2>1. k \in 0 .. n
    OBVIOUS
  <2> QED BY <1>3, <1>4, <2>1
<1>7. n \in G
  <2>1. PICK g : g = G
    OBVIOUS
  <2> HIDE DEF G
  <2>2. 0 \in g
    BY <1>5, <2>1
  <2>3. \A k \in 1 .. n : k - 1 \in g => k \in g
    BY <1>6, <2>1
  <2>4. \A k \in 0 .. n : k \in g
    BY ONLY <2>2, <2>3, n \in Nat, UpTo, ZenonT(30)
  <2>5. n \in 0 .. n
    BY n \in Nat
  <2> QED BY <2>1, <2>4, <2>5
<1> QED BY <1>1, <1>2, <1>7

-----------------------------------------------------------------------------
(* Theorems.                                                               *)

(* However reads and writes follow each other, and however they fail: the  *)
(* cache holds host pages only, each once and no more than it has room     *)
(* for, and the fee bucket has paid for exactly the pages of the delta.    *)
THEOREM CacheAndFees == Spec => []CacheAndFeesExact
<1>1. IInv => CacheAndFeesExact
  <2> SUFFICES ASSUME IInv PROVE CacheAndFeesExact
    OBVIOUS
  <2>1. Funded(pages, feesLeft) /\ PagesMap(pages) /\ CacheOK(cache)
    BY DEF IInv, Funded
  <2>2. Written \subseteq PageIDs /\ \A id \in Written : pages[id] \in [Offsets -> Byte]
    BY <2>1 DEF PagesMap, Written
  <2>3. Len(cache) <= CacheSize /\ \A k \in 1 .. Len(cache) : cache[k] \in PageIDs \X [Offsets -> Byte]
    BY <2>1 DEF CacheOK, Entries
  <2>4. feesLeft \in 0 .. FeePages /\ OneFeePerPage
    BY <2>1, ConstantsAssumption, FS_CardinalityType DEF Funded, OneFeePerPage, Written
  <2>5. CacheIsHost
    BY <2>1 DEF CacheOK, CacheIsHost
  <2> QED BY <2>2, <2>3, <2>4, <2>5 DEF CacheAndFeesExact, TypeOK
<1> QED BY <1>1, AlwaysIInv, PTL

(* Whatever was written, and whichever writes ran out of fees half way,    *)
(* the overrides over the host's pages are what the storage should hold.   *)
THEOREM OverridesAreContents == Spec => []StorageIsContents
<1>1. IInv => StorageIsContents
  BY DEF IInv
<1> QED BY <1>1, AlwaysIInv, PTL

(* A read of no more pages than the cache and the staging area hold returns *)
(* the last byte written at each place, or else the host's; which is also  *)
(* how long a read may be, for PageStorage_long breaks this with one more. *)
THEOREM ReadsThatFit ==
    Spec => [][\A slot \in Slots, from \in 0 .. SlotBytes - 1 : \A to \in from + 1 .. SlotBytes :
                  /\ LastPage(to) - FirstPage(from) + 1 <= CacheSize + StagingSize
                  /\ ReadRange(slot, from, to)
                  => ReadReturnsContents']_vars
<1> DEFINE Returns == \A slot \in Slots, from \in 0 .. SlotBytes - 1 : \A to \in from + 1 .. SlotBytes :
                  /\ LastPage(to) - FirstPage(from) + 1 <= CacheSize + StagingSize
                  /\ ReadRange(slot, from, to)
                  => ReadReturnsContents'
<1>1. IInv => Returns
  BY ReadReturns DEF Range3, Fits
<1> HIDE DEF Returns
<1>2. Spec => [][Returns]_vars
  BY <1>1, AlwaysIInv, PTL
<1> QED BY <1>2 DEF Returns

(* The delta says of each overridden page, and of no other, the bytes of   *)
(* its override, and says it once, whatever order the writes came in.      *)
THEOREM DeltaIsOverrides == Spec => []DeltaIsPages
<1>1. ASSUME IInv PROVE DeltaIsPages
  <2>1. PICK n, ids, d : n = Cardinality(DOMAIN pages) /\ ids = InOrder(DOMAIN pages) /\ d = make_delta(pages)
    OBVIOUS
  <2>2. PagesMap(pages) /\ IsFiniteSet(DOMAIN pages)
    BY <1>1 DEF IInv, Funded
  <2>3. DeltaInv(pages, ids, n, d)
    BY <2>1, <2>2, DeltaKeeps
  <2>4. ids \in [1 .. n -> DOMAIN pages] /\ \A x \in DOMAIN pages : \E k \in 1 .. n : ids[k] = x
    BY <2>1, <2>2, InOrderIs DEF PagesMap
  <2>5. \A z : z \in DeltaSays(d) <=> z \in {<<id, pages[id]>> : id \in DOMAIN pages}
    BY <2>3, <2>4 DEF DeltaInv
  <2>6. DeltaSays(d) = {<<id, pages[id]>> : id \in DOMAIN pages}
    BY <2>5
  <2>7. PICK t : Totals(t, d) /\ t[Len(d)] = n
    BY <2>3 DEF DeltaInv
  <2>8. d \in Seq(Runs)
    BY <2>3 DEF DeltaInv
  <2>9. DeltaPages(d) = n
    BY <2>7, <2>8, CountIs
  <2> QED BY <2>1, <2>6, <2>9 DEF DeltaIsPages, Written
<1> QED BY <1>1, AlwaysIInv, PTL

=============================================================================
