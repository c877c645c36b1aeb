------------------------- MODULE RunnerScopeProofs -------------------------
(***************************************************************************)
(* Proofs about RunnerScope: for every set of runners, every runner.json,  *)
(* every tree of VMs and every order in which their walks meet in the      *)
(* cache and in the registry.                                              *)
(***************************************************************************)
EXTENDS RunnerScope, SumTheorems

-----------------------------------------------------------------------------
(* Owner and Lineage follow the parents of a VM, which were started before *)
(* it.  g is such a function on 1 .. n: it starts from a at the elements   *)
(* of Top, copies what it is at the parent p at those of Copy, and adds a  *)
(* to it elsewhere.                                                        *)
Along(g, v, p, a, Top, Copy) ==
    IF v \in Top THEN a[v] ELSE IF v \in Copy THEN g[p[v]] ELSE a[v] \cup g[p[v]]

Climbs(g, n, p, a, Top, Copy) == g = [v \in 1 .. n |-> Along(g, v, p, a, Top, Copy)]

Upwards(n, p, Top) == n \in Nat /\ \A v \in (1 .. n) \ Top : p[v] \in 1 .. v - 1

LEMMA ClimbsExist ==
    ASSUME NEW n, NEW p, NEW a, NEW Top, NEW Copy, Upwards(n, p, Top)
    PROVE  \E g : Climbs(g, n, p, a, Top, Copy)
<1> DEFINE Def(g, v) == Along(g, v, p, a, Top, Copy)
           Upto(g, k) == \A v \in 1 .. k : g[v] = Def(g, v)
           Bad == {k \in Nat : k <= n /\ ~ \E g : Upto(g, k)}
<1>1. Bad = {}
  <2> SUFFICES ASSUME Bad # {} PROVE FALSE
    OBVIOUS
  <2>1. PICK k \in Bad : \A m \in Bad : k <= m
    <3>1. Bad \subseteq Nat
      OBVIOUS
    <3> HIDE DEF Bad
    <3> QED BY <3>1, LeastNat
  <2>2. k # 0
    <3>1. \A g : Upto(g, 0)
      OBVIOUS
    <3> QED BY <2>1, <3>1
  <2>3. k - 1 \in Nat /\ k - 1 < k /\ k \in Nat /\ k <= n /\ k - 1 <= n
    BY <2>1, <2>2 DEF Upwards
  <2>4. PICK g : Upto(g, k - 1)
    <3>1. k - 1 \notin Bad
      BY <2>1, <2>3
    <3> QED BY <2>3, <3>1
  <2> DEFINE h == [v \in 1 .. k |-> IF v = k THEN Def(g, v) ELSE g[v]]
  <2>5. ASSUME NEW v \in 1 .. k PROVE h[v] = Def(h, v)
    <3>1. v \notin Top => p[v] \in 1 .. k /\ p[v] # k
      BY <2>3 DEF Upwards
    <3>2. v \notin Top => h[p[v]] = g[p[v]]
      BY <3>1
    <3>3. h[v] = Def(g, v)
      <4>1. CASE v = k
        BY <4>1
      <4>2. CASE v # k
        <5>1. v \in 1 .. k - 1
          BY <2>3, <4>2
        <5>2. g[v] = Def(g, v)
          BY <5>1, <2>4
        <5> HIDE DEF Def
        <5> QED BY <5>2, <4>2
      <4> QED BY <4>1, <4>2
    <3>4. Def(h, v) = Def(g, v)
      <4> HIDE DEF h
      <4> QED BY <3>2 DEF Along
    <3> HIDE DEF Def, h
    <3> QED BY <3>3, <3>4
  <2>6. Upto(h, k)
    <3> HIDE DEF h, Def
    <3> QED BY <2>5
  <2>7. \E f : Upto(f, k)
    <3> HIDE DEF Upto, h
    <3> QED BY <2>6
  <2> QED BY <2>1, <2>7
<1>2. PICK g : Upto(g, n)
  <2>1. n \notin Bad /\ n \in Nat
    BY <1>1 DEF Upwards
  <2> QED BY <2>1
<1> DEFINE h == [v \in 1 .. n |-> g[v]]
<1>3. ASSUME NEW v \in 1 .. n PROVE h[v] = Def(h, v)
  <2>1. v \notin Top => p[v] \in 1 .. n
    BY DEF Upwards
  <2>2. v \notin Top => h[p[v]] = g[p[v]]
    BY <2>1
  <2>3. h[v] = Def(g, v)
    <3> HIDE DEF Def
    <3> QED BY <1>2
  <2>4. Def(h, v) = Def(g, v)
    <3> HIDE DEF h
    <3> QED BY <2>2 DEF Along
  <2> HIDE DEF Def, h
  <2> QED BY <2>3, <2>4
<1>4. h = [v \in 1 .. n |-> h[v]]
  OBVIOUS
<1>5. h = [v \in 1 .. n |-> Def(h, v)]
  <2> HIDE DEF h, Def
  <2> QED BY <1>3, <1>4
<1>6. Climbs(h, n, p, a, Top, Copy)
  <2> HIDE DEF h
  <2> QED BY <1>5 DEF Climbs
<1> QED BY <1>6

(* It is the same on what was there before, when more is added.            *)
LEMMA ClimbsAgree ==
    ASSUME NEW n, NEW p, NEW a, NEW Top, NEW Copy, Upwards(n, p, Top),
           NEW m \in Nat, n <= m, NEW q, NEW b, NEW Tops, NEW Copies,
           \A v \in 1 .. n : /\ q[v] = p[v] /\ b[v] = a[v]
                             /\ v \in Tops <=> v \in Top
                             /\ v \in Copies <=> v \in Copy,
           NEW g, Climbs(g, n, p, a, Top, Copy), NEW h, Climbs(h, m, q, b, Tops, Copies)
    PROVE  \A v \in 1 .. n : h[v] = g[v]
<1> DEFINE Bad == {v \in 1 .. n : h[v] # g[v]}
<1> SUFFICES ASSUME Bad # {} PROVE FALSE
  OBVIOUS
<1>1. n \in Nat
  BY DEF Upwards
<1>2. PICK v \in Bad : \A w \in Bad : v <= w
  <2>1. Bad \subseteq Nat
    BY <1>1
  <2> HIDE DEF Bad
  <2> QED BY <2>1, LeastNat
<1>3. v \in 1 .. n /\ v \in 1 .. m
  BY <1>1, <1>2
<1>4. v \notin Top => p[v] \in 1 .. n /\ p[v] < v
  BY <1>1, <1>3 DEF Upwards
<1>5. v \notin Top => h[p[v]] = g[p[v]]
  <2> SUFFICES ASSUME v \notin Top PROVE h[p[v]] = g[p[v]]
    OBVIOUS
  <2>1. PICK w : w = p[v]
    OBVIOUS
  <2>2. w \in 1 .. n /\ w < v /\ ~ (v <= w)
    BY <1>1, <1>3, <1>4, <2>1
  <2>3. w \notin Bad
    BY <1>2, <2>2
  <2> QED BY <2>1, <2>2, <2>3
<1>6. g[v] = Along(g, v, p, a, Top, Copy)
  BY <1>3 DEF Climbs
<1>7. h[v] = Along(h, v, q, b, Tops, Copies)
  BY <1>3 DEF Climbs
<1>8. h[v] = g[v]
  <2>1. q[v] = p[v] /\ b[v] = a[v] /\ (v \in Tops <=> v \in Top) /\ (v \in Copies <=> v \in Copy)
    BY <1>3
  <2>2. CASE v \in Top
    BY ONLY <2>1, <2>2, <1>6, <1>7 DEF Along
  <2>3. CASE v \notin Top /\ v \in Copy
    BY ONLY <2>1, <2>3, <1>5, <1>6, <1>7 DEF Along
  <2>4. CASE v \notin Top /\ v \notin Copy
    BY ONLY <2>1, <2>4, <1>5, <1>6, <1>7 DEF Along
  <2> QED BY <2>2, <2>3, <2>4
<1> QED BY <1>2, <1>8

Kinds == {"main", "sandbox", "call", "nondet"}
Inherits == {"sandbox", "call"}   \* those that return to their parent

Tree(s) ==
    /\ Len(s) \in Nat /\ DOMAIN s = 1 .. Len(s)
    /\ \A v \in DOMAIN s : /\ s[v].kind \in Kinds
                           /\ s[v].kind \in Inherits => s[v].parent \in 1 .. v - 1

ParentOf(s) == [v \in DOMAIN s |-> s[v].parent]
Borrowers(s) == {v \in DOMAIN s : s[v].kind = "sandbox"}
Starts(s) == {v \in DOMAIN s : s[v].kind \notin Inherits}
Itself(s) == [v \in DOMAIN s |-> v]
SetOf(o, s) == [v \in DOMAIN s |-> {o[v]}]

OwnersIn(g, s) == Climbs(g, Len(s), ParentOf(s), Itself(s), DOMAIN s \ Borrowers(s), Borrowers(s))
LineagesIn(g, o, s) == Climbs(g, Len(s), ParentOf(s), SetOf(o, s), Starts(s), {})

OwnerFunction(s) ==
    CHOOSE g : g = [v \in DOMAIN s |-> IF s[v].kind = "sandbox" THEN g[s[v].parent] ELSE v]
LineageFunction(o, s) ==
    CHOOSE g : g = [v \in DOMAIN s |->
        {o[v]} \cup (IF s[v].kind \in {"main", "nondet"} THEN {} ELSE g[s[v].parent])]

LEMMA OwnersOfTree ==
    ASSUME NEW s, Tree(s)
    PROVE  OwnersIn(OwnerFunction(s), s)
<1> DEFINE Body(g) == [v \in DOMAIN s |-> IF s[v].kind = "sandbox" THEN g[s[v].parent] ELSE v]
           Moves(g) == [v \in 1 .. Len(s) |->
                          Along(g, v, ParentOf(s), Itself(s), DOMAIN s \ Borrowers(s), Borrowers(s))]
<1>1. ASSUME NEW g PROVE Body(g) = Moves(g)
  <2>1. ASSUME NEW v \in DOMAIN s
        PROVE  Along(g, v, ParentOf(s), Itself(s), DOMAIN s \ Borrowers(s), Borrowers(s))
                 = IF s[v].kind = "sandbox" THEN g[s[v].parent] ELSE v
    BY DEF Along, ParentOf, Itself, Borrowers
  <2> QED BY <2>1 DEF Tree
<1>2. Upwards(Len(s), ParentOf(s), DOMAIN s \ Borrowers(s))
  BY DEF Tree, Upwards, ParentOf, Borrowers, Inherits
<1>3. PICK g : g = Moves(g)
  <2>1. PICK g : Climbs(g, Len(s), ParentOf(s), Itself(s), DOMAIN s \ Borrowers(s), Borrowers(s))
    BY <1>2, ClimbsExist
  <2>2. g = Moves(g)
    BY <2>1 DEF Climbs
  <2> QED BY <2>2
<1> HIDE DEF Body, Moves
<1>4. g = Body(g)
  BY <1>1, <1>3
<1>5. \E h : h = Body(h)
  BY <1>4
<1>6. PICK f : f = CHOOSE h : h = Body(h)
  OBVIOUS
<1>7. f = Body(f)
  BY <1>5, <1>6
<1>8. f = Moves(f)
  BY <1>1, <1>7
<1>9. OwnersIn(f, s)
  BY <1>8 DEF Moves, OwnersIn, Climbs
<1>10. f = OwnerFunction(s)
  BY <1>6 DEF Body, OwnerFunction
<1> QED BY <1>9, <1>10

LEMMA LineagesOfTree ==
    ASSUME NEW s, Tree(s), NEW o
    PROVE  LineagesIn(LineageFunction(o, s), o, s)
<1> DEFINE Body(g) == [v \in DOMAIN s |->
                         {o[v]} \cup (IF s[v].kind \in {"main", "nondet"} THEN {} ELSE g[s[v].parent])]
           Moves(g) == [v \in 1 .. Len(s) |-> Along(g, v, ParentOf(s), SetOf(o, s), Starts(s), {})]
<1>1. ASSUME NEW g PROVE Body(g) = Moves(g)
  <2>1. ASSUME NEW v \in DOMAIN s
        PROVE  Along(g, v, ParentOf(s), SetOf(o, s), Starts(s), {})
                 = {o[v]} \cup (IF s[v].kind \in {"main", "nondet"} THEN {} ELSE g[s[v].parent])
    <3>1. s[v].kind \in {"main", "nondet"} <=> v \in Starts(s)
      BY DEF Tree, Starts, Inherits, Kinds
    <3>2. ParentOf(s)[v] = s[v].parent /\ SetOf(o, s)[v] = {o[v]}
      BY DEF ParentOf, SetOf
    <3>3. {o[v]} \cup {} = {o[v]}
      OBVIOUS
    <3> QED BY ONLY <3>1, <3>2, <3>3 DEF Along
  <2> QED BY <2>1 DEF Tree
<1>2. Upwards(Len(s), ParentOf(s), Starts(s))
  BY DEF Tree, Upwards, ParentOf, Starts
<1>3. PICK g : g = Moves(g)
  <2>1. PICK g : Climbs(g, Len(s), ParentOf(s), SetOf(o, s), Starts(s), {})
    BY <1>2, ClimbsExist
  <2>2. g = Moves(g)
    BY <2>1 DEF Climbs
  <2> QED BY <2>2
<1> HIDE DEF Body, Moves
<1>4. g = Body(g)
  BY <1>1, <1>3
<1>5. \E h : h = Body(h)
  BY <1>4
<1>6. PICK f : f = CHOOSE h : h = Body(h)
  OBVIOUS
<1>7. f = Body(f)
  BY <1>5, <1>6
<1>8. f = Moves(f)
  BY <1>1, <1>7
<1>9. LineagesIn(f, o, s)
  BY <1>8 DEF Moves, LineagesIn, Climbs
<1>10. f = LineageFunction(o, s)
  BY <1>6 DEF Body, LineageFunction
<1> QED BY <1>9, <1>10

LEMMA OwnersAre ==
    /\ Tree(vms) => OwnersIn(Owner, vms) /\ LineagesIn(Lineage, Owner, vms)
    /\ Tree(vms') => OwnersIn(Owner', vms') /\ LineagesIn(Lineage', Owner', vms')
<1>1. Owner = OwnerFunction(vms) /\ Owner' = OwnerFunction(vms')
  BY DEF Owner, OwnerFunction
<1>2. Lineage = LineageFunction(Owner, vms) /\ Lineage' = LineageFunction(Owner', vms')
  BY DEF Lineage, LineageFunction
<1> QED BY <1>1, <1>2, OwnersOfTree, LineagesOfTree

(* What a tree says of owners and lineages.                                *)
LEMMA LineageFacts ==
    ASSUME NEW s, Tree(s), NEW o, OwnersIn(o, s), NEW l, LineagesIn(l, o, s), NEW v \in DOMAIN s
    PROVE  /\ o[v] \in l[v]
           /\ s[v].kind = "sandbox" => o[v] = o[s[v].parent]
           /\ s[v].kind \in Inherits => /\ l[s[v].parent] \subseteq l[v]
                                        /\ l[v] = {o[v]} \cup l[s[v].parent]
<1>1. v \in 1 .. Len(s)
  BY DEF Tree
<1>2. o[v] = Along(o, v, ParentOf(s), Itself(s), DOMAIN s \ Borrowers(s), Borrowers(s))
  BY <1>1 DEF OwnersIn, Climbs
<1>3. l[v] = Along(l, v, ParentOf(s), SetOf(o, s), Starts(s), {})
  BY <1>1 DEF LineagesIn, Climbs
<1>4. ParentOf(s)[v] = s[v].parent /\ SetOf(o, s)[v] = {o[v]}
  BY DEF ParentOf, SetOf
<1>5. s[v].kind = "sandbox" => o[v] = o[s[v].parent]
  BY <1>2, <1>4 DEF Along, Borrowers
<1>6. s[v].kind \in Inherits => l[v] = {o[v]} \cup l[s[v].parent]
  BY <1>3, <1>4 DEF Along, Starts
<1>7. s[v].kind \notin Inherits => l[v] = {o[v]}
  BY <1>3, <1>4 DEF Along, Starts
<1> QED BY <1>5, <1>6, <1>7

(* They stay what they are when VMs are added.                             *)
Extends(t, s) ==
    /\ Len(s) <= Len(t)
    /\ \A v \in DOMAIN s : t[v].kind = s[v].kind /\ t[v].parent = s[v].parent

LEMMA LineagesStay ==
    ASSUME NEW s, Tree(s), NEW t, Tree(t), Extends(t, s),
           NEW o, OwnersIn(o, s), NEW l, LineagesIn(l, o, s),
           NEW q, OwnersIn(q, t), NEW m, LineagesIn(m, q, t)
    PROVE  \A v \in DOMAIN s : q[v] = o[v] /\ m[v] = l[v]
<1>1. /\ Len(s) \in Nat /\ Len(t) \in Nat /\ Len(s) <= Len(t)
      /\ DOMAIN s = 1 .. Len(s) /\ DOMAIN t = 1 .. Len(t)
      /\ \A v \in 1 .. Len(s) : /\ v \in DOMAIN s /\ v \in DOMAIN t
                                /\ t[v].kind = s[v].kind /\ t[v].parent = s[v].parent
  BY DEF Tree, Extends
<1>2. \A v \in 1 .. Len(s) : ParentOf(t)[v] = ParentOf(s)[v] /\ Itself(t)[v] = Itself(s)[v]
  BY <1>1 DEF ParentOf, Itself
<1>3. \A v \in 1 .. Len(s) : /\ v \in Borrowers(t) <=> v \in Borrowers(s)
                             /\ v \in DOMAIN t \ Borrowers(t) <=> v \in DOMAIN s \ Borrowers(s)
                             /\ v \in Starts(t) <=> v \in Starts(s)
  BY <1>1 DEF Borrowers, Starts
<1>4. Upwards(Len(s), ParentOf(s), DOMAIN s \ Borrowers(s)) /\ Upwards(Len(s), ParentOf(s), Starts(s))
  BY DEF Tree, Upwards, ParentOf, Borrowers, Starts, Inherits
<1>5. \A v \in 1 .. Len(s) : q[v] = o[v]
  <2> DEFINE n == Len(s)
             k == Len(t)
             p == ParentOf(s)
             r == ParentOf(t)
             a == Itself(s)
             b == Itself(t)
             Top == DOMAIN s \ Borrowers(s)
             Tops == DOMAIN t \ Borrowers(t)
             Copy == Borrowers(s)
             Copies == Borrowers(t)
  <2>1. /\ Upwards(n, p, Top) /\ k \in Nat /\ n <= k
        /\ Climbs(o, n, p, a, Top, Copy) /\ Climbs(q, k, r, b, Tops, Copies)
    BY <1>1, <1>4 DEF OwnersIn
  <2>2. \A v \in 1 .. n : r[v] = p[v] /\ b[v] = a[v] /\ (v \in Tops <=> v \in Top) /\ (v \in Copies <=> v \in Copy)
    BY <1>2, <1>3
  <2> HIDE DEF n, k, p, r, a, b, Top, Tops, Copy, Copies
  <2>3. \A v \in 1 .. n : q[v] = o[v]
    BY ONLY <2>1, <2>2, ClimbsAgree
  <2> QED BY <2>3 DEF n
<1>6. \A v \in 1 .. Len(s) : SetOf(q, t)[v] = SetOf(o, s)[v]
  BY <1>1, <1>5 DEF SetOf
<1>7. \A v \in 1 .. Len(s) : m[v] = l[v]
  <2> DEFINE n == Len(s)
             k == Len(t)
             p == ParentOf(s)
             r == ParentOf(t)
             a == SetOf(o, s)
             b == SetOf(q, t)
             Top == Starts(s)
             Tops == Starts(t)
             Copy == {}
  <2>1. /\ Upwards(n, p, Top) /\ k \in Nat /\ n <= k
        /\ Climbs(l, n, p, a, Top, Copy) /\ Climbs(m, k, r, b, Tops, Copy)
    BY <1>1, <1>4 DEF LineagesIn
  <2>2. \A v \in 1 .. n : r[v] = p[v] /\ b[v] = a[v] /\ (v \in Tops <=> v \in Top) /\ (v \in Copy <=> v \in Copy)
    BY <1>2, <1>3, <1>6
  <2> HIDE DEF n, k, p, r, a, b, Top, Tops, Copy
  <2>3. \A v \in 1 .. n : m[v] = l[v]
    BY ONLY <2>1, <2>2, ClimbsAgree
  <2> QED BY <2>3 DEF n
<1> QED BY <1>1, <1>5, <1>7

-----------------------------------------------------------------------------
(* What a VM has paid for.                                                 *)

Sizes(given) == [i \in DOMAIN given |-> Size[given[i]]]
Paid(vm) == vm.own = vm.extra + SumFunction(Sizes(vm.given))

LEMMA SizesAdd ==
    ASSUME NEW given \in Seq(Ids), NEW id \in Ids
    PROVE  /\ SumFunction(Sizes(Append(given, id))) = SumFunction(Sizes(given)) + Size[id]
           /\ SumFunction(Sizes(given)) \in Int /\ Size[id] \in Nat
<1>1. \A i \in Ids : Size[i] \in Nat
  BY RunnersAssumption
<1>2. Sizes(given) \in Seq(Int) /\ Len(Sizes(given)) = Len(given)
  BY <1>1 DEF Sizes
<1>3. Size[id] \in Int /\ Size[id] \in Nat
  BY <1>1
<1>4. Sizes(Append(given, id)) = Append(Sizes(given), Size[id])
  <2> DEFINE f == Sizes(Append(given, id))
             g == Append(Sizes(given), Size[id])
             n == Len(given)
  <2>1. n \in Nat /\ DOMAIN f = 1 .. n + 1 /\ DOMAIN g = 1 .. n + 1
    BY <1>2 DEF Sizes
  <2>2. \A i \in 1 .. n + 1 : f[i] = g[i]
    <3> TAKE i \in 1 .. n + 1
    <3>1. CASE i = n + 1
      BY <2>1, <3>1, <1>2, <1>3 DEF Sizes
    <3>2. CASE i # n + 1
      <4>1. i \in 1 .. n
        BY <2>1, <3>2
      <4> QED BY <4>1, <2>1, <1>2, <1>3 DEF Sizes
    <3> QED BY <3>1, <3>2
  <2>3. f = [i \in 1 .. n + 1 |-> f[i]] /\ g = [i \in 1 .. n + 1 |-> g[i]]
    <3>1. f = [i \in DOMAIN f |-> f[i]]
      BY DEF Sizes
    <3>2. g \in Seq(Int)
      BY <1>2, <1>3
    <3>3. g = [i \in DOMAIN g |-> g[i]]
      BY <3>2
    <3> QED BY <2>1, <3>1, <3>3
  <2> HIDE DEF f, g, n
  <2>4. f = g
    BY ONLY <2>2, <2>3
  <2> QED BY <2>4 DEF f, g
<1>5. SumFunction(Append(Sizes(given), Size[id])) = SumFunction(Sizes(given)) + Size[id]
      /\ SumFunction(Sizes(given)) \in Int
  BY <1>2, <1>3, SumAppend
<1> QED BY <1>3, <1>4, <1>5

LEMMA SizesEmpty == SumFunction(Sizes(<<>>)) = 0
<1>1. DOMAIN Sizes(<<>>) = {}
  BY DEF Sizes
<1> QED BY <1>1, SumEmpty DEF SumFunction

-----------------------------------------------------------------------------
(* The VMs and what is shared.                                             *)

Places == {"fetch", "walk", "mapping", "placing", "running", "waiting", "ended", "gone"}

VmRecords ==
    [kind : Kinds, parent : Nat, det : BOOLEAN, root : Ids, scope : SUBSET Customs, register : BOOLEAN,
     want : Ids, then : Seq(InitActions), todo : Seq(InitActions), visited : SUBSET Ids,
     own : Nat, given : Seq(Ids), extra : Nat, failed : BOOLEAN, at : Places]

Sane(vm) == vm \in VmRecords /\ Paid(vm)

Vms(s) ==
    /\ s \in Seq(VmRecords) /\ Len(s) \in 1 .. MaxVms
    /\ \A v \in DOMAIN s : /\ s[v].parent \in 0 .. v - 1
                           /\ s[v].kind \in Inherits => s[v].parent # 0
                           /\ Paid(s[v])

Shared ==
    /\ registry \subseteq Customs /\ by \in [Customs -> SUBSET DOMAIN vms]
    /\ cell \in [Ids -> DOMAIN vms \cup {None, Ready}]
    /\ mem \in [BOOLEAN -> Nat]

(* Neither loses anything when a VM is gone, so both hold of every VM.     *)
Registered == \A v \in DOMAIN vms : vms[v].scope \subseteq registry
Earned ==
    \A v \in DOMAIN vms : \A id \in vms[v].scope : \E w \in by[id] : Owner[w] \in Lineage[v]

Inv == Vms(vms) /\ Shared /\ Registered /\ Earned

LEMMA VmsTree == ASSUME NEW s, Vms(s) PROVE Tree(s)
<1>1. Len(s) \in Nat /\ DOMAIN s = 1 .. Len(s) /\ \A v \in DOMAIN s : s[v] \in VmRecords
  BY DEF Vms
<1>2. \A v \in DOMAIN s : s[v].kind \in Kinds /\ s[v].parent \in 0 .. v - 1
  BY <1>1 DEF Vms, VmRecords
<1>3. \A v \in DOMAIN s : s[v].kind \in Inherits => s[v].parent \in 1 .. v - 1
  BY <1>1, <1>2 DEF Vms
<1> QED BY <1>1, <1>2, <1>3 DEF Tree

LEMMA InvMeans == Inv => ScopesSound /\ PaysForItsArchives
<1> SUFFICES ASSUME Inv PROVE ScopesSound /\ PaysForItsArchives
  OBVIOUS
<1>1. Vms(vms) /\ Shared /\ Registered /\ Earned
  BY DEF Inv
<1>2. \A v \in DOMAIN vms : vms[v] \in VmRecords
  BY <1>1 DEF Vms
<1>3. TypeOK
  BY <1>1, <1>2 DEF TypeOK, Vms, Shared, VmRecords, Places
<1>4. PaysForItsArchives
  BY <1>1 DEF Vms, Paid, Sizes, PaysForItsArchives
<1>5. ScopeIsRegistered /\ ScopeIsEarned
  BY <1>1 DEF Registered, Earned, ScopeIsRegistered, ScopeIsEarned
<1> QED BY <1>3, <1>4, <1>5 DEF ScopesSound

-----------------------------------------------------------------------------
(* Steps that change one VM.                                               *)

SameVm(vm, old) == vm.kind = old.kind /\ vm.parent = old.parent /\ vm.scope = old.scope

LEMMA SetKeeps ==
    ASSUME Vms(vms), NEW v \in DOMAIN vms, NEW vm, Sane(vm),
           vm.kind = vms[v].kind, vm.parent = vms[v].parent, Set(v, vm)
    PROVE  /\ Vms(vms') /\ Extends(vms', vms) /\ DOMAIN vms' = DOMAIN vms
           /\ vms'[v] = vm /\ \A u \in DOMAIN vms \ {v} : vms'[u] = vms[u]
<1>1. /\ vms \in Seq(VmRecords) /\ vm \in VmRecords
      /\ vms' = [vms EXCEPT ![v] = vm]
  BY DEF Vms, Sane, Set
<1>2. /\ vms' \in Seq(VmRecords) /\ Len(vms') = Len(vms) /\ DOMAIN vms' = DOMAIN vms
      /\ vms'[v] = vm /\ \A u \in DOMAIN vms \ {v} : vms'[u] = vms[u]
      /\ Len(vms) \in Nat
  BY <1>1
<1>3. \A u \in DOMAIN vms : vms'[u].kind = vms[u].kind /\ vms'[u].parent = vms[u].parent
  BY <1>2
<1>4. \A u \in DOMAIN vms : Paid(vms'[u])
  BY <1>2 DEF Vms, Sane
<1>5. Vms(vms')
  BY <1>2, <1>3, <1>4 DEF Vms
<1> QED BY <1>2, <1>3, <1>5 DEF Extends

(* A VM names a runner because some VM that it inherits from did, or       *)
(* because it registers it itself.                                         *)
Passed(v, id) ==
    \/ \E u \in DOMAIN vms : id \in vms[u].scope /\ Lineage'[u] \subseteq Lineage'[v]
    \/ id \in registry' /\ \E w \in by'[id] : Owner'[w] \in Lineage'[v]

LEMMA ScopesKeep ==
    ASSUME Inv, Vms(vms'), Extends(vms', vms), registry \subseteq registry',
           \A id \in Customs : by[id] \subseteq by'[id],
           \A v \in DOMAIN vms' : \A id \in vms'[v].scope : Passed(v, id)
    PROVE  Registered' /\ Earned'
<1>1. Tree(vms) /\ Tree(vms')
  BY VmsTree DEF Inv
<1>2. \A v \in DOMAIN vms : Owner'[v] = Owner[v] /\ Lineage'[v] = Lineage[v]
  BY <1>1, OwnersAre, LineagesStay
<1>3. ASSUME NEW v \in DOMAIN vms', NEW id \in vms'[v].scope
      PROVE  id \in registry' /\ \E w \in by'[id] : Owner'[w] \in Lineage'[v]
  <2>1. CASE id \in registry' /\ \E w \in by'[id] : Owner'[w] \in Lineage'[v]
    BY <2>1
  <2>2. CASE \E u \in DOMAIN vms : id \in vms[u].scope /\ Lineage'[u] \subseteq Lineage'[v]
    <3>1. PICK u \in DOMAIN vms : id \in vms[u].scope /\ Lineage'[u] \subseteq Lineage'[v]
      BY <2>2
    <3>2. id \in registry
      BY <3>1 DEF Inv, Registered
    <3>3. PICK w \in by[id] : Owner[w] \in Lineage[u]
      BY <3>1 DEF Inv, Earned
    <3>4. id \in Customs
      BY <3>2 DEF Inv, Shared
    <3>5. w \in DOMAIN vms /\ w \in by'[id]
      BY <3>3, <3>4 DEF Inv, Shared
    <3>6. Owner'[w] \in Lineage'[v]
      BY <1>2, <3>1, <3>3, <3>5
    <3> QED BY <3>2, <3>5, <3>6
  <2> QED BY <1>3, <2>1, <2>2 DEF Passed
<1> QED BY <1>3 DEF Registered, Earned

(* What a VM does by itself: the scopes stay.                              *)
Alone(v) ==
    /\ \E vm : Sane(vm) /\ SameVm(vm, vms[v]) /\ Set(v, vm)
    /\ UNCHANGED <<registry, by>>
    /\ mem' \in [BOOLEAN -> Nat] /\ cell' \in [Ids -> DOMAIN vms \cup {None, Ready}]

LEMMA AloneKeeps ==
    ASSUME Inv, NEW v \in DOMAIN vms, Alone(v)
    PROVE  Inv'
<1>1. PICK vm : Sane(vm) /\ SameVm(vm, vms[v]) /\ Set(v, vm)
  BY DEF Alone
<1>2. /\ Vms(vms') /\ Extends(vms', vms) /\ DOMAIN vms' = DOMAIN vms
      /\ vms'[v] = vm /\ \A u \in DOMAIN vms \ {v} : vms'[u] = vms[u]
  BY <1>1, SetKeeps DEF Inv, SameVm
<1>3. \A u \in DOMAIN vms' : vms'[u].scope = vms[u].scope
  BY <1>1, <1>2 DEF SameVm
<1>4. \A u \in DOMAIN vms' : \A id \in vms'[u].scope : Passed(u, id)
  BY <1>2, <1>3 DEF Passed
<1>5. registry' = registry /\ by' = by
  BY DEF Alone
<1>6. Registered' /\ Earned'
  BY <1>2, <1>4, <1>5, ScopesKeep
<1>7. Shared'
  BY <1>2, <1>5 DEF Inv, Shared, Alone
<1> QED BY <1>2, <1>6, <1>7 DEF Inv

(* A VM whose at, failed, todo, visited, want and then change.             *)
Moved(vm, old) ==
    vm \in VmRecords /\ SameVm(vm, old) /\ vm.own = old.own /\ vm.given = old.given /\ vm.extra = old.extra

LEMMA Moves ==
    ASSUME NEW old, Sane(old), NEW vm, Moved(vm, old)
    PROVE  Sane(vm) /\ SameVm(vm, old)
BY DEF Moved, Sane, Paid

LEMMA Fields ==
    ASSUME NEW vm \in VmRecords
    PROVE  /\ vm.kind \in Kinds /\ vm.parent \in Nat /\ vm.det \in BOOLEAN /\ vm.root \in Ids
           /\ vm.scope \subseteq Customs /\ vm.register \in BOOLEAN /\ vm.want \in Ids
           /\ vm.then \in Seq(InitActions) /\ vm.todo \in Seq(InitActions) /\ vm.visited \subseteq Ids
           /\ vm.own \in Nat /\ vm.given \in Seq(Ids) /\ vm.extra \in Nat /\ vm.at \in Places
BY DEF VmRecords

LEMMA VmIsSane ==
    ASSUME Inv, NEW v \in DOMAIN vms
    PROVE  Sane(vms[v]) /\ vms[v] \in VmRecords
BY DEF Inv, Vms, Sane

LEMMA Fails ==
    ASSUME Inv, NEW v \in DOMAIN vms
    PROVE  Sane(Fail(v)) /\ SameVm(Fail(v), vms[v])
<1>1. Sane(vms[v]) /\ vms[v] \in VmRecords
  BY VmIsSane
<1> DEFINE vm == Fail(v)
<1>2. Moved(vm, vms[v])
  BY <1>1 DEF Fail, VmRecords, Places, SameVm, Moved
<1> HIDE DEF vm
<1>3. Sane(vm) /\ SameVm(vm, vms[v])
  BY <1>1, <1>2, Moves
<1> QED BY <1>3 DEF vm

(* Its limiter is charged n for something other than an archive.           *)
LEMMA Pays ==
    ASSUME NEW old, Sane(old), NEW n \in Nat, NEW vm \in VmRecords,
           SameVm(vm, old), vm.own = old.own + n, vm.given = old.given, vm.extra = old.extra + n
    PROVE  Sane(vm) /\ SameVm(vm, old)
<1>1. old.own \in Nat /\ old.extra \in Nat /\ vm.own \in Nat /\ vm.extra \in Nat
  BY DEF Sane, VmRecords
<1>2. PICK m : m = SumFunction(Sizes(old.given))
  OBVIOUS
<1>3. old.own = old.extra + m
  BY <1>2 DEF Sane, Paid
<1>4. m \in Int
  <2>1. old.given \in Seq(Ids)
    BY DEF Sane, VmRecords
  <2>2. \A i \in Ids : Size[i] \in Int
    BY RunnersAssumption
  <2>3. IsFiniteSet(DOMAIN Sizes(old.given)) /\ \A i \in DOMAIN Sizes(old.given) : Sizes(old.given)[i] \in Int
    <3>1. DOMAIN Sizes(old.given) = 1 .. Len(old.given) /\ Len(old.given) \in Nat
      BY <2>1 DEF Sizes
    <3>2. IsFiniteSet(1 .. Len(old.given))
      BY <3>1, FS_Interval
    <3>3. \A i \in 1 .. Len(old.given) : Sizes(old.given)[i] \in Int
      BY <2>1, <2>2, <3>1 DEF Sizes
    <3> QED BY <3>1, <3>2, <3>3
  <2> QED BY <1>2, <2>3, SumType DEF SumFunction
<1>5. vm.own = vm.extra + m
  BY <1>1, <1>3, <1>4
<1> QED BY <1>2, <1>5 DEF Sane, Paid

LEMMA Charged ==
    ASSUME NEW old \in VmRecords, NEW n \in Nat,
           NEW vm, vm = [old EXCEPT !.own = @ + n, !.extra = @ + n]
    PROVE  /\ vm \in VmRecords /\ SameVm(vm, old)
           /\ vm.own = old.own + n /\ vm.given = old.given /\ vm.extra = old.extra + n
<1>1. PICK own, extra : own = old.own + n /\ extra = old.extra + n
  OBVIOUS
<1>2. own \in Nat /\ extra \in Nat
  <2>1. old.own \in Nat /\ old.extra \in Nat
    BY Fields
  <2> QED BY <1>1, <2>1
<1>3. vm = [old EXCEPT !.own = own, !.extra = extra]
  BY <1>1
<1>4. /\ vm \in VmRecords /\ SameVm(vm, old)
      /\ vm.own = own /\ vm.given = old.given /\ vm.extra = extra
  BY <1>2, <1>3 DEF VmRecords, SameVm
<1> QED BY <1>1, <1>4

LEMMA CostsNat == /\ CodeSize \in Nat /\ FileMapping \in Nat /\ \A id \in Ids : Size[id] \in Nat
                  /\ \A id \in Ids : ReadCost(id) \in Nat
BY RunnersAssumption DEF ReadCost

(* Memory that is there is taken.                                          *)
LEMMA Takes ==
    ASSUME Inv, NEW v \in DOMAIN vms, NEW n \in Nat, Fits(v, n), Take(v, n)
    PROVE  mem' \in [BOOLEAN -> Nat]
<1>1. mem \in [BOOLEAN -> Nat] /\ vms[v].det \in BOOLEAN
  BY VmIsSane, Fields DEF Inv, Shared
<1> QED BY <1>1 DEF Fits, Take

LEMMA FetchSteps ==
    ASSUME Inv, NEW v \in DOMAIN vms, FetchCached(v) \/ FetchBegin(v) \/ FetchCreate(v) \/ FetchFails(v)
    PROVE  Alone(v)
<1> DEFINE id == vms[v].want
<1>0. /\ Sane(vms[v]) /\ vms[v] \in VmRecords /\ id \in Ids
      /\ Size[id] \in Nat /\ ReadCost(id) \in Nat
  BY VmIsSane, Fields, CostsNat
<1>1. Sane(Fail(v)) /\ SameVm(Fail(v), vms[v])
  BY Fails
<1>2. mem \in [BOOLEAN -> Nat] /\ cell \in [Ids -> DOMAIN vms \cup {None, Ready}]
  BY DEF Inv, Shared
<1>3. ASSUME NEW extra \in Nat, vms[v].at \in {"fetch", "mapping"}
      PROVE  Sane(Given(vms[v], id, extra)) /\ SameVm(Given(vms[v], id, extra), vms[v])
  <2> DEFINE vm == Given(vms[v], id, extra)
             old == vms[v]
  <2>1. CASE old.at # "fetch"
    <3>1. vm = [old EXCEPT !.at = "placing"]
      BY <2>1 DEF Given
    <3>2. Moved(vm, old)
      BY <1>0, <3>1 DEF VmRecords, Places, SameVm, Moved
    <3> QED BY <1>0, <3>2, Moves
  <2>2. CASE old.at = "fetch"
    <3>1. vm = [old EXCEPT !.at = "walk", !.todo = old.then \o @, !.then = <<>>,
                           !.given = Append(@, id), !.own = @ + Size[id] + extra, !.extra = @ + extra]
      BY <2>2 DEF Given
    <3>2. /\ old.then \o old.todo \in Seq(InitActions) /\ <<>> \in Seq(InitActions)
          /\ Append(old.given, id) \in Seq(Ids)
          /\ old.own + Size[id] + extra \in Nat /\ old.extra + extra \in Nat
      <4>1. old.then \in Seq(InitActions) /\ old.todo \in Seq(InitActions) /\ old.given \in Seq(Ids)
            /\ old.own \in Nat /\ old.extra \in Nat
        BY <1>0, Fields
      <4>2. old.then \o old.todo \in Seq(InitActions) /\ Append(old.given, id) \in Seq(Ids)
        BY <1>0, <4>1
      <4>3. old.own + Size[id] + extra \in Nat /\ old.extra + extra \in Nat
        <5>1. PICK o \in Nat, s \in Nat, e \in Nat : o = old.own /\ s = Size[id] /\ e = old.extra
          BY <1>0, <4>1
        <5>2. o + s + extra \in Nat /\ e + extra \in Nat
          BY ONLY <5>1, extra \in Nat
        <5> QED BY <5>1, <5>2
      <4> QED BY <4>2, <4>3
    <3>3. vm \in VmRecords /\ SameVm(vm, old)
      <4>1. vm = [kind |-> old.kind, parent |-> old.parent, det |-> old.det, root |-> old.root,
               scope |-> old.scope, register |-> old.register, want |-> old.want, then |-> <<>>,
               todo |-> old.then \o old.todo, visited |-> old.visited,
               own |-> old.own + Size[id] + extra, given |-> Append(old.given, id),
               extra |-> old.extra + extra, failed |-> old.failed, at |-> "walk"]
        BY <1>0, <3>1 DEF VmRecords
      <4>2. /\ old.kind \in Kinds /\ old.parent \in Nat /\ old.det \in BOOLEAN /\ old.root \in Ids
            /\ old.scope \subseteq Customs /\ old.register \in BOOLEAN /\ old.want \in Ids
            /\ old.visited \subseteq Ids /\ old.failed \in BOOLEAN /\ "walk" \in Places
        BY <1>0 DEF VmRecords, Places
      <4> HIDE DEF vm, old
      <4>3. vm \in VmRecords
        BY ONLY <3>2, <4>1, <4>2 DEF VmRecords
      <4> QED BY <4>1, <4>3 DEF SameVm
    <3>4. vm.own = old.own + Size[id] + extra /\ vm.given = Append(old.given, id) /\ vm.extra = old.extra + extra
      BY <1>0, <3>1 DEF VmRecords
    <3>5. Paid(vm)
      <4>1. old.given \in Seq(Ids) /\ old.own \in Nat /\ old.extra \in Nat
        BY <1>0, Fields
      <4>2. PICK m : m = SumFunction(Sizes(old.given))
        OBVIOUS
      <4>3. SumFunction(Sizes(vm.given)) = m + Size[id] /\ m \in Int
        BY <1>0, <3>4, <4>1, <4>2, SizesAdd
      <4>4. old.own = old.extra + m
        BY <1>0, <4>2 DEF Sane, Paid
      <4>5. vm.own = vm.extra + (m + Size[id])
        BY <1>0, <3>4, <4>1, <4>3, <4>4
      <4> QED BY <4>3, <4>5 DEF Paid
    <3> QED BY <3>3, <3>5 DEF Sane
  <2> QED BY <2>1, <2>2
<1>4. CASE FetchCached(v)
  <2>1. CASE Fits(v, Size[id]) /\ Take(v, Size[id]) /\ Set(v, Given(vms[v], id, 0))
    BY <1>0, <1>2, <1>3, <1>4, <2>1, Takes DEF FetchCached, Fetching, Alone
  <2>2. CASE Set(v, Fail(v)) /\ UNCHANGED mem
    BY <1>1, <1>2, <1>4, <2>2 DEF FetchCached, Alone
  <2> QED BY <1>4, <2>1, <2>2 DEF FetchCached
<1>5. CASE FetchBegin(v)
  <2>1. Set(v, vms[v])
    <3>1. vms \in Seq(VmRecords)
      BY DEF Inv, Vms
    <3> QED BY <1>5, <3>1 DEF FetchBegin, Set
  <2>2. cell' \in [Ids -> DOMAIN vms \cup {None, Ready}]
    BY <1>2, <1>5 DEF FetchBegin
  <2> QED BY <1>0, <1>2, <1>5, <2>1, <2>2 DEF FetchBegin, Alone, SameVm
<1>6. CASE FetchCreate(v)
  <2>1. ReadCost(id) + Size[id] \in Nat
    BY <1>0
  <2>2. mem' \in [BOOLEAN -> Nat]
    BY <1>6, <2>1, Takes DEF FetchCreate
  <2>3. cell' \in [Ids -> DOMAIN vms \cup {None, Ready}]
    BY <1>2, <1>6 DEF FetchCreate
  <2> QED BY <1>0, <1>3, <1>6, <2>2, <2>3 DEF FetchCreate, Fetching, Alone
<1>7. CASE FetchFails(v)
  <2>1. cell' \in [Ids -> DOMAIN vms \cup {None, Ready}]
    BY <1>2, <1>7 DEF FetchFails
  <2>2. CASE Set(v, Fail(v)) /\ UNCHANGED mem
    BY <1>1, <1>2, <1>7, <2>1, <2>2 DEF FetchFails, Alone
  <2>3. CASE ~ (Set(v, Fail(v)) /\ UNCHANGED mem)
    <3>1. PICK own : own = IF vms[v].at = "fetch" THEN ReadCost(id) ELSE 0
      OBVIOUS
    <3>2. own \in Nat
      BY <1>0, <3>1
    <3>3. /\ Fits(v, ReadCost(id)) /\ Take(v, ReadCost(id))
          /\ Set(v, [Fail(v) EXCEPT !.own = @ + own, !.extra = @ + own])
      BY <1>7, <2>3, <3>1 DEF FetchFails
    <3>4. mem' \in [BOOLEAN -> Nat]
      BY <1>0, <3>3, Takes
    <3>5. PICK old : old = Fail(v)
      OBVIOUS
    <3>6. PICK vm : vm = [old EXCEPT !.own = @ + own, !.extra = @ + own]
      OBVIOUS
    <3>7. Sane(old) /\ old \in VmRecords /\ old.own \in Nat /\ old.extra \in Nat
      BY <1>1, <3>5, Fields DEF Sane
    <3>8. /\ vm \in VmRecords /\ SameVm(vm, old)
          /\ vm.own = old.own + own /\ vm.given = old.given /\ vm.extra = old.extra + own
      BY ONLY <3>2, <3>6, <3>7, Charged
    <3>9. Sane(vm)
      BY <3>2, <3>7, <3>8, Pays
    <3>10. SameVm(vm, vms[v])
      BY <1>1, <3>5, <3>8 DEF SameVm
    <3>11. Set(v, vm)
      BY <3>3, <3>5, <3>6
    <3> QED BY <1>7, <2>1, <3>4, <3>9, <3>10, <3>11 DEF FetchFails, Alone
  <2> QED BY <2>2, <2>3
<1> QED BY <1>4, <1>5, <1>6, <1>7

(* What an action names, and the actions inside it.                        *)
LEMMA NextAction ==
    ASSUME Inv, NEW v \in DOMAIN vms, vms[v].todo # <<>>
    PROVE  /\ Next1(v) \in InitActions /\ Next1(v).acts \in Seq(InitActions)
           /\ Resolve(v, Next1(v).id) \in Ids
           /\ Tail(vms[v].todo) \in Seq(InitActions)
<1>1. vms[v].todo \in Seq(InitActions) /\ vms[v].root \in Ids
  BY VmIsSane, Fields
<1>2. Head(vms[v].todo) \in InitActions /\ Tail(vms[v].todo) \in Seq(InitActions)
  BY <1>1
<1>3. Next1(v) \in InitActions
  BY <1>2 DEF Next1
<1>4. Next1(v).acts \in Seq(InitActions) /\ Next1(v).id \in Ids \cup {"contract"}
  BY <1>3, RunnersAssumption
<1> QED BY <1>1, <1>2, <1>3, <1>4 DEF Resolve

LEMMA WalkSteps ==
    ASSUME Inv, NEW v \in DOMAIN vms,
           ApplyInner(v) \/ MapArchiveFile(v) \/ ApplyWith(v) \/ ApplyDepends(v) \/ ApplyEnds(v)
    PROVE  Alone(v)
<1> DEFINE old == vms[v]
<1>0. /\ Sane(old) /\ old \in VmRecords /\ old.visited \in SUBSET Ids
  <2>1. Sane(old) /\ old \in VmRecords
    BY VmIsSane
  <2> QED BY <2>1 DEF VmRecords
<1>1. Sane(Fail(v)) /\ SameVm(Fail(v), old)
  BY Fails
<1>2. mem \in [BOOLEAN -> Nat] /\ cell \in [Ids -> DOMAIN vms \cup {None, Ready}]
  BY DEF Inv, Shared
<1>3. CASE Set(v, Fail(v)) /\ UNCHANGED <<registry, cell, mem, by>>
  BY <1>1, <1>2, <1>3 DEF Alone
<1>4. ASSUME NEW vm, Moved(vm, old), Set(v, vm), UNCHANGED <<registry, cell, mem, by>>
      PROVE  Alone(v)
  BY <1>0, <1>2, <1>4, Moves DEF Alone
<1>5. CASE ApplyInner(v)
  <2>1. old.todo # <<>>
    BY <1>5 DEF ApplyInner, Walking
  <2>2. PICK todo : /\ todo \in {Tail(old.todo), Next1(v).acts \o Tail(old.todo)}
                    /\ Set(v, [old EXCEPT !.todo = todo])
    BY <1>5 DEF ApplyInner, Rest
  <2>3. todo \in Seq(InitActions)
    <3>1. Next1(v).acts \o Tail(old.todo) \in Seq(InitActions)
      BY <2>1, NextAction
    <3> QED BY <2>1, <2>2, <3>1, NextAction
  <2>4. PICK vm : vm = [old EXCEPT !.todo = todo] /\ Set(v, vm)
    BY <2>2
  <2>5. Moved(vm, old)
    BY <1>0, <2>3, <2>4 DEF VmRecords, SameVm, Moved
  <2> QED BY <1>4, <1>5, <2>4, <2>5 DEF ApplyInner
<1>6. CASE ApplyWith(v)
  <2>1. old.todo # <<>>
    BY <1>6 DEF ApplyWith, Walking
  <2>2. PICK todo, want, then :
          todo = Tail(old.todo) /\ want = Resolve(v, Next1(v).id) /\ then = Next1(v).acts
    OBVIOUS
  <2>3. todo \in Seq(InitActions) /\ want \in Ids /\ then \in Seq(InitActions)
    BY <2>1, <2>2, NextAction
  <2>4. PICK vm : vm = [[old EXCEPT !.todo = todo] EXCEPT !.at = "fetch", !.want = want, !.then = then]
                  /\ Set(v, vm)
    BY <1>6, <2>2 DEF ApplyWith, Fetch, Rest
  <2>5. Moved(vm, old)
    BY <1>0, <2>3, <2>4 DEF VmRecords, Places, SameVm, Moved
  <2> QED BY <1>4, <1>6, <2>4, <2>5 DEF ApplyWith
<1>7. CASE ApplyDepends(v)
  <2>1. old.todo # <<>>
    BY <1>7 DEF ApplyDepends, Walking
  <2>2. PICK todo, id : todo = Tail(old.todo) /\ id = Resolve(v, Next1(v).id)
    OBVIOUS
  <2>3. todo \in Seq(InitActions) /\ id \in Ids
    BY <2>1, <2>2, NextAction
  <2>4. PICK then, visited : then = <<Actions[id]>> /\ visited = old.visited \cup {id}
    OBVIOUS
  <2>5. then \in Seq(InitActions) /\ visited \in SUBSET Ids
    BY <1>0, <2>3, <2>4, RunnersAssumption
  <2>6. CASE Set(v, Rest(v))
    <3>1. PICK vm : vm = [old EXCEPT !.todo = todo] /\ Set(v, vm)
      BY <2>2, <2>6 DEF Rest
    <3>2. Moved(vm, old)
      BY <1>0, <2>3, <3>1 DEF VmRecords, Places, SameVm, Moved
    <3> QED BY <1>4, <1>7, <3>1, <3>2 DEF ApplyDepends
  <2>7. CASE Set(v, Fetch([Rest(v) EXCEPT !.visited = @ \cup {id}], id, <<Actions[id]>>))
    <3>1. PICK rest : rest = [old EXCEPT !.todo = todo]
      OBVIOUS
    <3>2. rest.visited = old.visited
      BY <1>0, <3>1 DEF VmRecords
    <3>3. PICK vm : /\ vm = [[rest EXCEPT !.visited = visited] EXCEPT !.at = "fetch", !.want = id, !.then = then]
                    /\ Set(v, vm)
      BY <2>2, <2>4, <2>7, <3>1, <3>2 DEF Fetch, Rest
    <3>4. Moved(vm, old)
      BY <1>0, <2>3, <2>5, <3>1, <3>3 DEF VmRecords, Places, SameVm, Moved
    <3> QED BY <1>4, <1>7, <3>3, <3>4 DEF ApplyDepends
  <2> QED BY <1>7, <2>2, <2>6, <2>7 DEF ApplyDepends
<1>8. CASE ApplyEnds(v)
  <2>1. CASE Set(v, [old EXCEPT !.at = "running", !.todo = <<>>])
    <3>1. PICK vm : vm = [old EXCEPT !.at = "running", !.todo = <<>>] /\ Set(v, vm)
      BY <2>1
    <3>2. Moved(vm, old)
      <4>1. <<>> \in Seq(InitActions)
        OBVIOUS
      <4> QED BY <1>0, <3>1, <4>1 DEF VmRecords, Places, SameVm, Moved
    <3> QED BY <1>4, <1>8, <3>1, <3>2 DEF ApplyEnds
  <2> QED BY <1>3, <1>8, <2>1 DEF ApplyEnds
<1>9. CASE MapArchiveFile(v)
  <2>1. CASE Set(v, Fail(v)) /\ UNCHANGED mem
    BY <1>3, <1>9, <2>1 DEF MapArchiveFile
  <2>2. CASE ~ (Set(v, Fail(v)) /\ UNCHANGED mem)
    <3>1. Fits(v, FileMapping) /\ Take(v, FileMapping)
      BY <1>9, <2>2 DEF MapArchiveFile
    <3>2. mem' \in [BOOLEAN -> Nat]
      BY <3>1, CostsNat, Takes
    <3>3. CASE Set(v, Fail(v))
      BY <1>1, <1>2, <1>9, <3>2, <3>3 DEF MapArchiveFile, Alone
    <3>4. CASE Set(v, [old EXCEPT !.at = "running"])
      <4>1. PICK vm : vm = [old EXCEPT !.at = "running"] /\ Set(v, vm)
        BY <3>4
      <4>2. Moved(vm, old)
        BY <1>0, <4>1 DEF VmRecords, Places, SameVm, Moved
      <4>3. Sane(vm) /\ SameVm(vm, old)
        BY <1>0, <4>2, Moves
      <4> QED BY <1>2, <1>9, <3>2, <4>1, <4>3 DEF MapArchiveFile, Alone
    <3>5. CASE Walking(v, "map") /\ Set(v, [Rest(v) EXCEPT !.own = @ + FileMapping, !.extra = @ + FileMapping])
      <4>1. old.todo # <<>>
        BY <3>5 DEF Walking
      <4>2. Tail(old.todo) \in Seq(InitActions) /\ FileMapping \in Nat
        BY <4>1, NextAction, CostsNat
      <4>3. PICK rest : rest = Rest(v)
        OBVIOUS
      <4>4. Moved(rest, old)
        BY <1>0, <4>2, <4>3 DEF Rest, VmRecords, SameVm, Moved
      <4>5. Sane(rest) /\ SameVm(rest, old)
        BY <1>0, <4>4, Moves
      <4>6. PICK vm : vm = [rest EXCEPT !.own = @ + FileMapping, !.extra = @ + FileMapping] /\ Set(v, vm)
        BY <3>5, <4>3
      <4>7. /\ vm \in VmRecords /\ SameVm(vm, rest)
            /\ vm.own = rest.own + FileMapping /\ vm.given = rest.given /\ vm.extra = rest.extra + FileMapping
        BY <4>2, <4>5, <4>6, Charged DEF Sane
      <4>8. Sane(vm) /\ SameVm(vm, rest)
        BY <4>2, <4>5, <4>7, Pays
      <4>9. SameVm(vm, old)
        BY <4>5, <4>8 DEF SameVm
      <4> QED BY <1>2, <1>9, <3>2, <4>6, <4>8, <4>9 DEF MapArchiveFile, Alone
    <3> QED BY <1>9, <2>2, <3>3, <3>4, <3>5 DEF MapArchiveFile
  <2> QED BY <2>1, <2>2
<1> QED BY <1>5, <1>6, <1>7, <1>8, <1>9

-----------------------------------------------------------------------------
(* gl_call.                                                                *)

LEMMA CallSteps ==
    ASSUME Inv, NEW v \in DOMAIN vms, MapRunnerFile(v) \/ End(v)
    PROVE  Alone(v)
<1> DEFINE old == vms[v]
<1>0. Sane(old) /\ old \in VmRecords
  BY VmIsSane
<1>1. Sane(Fail(v)) /\ SameVm(Fail(v), old)
  BY Fails
<1>2. mem \in [BOOLEAN -> Nat] /\ cell \in [Ids -> DOMAIN vms \cup {None, Ready}]
  BY DEF Inv, Shared
<1>3. UNCHANGED <<registry, cell, mem, by>>
  BY DEF MapRunnerFile, End
<1>4. ASSUME NEW vm, Moved(vm, old), Set(v, vm)
      PROVE  Alone(v)
  BY <1>0, <1>2, <1>3, <1>4, Moves DEF Alone
<1>5. CASE MapRunnerFile(v)
  <2>1. CASE Set(v, Fail(v))
    BY <1>1, <1>2, <1>3, <2>1 DEF Alone
  <2>2. ASSUME NEW id \in Ids, Set(v, [old EXCEPT !.at = "mapping", !.want = id])
        PROVE  Alone(v)
    <3>1. PICK vm : vm = [old EXCEPT !.at = "mapping", !.want = id]
      OBVIOUS
    <3>2. Moved(vm, old)
      BY <1>0, <3>1 DEF VmRecords, Places, SameVm, Moved
    <3> QED BY <1>4, <2>2, <3>1, <3>2
  <2> QED BY <1>5, <2>1, <2>2 DEF MapRunnerFile
<1>6. CASE End(v)
  <2>1. PICK failed \in BOOLEAN : Set(v, [old EXCEPT !.at = "ended", !.failed = failed])
    BY <1>6 DEF End
  <2>2. PICK vm : vm = [old EXCEPT !.at = "ended", !.failed = failed]
    OBVIOUS
  <2>3. Moved(vm, old)
    BY <1>0, <2>2 DEF VmRecords, Places, SameVm, Moved
  <2> QED BY <1>4, <2>1, <2>2, <2>3
<1> QED BY <1>5, <1>6

(* Registration: the runner enters the registry before a scope names it.   *)
LEMMA RegisterKeeps ==
    ASSUME Inv, NEW v \in DOMAIN vms, RegisterRunner(v)
    PROVE  Inv'
<1> DEFINE old == vms[v]
<1>0. Sane(old) /\ old \in VmRecords /\ old.scope \subseteq Customs
  BY VmIsSane, Fields
<1>1. PICK id \in Customs :
        \/ /\ id \in registry \/ Fits(v, Size[id])
           /\ IF id \in registry THEN UNCHANGED mem ELSE Take(v, Size[id])
           /\ registry' = registry \cup {id}
           /\ by' = [by EXCEPT ![id] = @ \cup {v}]
           /\ Set(v, [vms[v] EXCEPT !.scope = @ \cup {id}])
        \/ /\ id \notin registry
           /\ Set(v, Fail(v))
           /\ UNCHANGED <<registry, mem, by>>
  BY DEF RegisterRunner
<1>2. cell' = cell /\ cell \in [Ids -> DOMAIN vms \cup {None, Ready}] /\ mem \in [BOOLEAN -> Nat]
      /\ registry \subseteq Customs /\ by \in [Customs -> SUBSET DOMAIN vms]
  BY DEF RegisterRunner, Inv, Shared
<1>3. CASE Set(v, Fail(v)) /\ UNCHANGED <<registry, mem, by>>
  <2>1. Alone(v)
    BY <1>2, <1>3, Fails DEF Alone
  <2> QED BY <2>1, AloneKeeps
<1>4. CASE /\ id \in registry \/ Fits(v, Size[id])
           /\ IF id \in registry THEN UNCHANGED mem ELSE Take(v, Size[id])
           /\ registry' = registry \cup {id}
           /\ by' = [by EXCEPT ![id] = @ \cup {v}]
           /\ Set(v, [vms[v] EXCEPT !.scope = @ \cup {id}])
  <2>1. PICK scope : scope = old.scope \cup {id}
    OBVIOUS
  <2>2. PICK vm : vm = [old EXCEPT !.scope = scope] /\ Set(v, vm)
    BY <1>4, <2>1
  <2>3. scope \subseteq Customs
    BY <1>0, <2>1
  <2>4. /\ vm \in VmRecords /\ vm.kind = old.kind /\ vm.parent = old.parent /\ vm.scope = scope
        /\ vm.own = old.own /\ vm.given = old.given /\ vm.extra = old.extra
    BY <1>0, <2>2, <2>3 DEF VmRecords
  <2>5. Sane(vm)
    BY <1>0, <2>4 DEF Sane, Paid
  <2>6. /\ Vms(vms') /\ Extends(vms', vms) /\ DOMAIN vms' = DOMAIN vms
        /\ vms'[v] = vm /\ \A u \in DOMAIN vms \ {v} : vms'[u] = vms[u]
    BY <2>2, <2>4, <2>5, SetKeeps DEF Inv
  <2>7. /\ registry' \subseteq Customs /\ registry \subseteq registry'
        /\ by' \in [Customs -> SUBSET DOMAIN vms] /\ v \in by'[id]
        /\ \A i \in Customs : by[i] \subseteq by'[i]
    <3>1. by'[id] = by[id] \cup {v} /\ \A i \in Customs \ {id} : by'[i] = by[i]
      BY <1>2, <1>4
    <3>2. by' \in [Customs -> SUBSET DOMAIN vms]
      BY <1>2, <1>4, <3>1
    <3> QED BY <1>2, <1>4, <3>1, <3>2
  <2>8. mem' \in [BOOLEAN -> Nat]
    <3>1. CASE id \in registry
      BY <1>2, <1>4, <3>1
    <3>2. CASE id \notin registry
      <4>1. Size[id] \in Nat
        BY CostsNat DEF Customs
      <4> QED BY <1>4, <3>2, <4>1, Takes
    <3> QED BY <3>1, <3>2
  <2>9. ASSUME NEW u \in DOMAIN vms', NEW i \in vms'[u].scope
        PROVE  Passed(u, i)
    <3>1. CASE i \in vms[u].scope
      BY <2>6, <3>1 DEF Passed
    <3>2. CASE i \notin vms[u].scope
      <4>1. u = v /\ i = id
        BY <2>1, <2>4, <2>6, <3>2
      <4>2. Owner'[u] \in Lineage'[u]
        BY <2>6, VmsTree, OwnersAre, LineageFacts
      <4> QED BY <1>4, <2>7, <4>1, <4>2 DEF Passed
    <3> QED BY <3>1, <3>2
  <2>10. Registered' /\ Earned'
    BY <2>6, <2>7, <2>9, ScopesKeep
  <2>11. Shared'
    BY <1>2, <2>6, <2>7, <2>8 DEF Shared
  <2> QED BY <2>6, <2>10, <2>11 DEF Inv
<1> QED BY <1>1, <1>3, <1>4

(* A new VM: what it may name it has from its parent.                      *)
LEMMA SpawnKeeps ==
    ASSUME Inv, NEW v \in DOMAIN vms, NEW child, Sane(child), child.parent = v, Spawn(v, child),
           child.scope = {} \/ (child.kind \in Inherits /\ child.scope = vms[v].scope)
    PROVE  Inv'
<1>0. /\ vms \in Seq(VmRecords) /\ Len(vms) \in Nat /\ Len(vms) < MaxVms /\ MaxVms \in Nat
      /\ child \in VmRecords /\ DOMAIN vms = 1 .. Len(vms) /\ vms[v] \in VmRecords
      /\ 1 <= Len(vms) + 1
  BY RunnersAssumption DEF Inv, Vms, Spawn, Sane
<1>1. PICK at : at = IF child.kind = "nondet" THEN vms[v].at ELSE "waiting"
  OBVIOUS
<1>2. PICK old : old = [vms[v] EXCEPT !.at = at]
  OBVIOUS
<1>3. PICK s : s = [vms EXCEPT ![v] = old]
  OBVIOUS
<1>4. vms' = Append(s, child)
  BY <1>0, <1>1, <1>2, <1>3 DEF Spawn
<1>5. at \in Places
  BY <1>0, <1>1, Fields DEF Places
<1>6. Moved(old, vms[v])
  BY <1>0, <1>2, <1>5 DEF VmRecords, SameVm, Moved
<1>7. Sane(old) /\ SameVm(old, vms[v])
  BY <1>6, VmIsSane, Moves
<1>8. /\ s \in Seq(VmRecords) /\ Len(s) = Len(vms)
      /\ \A u \in DOMAIN vms : s[u] = IF u = v THEN old ELSE vms[u]
  BY <1>0, <1>3, <1>6 DEF Moved
<1>9. /\ vms' \in Seq(VmRecords) /\ Len(vms') = Len(vms) + 1 /\ DOMAIN vms' = 1 .. Len(vms) + 1
      /\ vms'[Len(vms) + 1] = child
      /\ \A u \in DOMAIN vms : vms'[u] = IF u = v THEN old ELSE vms[u]
  BY <1>0, <1>4, <1>8
<1>10. \A u \in DOMAIN vms : /\ vms'[u].kind = vms[u].kind /\ vms'[u].parent = vms[u].parent
                             /\ vms'[u].scope = vms[u].scope /\ Paid(vms'[u])
  BY <1>7, <1>9 DEF SameVm, Sane, Inv, Vms
<1>11. \A u \in DOMAIN vms' : u \in DOMAIN vms \/ u = Len(vms) + 1
  BY <1>0, <1>9
<1>12. Vms(vms')
  <2>1. Len(vms') \in 1 .. MaxVms
    BY <1>0, <1>9
  <2>2. ASSUME NEW u \in DOMAIN vms'
        PROVE  /\ vms'[u].parent \in 0 .. u - 1 /\ (vms'[u].kind \in Inherits => vms'[u].parent # 0)
               /\ Paid(vms'[u])
    <3>1. CASE u \in DOMAIN vms
      BY <1>10, <3>1 DEF Inv, Vms
    <3>2. CASE u = Len(vms) + 1
      <4>1. v \in 0 .. u - 1 /\ v # 0
        BY <1>0, <3>2
      <4> QED BY <1>9, <3>2, <4>1 DEF Sane
    <3> QED BY <1>11, <3>1, <3>2
  <2> QED BY <1>9, <2>1, <2>2 DEF Vms
<1>13. Extends(vms', vms)
  BY <1>0, <1>9, <1>10 DEF Extends
<1>14. registry' = registry /\ by' = by /\ cell' = cell /\ mem' = mem
  BY DEF Spawn
<1>15. ASSUME NEW u \in DOMAIN vms', NEW id \in vms'[u].scope
       PROVE  Passed(u, id)
  <2>1. CASE u \in DOMAIN vms
    BY <1>10, <2>1 DEF Passed
  <2>2. CASE u = Len(vms) + 1
    <3>1. vms'[u] = child /\ child.kind \in Inherits /\ id \in vms[v].scope
      BY <1>9, <2>2
    <3>2. Lineage'[v] \subseteq Lineage'[u]
      BY <1>12, <3>1, VmsTree, OwnersAre, LineageFacts
    <3> QED BY <3>1, <3>2 DEF Passed
  <2> QED BY <1>11, <2>1, <2>2
<1>16. Registered' /\ Earned'
  BY <1>12, <1>13, <1>14, <1>15, ScopesKeep
<1>17. Shared'
  <2>1. DOMAIN vms \subseteq DOMAIN vms'
    BY <1>0, <1>9
  <2> QED BY <1>14, <2>1 DEF Inv, Shared
<1> QED BY <1>12, <1>16, <1>17 DEF Inv

LEMMA NewVm ==
    ASSUME NEW kind \in Kinds, NEW parent \in Nat, NEW det \in BOOLEAN, NEW root \in Ids,
           NEW scope \in SUBSET Customs, NEW register \in BOOLEAN,
           NEW vm, vm = Vm(kind, parent, det, root, scope, register)
    PROVE  Sane(vm) /\ vm.kind = kind /\ vm.parent = parent /\ vm.scope = scope
<1>1. <<Actions[root]>> \in Seq(InitActions) /\ <<>> \in Seq(InitActions) /\ <<>> \in Seq(Ids)
  BY RunnersAssumption
<1>2. PICK then : then = <<Actions[root]>>
  OBVIOUS
<1>3. PICK failed, at :
        /\ failed = (root \in Customs \ scope)
        /\ at = IF root \in Customs \ scope THEN "ended" ELSE "fetch"
  OBVIOUS
<1>4. failed \in BOOLEAN /\ at \in Places
  BY <1>3 DEF Places
<1>5. vm = [kind |-> kind, parent |-> parent, det |-> det, root |-> root, scope |-> scope,
            register |-> register, want |-> root, then |-> then, todo |-> <<>>,
            visited |-> {}, own |-> 0, given |-> <<>>, extra |-> 0, failed |-> failed, at |-> at]
  BY <1>2, <1>3 DEF Vm
<1>6. /\ vm \in VmRecords /\ vm.kind = kind /\ vm.parent = parent /\ vm.scope = scope
      /\ vm.own = 0 /\ vm.given = <<>> /\ vm.extra = 0
  BY <1>1, <1>2, <1>4, <1>5 DEF VmRecords
<1>7. vm.own = vm.extra + SumFunction(Sizes(vm.given))
  BY <1>6, SizesEmpty
<1> QED BY <1>6, <1>7 DEF Sane, Paid

LEMMA StartSteps ==
    ASSUME Inv, NEW v \in DOMAIN vms, Sandbox(v) \/ CallContract(v) \/ RunNondet(v)
    PROVE  Inv'
<1> DEFINE old == vms[v]
<1>0. /\ old.det \in BOOLEAN /\ old.root \in Ids /\ old.scope \in SUBSET Customs /\ old.register \in BOOLEAN
      /\ v \in Nat
  <2>1. old \in VmRecords
    BY VmIsSane
  <2> QED BY <2>1, Fields DEF Inv, Vms
<1>1. CASE Sandbox(v)
  <2>1. PICK id \in Ids, allow \in BOOLEAN :
          Spawn(v, Vm("sandbox", v, old.det, id, old.scope, old.register /\ allow))
    BY <1>1 DEF Sandbox
  <2>2. PICK register : register = (old.register /\ allow)
    OBVIOUS
  <2>3. PICK child : child = Vm("sandbox", v, old.det, id, old.scope, register)
    OBVIOUS
  <2>4. register \in BOOLEAN /\ "sandbox" \in Kinds /\ "sandbox" \in Inherits
    BY <1>0, <2>2 DEF Kinds, Inherits
  <2>5. Sane(child) /\ child.kind = "sandbox" /\ child.parent = v /\ child.scope = old.scope
    BY <1>0, <2>3, <2>4, NewVm
  <2>6. Spawn(v, child)
    BY <2>1, <2>2, <2>3
  <2> QED BY <2>4, <2>5, <2>6, SpawnKeeps
<1>2. CASE CallContract(v)
  <2>1. PICK id \in Ids : Spawn(v, Vm("call", v, TRUE, id, old.scope, old.register))
    BY <1>2 DEF CallContract
  <2>2. PICK child : child = Vm("call", v, TRUE, id, old.scope, old.register)
    OBVIOUS
  <2>3. "call" \in Kinds /\ "call" \in Inherits /\ TRUE \in BOOLEAN
    BY DEF Kinds, Inherits
  <2>4. Sane(child) /\ child.kind = "call" /\ child.parent = v /\ child.scope = old.scope
    <3>1. PICK kind, det : kind = "call" /\ det = TRUE
      OBVIOUS
    <3>2. kind \in Kinds /\ det \in BOOLEAN
      BY ONLY <2>3, <3>1
    <3>3. child = Vm(kind, v, det, id, old.scope, old.register)
      BY ONLY <2>2, <3>1
    <3>4. Sane(child) /\ child.kind = kind /\ child.parent = v /\ child.scope = old.scope
      BY ONLY <1>0, id \in Ids, <3>2, <3>3, NewVm
    <3> QED BY ONLY <3>1, <3>4
  <2> QED BY <2>1, <2>2, <2>3, <2>4, SpawnKeeps
<1>3. CASE RunNondet(v)
  <2>1. Spawn(v, Vm("nondet", v, FALSE, old.root, {}, FALSE))
    BY <1>3 DEF RunNondet, NondetScope
  <2>2. PICK child : child = Vm("nondet", v, FALSE, old.root, {}, FALSE)
    OBVIOUS
  <2>3. "nondet" \in Kinds /\ {} \in SUBSET Customs /\ FALSE \in BOOLEAN
    BY DEF Kinds
  <2>4. Sane(child) /\ child.kind = "nondet" /\ child.parent = v /\ child.scope = {}
    <3>1. PICK kind, det, scope : kind = "nondet" /\ det = FALSE /\ scope = {}
      OBVIOUS
    <3>2. kind \in Kinds /\ det \in BOOLEAN /\ scope \in SUBSET Customs
      BY ONLY <2>3, <3>1
    <3>3. child = Vm(kind, v, det, old.root, scope, det)
      BY ONLY <2>2, <3>1
    <3>4. Sane(child) /\ child.kind = kind /\ child.parent = v /\ child.scope = scope
      BY ONLY <1>0, <3>2, <3>3, NewVm
    <3> QED BY ONLY <3>1, <3>4
  <2> QED BY <2>1, <2>2, <2>4, SpawnKeeps
<1> QED BY <1>1, <1>2, <1>3

(* A VM returns: the scope of a sandbox comes back to its parent.          *)
LEMMA ReturnKeeps ==
    ASSUME Inv, NEW v \in DOMAIN vms, Return(v)
    PROVE  Inv'
<1> DEFINE vm == vms[v]
<1>0. /\ Sane(vm) /\ vm \in VmRecords /\ vms \in Seq(VmRecords)
      /\ v \in Nat /\ vm.parent \in 0 .. v - 1 /\ (vm.kind \in Inherits => vm.parent # 0)
      /\ DOMAIN vms = 1 .. Len(vms) /\ Len(vms) \in Nat
  BY VmIsSane DEF Inv, Vms
<1>1. PICK gone : gone = [vm EXCEPT !.at = "gone", !.own = 0, !.given = <<>>, !.extra = 0, !.visited = {},
                                    !.todo = <<>>, !.then = <<>>]
  OBVIOUS
<1>2. Sane(gone) /\ SameVm(gone, vm)
  <2>1. <<>> \in Seq(InitActions) /\ <<>> \in Seq(Ids)
    OBVIOUS
  <2>2. gone \in VmRecords /\ SameVm(gone, vm) /\ gone.own = 0 /\ gone.given = <<>> /\ gone.extra = 0
    BY <1>0, <1>1, <2>1 DEF VmRecords, Places, SameVm
  <2>3. gone.own = gone.extra + SumFunction(Sizes(gone.given))
    BY <2>2, SizesEmpty
  <2> QED BY <2>2, <2>3 DEF Sane, Paid
<1>3. /\ mem' \in [BOOLEAN -> Nat] /\ registry' = registry /\ by' = by /\ cell' = cell
  <2>1. mem' = [mem EXCEPT ![vm.det] = @ + vm.own] /\ registry' = registry /\ by' = by /\ cell' = cell
    BY DEF Return
  <2>2. mem \in [BOOLEAN -> Nat] /\ vm.det \in BOOLEAN /\ vm.own \in Nat
    BY <1>0, Fields DEF Inv, Shared
  <2> QED BY <2>1, <2>2
<1>4. cell \in [Ids -> DOMAIN vms \cup {None, Ready}]
  BY DEF Inv, Shared
<1>5. CASE Set(v, gone)
  BY <1>2, <1>3, <1>4, <1>5, AloneKeeps DEF Alone
<1>6. ASSUME NEW p, vm.kind \in Inherits, Sane(p), p.kind = vms[vm.parent].kind,
             p.parent = vms[vm.parent].parent,
             p.scope = vms[vm.parent].scope \/ (vm.kind = "sandbox" /\ p.scope = vm.scope),
             vms' = [vms EXCEPT ![v] = gone, ![vm.parent] = p]
      PROVE  Inv'
  <2>1. vm.parent \in DOMAIN vms /\ vm.parent # v
    BY <1>0, <1>6
  <2>2. /\ vms' \in Seq(VmRecords) /\ Len(vms') = Len(vms) /\ DOMAIN vms' = DOMAIN vms
        /\ \A u \in DOMAIN vms : vms'[u] = IF u = vm.parent THEN p ELSE IF u = v THEN gone ELSE vms[u]
    BY <1>0, <1>2, <1>6, <2>1 DEF Sane
  <2>3. \A u \in DOMAIN vms : /\ vms'[u].kind = vms[u].kind /\ vms'[u].parent = vms[u].parent
                              /\ Paid(vms'[u])
    BY <1>2, <1>6, <2>2 DEF SameVm, Sane, Inv, Vms
  <2>4. Vms(vms')
    BY <2>2, <2>3 DEF Inv, Vms
  <2>5. Extends(vms', vms)
    BY <1>0, <2>2, <2>3 DEF Extends
  <2>6. ASSUME NEW u \in DOMAIN vms', NEW id \in vms'[u].scope
        PROVE  Passed(u, id)
    <3>1. CASE id \in vms[u].scope
      BY <2>2, <3>1 DEF Passed
    <3>2. CASE id \notin vms[u].scope
      <4>1. u = vm.parent /\ vm.kind = "sandbox" /\ id \in vm.scope
        BY <1>2, <1>6, <2>2, <3>2 DEF SameVm
      <4>2. Tree(vms') /\ v \in DOMAIN vms' /\ vms'[v].kind = "sandbox" /\ vms'[v].parent = u
        BY <2>2, <2>3, <2>4, <4>1, VmsTree
      <4>3. OwnersIn(Owner', vms') /\ LineagesIn(Lineage', Owner', vms')
        BY <4>2, OwnersAre
      <4>4. Owner'[v] = Owner'[u] /\ Lineage'[v] = {Owner'[v]} \cup Lineage'[u]
        BY <4>2, <4>3, LineageFacts DEF Inherits
      <4>5. Owner'[u] \in Lineage'[u]
        BY <4>2, <4>3, LineageFacts
      <4>6. Lineage'[v] \subseteq Lineage'[u]
        BY <4>4, <4>5
      <4> QED BY <4>1, <4>6 DEF Passed
    <3> QED BY <3>1, <3>2
  <2>7. Registered' /\ Earned'
    BY <1>3, <2>4, <2>5, <2>6, ScopesKeep
  <2>8. Shared'
    BY <1>3, <1>4, <2>2 DEF Inv, Shared
  <2> QED BY <2>4, <2>7, <2>8 DEF Inv
<1>7. CASE /\ vm.kind \in {"sandbox", "call"}
           /\ vms' = [vms EXCEPT ![v] = gone, ![vm.parent] =
                [vms[vm.parent] EXCEPT !.scope = ScopeAfter(vm, vms[vm.parent]), !.at = "running"]]
  <2>1. vm.kind \in Inherits /\ vm.parent \in DOMAIN vms
    BY <1>0, <1>7 DEF Inherits
  <2>2. PICK old : old = vms[vm.parent]
    OBVIOUS
  <2>3. PICK scope : scope = ScopeAfter(vm, old)
    OBVIOUS
  <2>4. scope = old.scope \/ (vm.kind = "sandbox" /\ scope = vm.scope)
    BY <2>3 DEF ScopeAfter
  <2>5. Sane(old) /\ old \in VmRecords /\ scope \subseteq Customs
    <3>1. Sane(old) /\ old \in VmRecords
      BY <2>1, <2>2, VmIsSane
    <3> QED BY <1>0, <2>4, <3>1, Fields
  <2>6. PICK p : p = [old EXCEPT !.scope = scope, !.at = "running"]
    OBVIOUS
  <2>7. /\ p \in VmRecords /\ p.kind = old.kind /\ p.parent = old.parent /\ p.scope = scope
        /\ p.own = old.own /\ p.given = old.given /\ p.extra = old.extra
    BY <2>5, <2>6 DEF VmRecords, Places
  <2>8. Sane(p)
    BY <2>5, <2>7 DEF Sane, Paid
  <2>9. vms' = [vms EXCEPT ![v] = gone, ![vm.parent] = p]
    BY <1>7, <2>2, <2>3, <2>6
  <2> QED BY <1>6, <2>1, <2>2, <2>4, <2>7, <2>8, <2>9
<1>8. CASE /\ vm.kind \in {"sandbox", "call"}
           /\ vms' = [vms EXCEPT ![v] = gone, ![vm.parent] = Fail(vm.parent)]
  <2>1. vm.kind \in Inherits /\ vm.parent \in DOMAIN vms
    BY <1>0, <1>8 DEF Inherits
  <2>2. PICK p : p = Fail(vm.parent)
    OBVIOUS
  <2>3. Sane(p) /\ SameVm(p, vms[vm.parent])
    BY <2>1, <2>2, Fails
  <2>4. vms' = [vms EXCEPT ![v] = gone, ![vm.parent] = p]
    BY <1>8, <2>2
  <2> QED BY <1>6, <2>1, <2>3, <2>4 DEF SameVm
<1> QED BY <1>1, <1>5, <1>7, <1>8 DEF Return

LEMMA InitInv == Init => Inv
<1> SUFFICES ASSUME Init PROVE Inv
  OBVIOUS
<1>1. PICK register \in BOOLEAN : vms = <<Vm("main", 0, TRUE, MainId, {}, register)>>
  BY DEF Init
<1>2. PICK vm : vm = Vm("main", 0, TRUE, MainId, {}, register)
  OBVIOUS
<1>3. Sane(vm) /\ vm.kind = "main" /\ vm.parent = 0 /\ vm.scope = {}
  <2>1. "main" \in Kinds /\ MainId \in Ids /\ {} \in SUBSET Customs /\ TRUE \in BOOLEAN /\ 0 \in Nat
    BY RunnersAssumption DEF Kinds
  <2>2. PICK kind, parent, det, scope : kind = "main" /\ parent = 0 /\ det = TRUE /\ scope = {}
    OBVIOUS
  <2>3. kind \in Kinds /\ parent \in Nat /\ det \in BOOLEAN /\ scope \in SUBSET Customs
    BY ONLY <2>1, <2>2
  <2>4. vm = Vm(kind, parent, det, MainId, scope, register)
    BY ONLY <1>2, <2>2
  <2>5. Sane(vm) /\ vm.kind = kind /\ vm.parent = parent /\ vm.scope = scope
    BY ONLY <2>1, <2>3, <2>4, register \in BOOLEAN, NewVm
  <2> QED BY ONLY <2>2, <2>5
<1>4. vms = <<vm>> /\ vms \in Seq(VmRecords) /\ Len(vms) = 1 /\ DOMAIN vms = {1} /\ vms[1] = vm
  <2>1. vms = <<vm>> /\ vm \in VmRecords
    BY <1>1, <1>2, <1>3 DEF Sane
  <2> QED BY ONLY <2>1
<1>5. MaxVms \in Nat /\ 1 \in 1 .. MaxVms
  BY RunnersAssumption
<1>6. Vms(vms)
  <2>1. vm.parent \in 0 .. 0 /\ vm.kind \notin Inherits /\ Paid(vm)
    BY <1>3 DEF Inherits, Sane
  <2> QED BY <1>4, <1>5, <2>1 DEF Vms
<1>7. Shared
  BY <1>4, RunnersAssumption DEF Init, Shared
<1>8. Registered /\ Earned
  BY <1>3, <1>4 DEF Registered, Earned
<1> QED BY <1>6, <1>7, <1>8 DEF Inv

LEMMA StepInv == Inv /\ [Next]_vars => Inv'
<1> SUFFICES ASSUME Inv, [Next]_vars PROVE Inv'
  OBVIOUS
<1>1. CASE UNCHANGED vars
  <2>1. vms' = vms /\ registry' = registry /\ cell' = cell /\ mem' = mem /\ by' = by
    BY <1>1 DEF vars
  <2>2. Owner' = Owner
    BY <2>1 DEF Owner
  <2>3. Lineage' = Lineage
    BY <2>1, <2>2 DEF Lineage
  <2> QED BY <2>1, <2>2, <2>3 DEF Inv, Vms, Shared, Registered, Earned
<1>2. ASSUME NEW v \in DOMAIN vms, Load(v) PROVE Inv'
  BY <1>2, FetchSteps, WalkSteps, AloneKeeps DEF Load
<1>3. ASSUME NEW v \in DOMAIN vms, GlCall(v) PROVE Inv'
  BY <1>3, RegisterKeeps, CallSteps, AloneKeeps, StartSteps DEF GlCall
<1>4. ASSUME NEW v \in DOMAIN vms, Return(v) PROVE Inv'
  BY <1>4, ReturnKeeps
<1> QED BY <1>1, <1>2, <1>3, <1>4 DEF Next, Finished

LEMMA InvHolds == Spec => []Inv
<1> QED BY InitInv, StepInv, PTL DEF Spec

(* load_runner and gl_call decide by a VM's scope which custom runners it  *)
(* may name.  Whatever VMs start, register, fail and return, a scope names *)
(* only runners that are in the registry, so that loading one is never the *)
(* internal error, and only runners registered by the execution scope of   *)
(* the VM or by one that it inherited from.                                *)
THEOREM ScopesAreSound == Spec => []ScopesSound
BY InvHolds, InvMeans, PTL

(* get_arch charges whoever is given an archive: however walks meet in the *)
(* cache and whoever's attempt to fill it failed, what a live VM's limiter *)
(* has consumed is the sizes of the archives its walk was given, and what  *)
(* it read and mapped besides.                                             *)
THEOREM ArchivesArePaidFor == Spec => []PaysForItsArchives
BY InvHolds, InvMeans, PTL
=============================================================================
