--------------------------- MODULE HostRunProofs ---------------------------
(***************************************************************************)
(* What module HostRun promises, proved for any number of connections and  *)
(* blocks, any routing of the methods, any fuel and any number of faults.  *)
(*                                                                         *)
(* The invariants come in layers, each of them inductive with the ones     *)
(* before: where the VMs are (Placement); what is on the connections and   *)
(* to the modules, and who waits for it (Traffic); and from these, apart   *)
(* from each other, the money, the order of the notifications, the report, *)
(* the fuel and the locked slots.                                          *)
(***************************************************************************)
EXTENDS HostRun, SumTheorems

(*----- where the VMs are -------------------------------------------------*)

\* f is a function, and not just something with that domain.
IsFun(f) == f = [x \in DOMAIN f |-> f[x]]

PlacesOf(a) ==
  IF a = Main THEN {"setup", "ready", "wait", "host", "await", "notify", "report", "finish", "exit"}
              ELSE {"off", "ready", "host", "module", "prompt", "charge", "count"}

AsksOf(a) ==
  IF a = Main THEN {"StorageRead", "EthCall", "GetBalance", "ConsumeResult", "NotifyFinished"}
              ELSE {"StorageRead", "GetBalance", "RemainingFuelAsGen"}

\* A VM waits for what it may ask for, and a place that is no wait has no call.
Fits(a, at, call) ==
  /\ at \in PlacesOf(a)
  /\ at = "host" => call \in AsksOf(a)
  /\ at = "module" => call \in Modules
  /\ at \notin {"host", "module"} => call = ""

Placed(a) == pc[a] = At(pc[a].at, pc[a].call, pc[a].n) /\ Fits(a, pc[a].at, pc[a].call)

\* How far the main VM is with the end of the run.
Reporting == pc[Main].call \in {"ConsumeResult", "NotifyFinished"} \/ pc[Main].at \in {"finish", "exit"}
Decided == Reporting \/ pc[Main].at \in {"notify", "report"}
Ended == Decided \/ pc[Main].at = "await"

Off(b) == pc[b].at = "off"
AllOff == \A b \in Blocks : Off(b) /\ fate[b] # "submitted"

\* A leader runs one block at a time, while the main VM waits for it.
Leads ==
  conf.role = "leader" =>
    \A b \in Blocks : /\ fate[b] # "submitted"
                      /\ ~Off(b) => pc[Main].at = "wait" /\ \A c \in Blocks \ {b} : Off(c)

\* A validator runs blocks that were handed over and are not settled, and nobody waits.
Validates ==
  conf.role # "leader" =>
    /\ pc[Main].at # "wait"
    /\ \A b \in Blocks : ~Off(b) => fate[b] = "submitted"

Stages ==
  /\ pc[Main].at = "setup" => AllOff
  /\ outcome # "none" => Ended
  /\ report # <<>> => Reporting
  /\ Decided => AllOff

Placement ==
  /\ DOMAIN pc = Vms /\ IsFun(pc) /\ DOMAIN fate = Blocks /\ next \in Nat
  /\ \A a \in Vms : Placed(a)
  /\ Leads /\ Validates /\ Stages

LEMMA ExceptIsFun == \A f, a, v : IsFun([f EXCEPT ![a] = v])
BY DEF IsFun

LEMMA VmFacts ==
    /\ Main \in Vms /\ Main \notin Blocks /\ Blocks \subseteq Vms /\ NoOne \notin Vms
    /\ \A a \in Vms : a = Main \/ a \in Blocks
    /\ NondetBlocks \in Nat /\ \A i \in Nat : i < NondetBlocks => i \in Blocks
    /\ Queue!Calls = Blocks
BY HostRunAssumption DEF Main, Blocks, Vms, NoOne, Queue!Calls

LEMMA AtFields ==
    \A at, call, n : /\ At(at, call, n).at = at /\ At(at, call, n).call = call /\ At(at, call, n).n = n
                     /\ At(at, call, n) = At(At(at, call, n).at, At(at, call, n).call, At(at, call, n).n)
BY DEF At

(* One VM goes somewhere else.                                             *)
LEMMA Moved ==
    ASSUME Placement, NEW a \in Vms, NEW at, NEW call, NEW n,
           pc' = [pc EXCEPT ![a] = At(at, call, n)]
    PROVE  /\ DOMAIN pc' = Vms /\ IsFun(pc') /\ pc'[a] = At(at, call, n)
           /\ pc'[a].at = at /\ pc'[a].call = call /\ pc'[a].n = n
           /\ \A x \in Vms \ {a} : pc'[x] = pc[x]
           /\ Fits(a, at, call) => \A x \in Vms : Placed(x)'
<1>1. /\ DOMAIN pc' = Vms /\ IsFun(pc') /\ pc'[a] = At(at, call, n)
      /\ \A x \in Vms \ {a} : pc'[x] = pc[x]
  BY ExceptIsFun DEF Placement
<1>2. pc'[a].at = at /\ pc'[a].call = call /\ pc'[a].n = n
      /\ pc'[a] = At(pc'[a].at, pc'[a].call, pc'[a].n)
  BY <1>1, AtFields
<1>3. ASSUME Fits(a, at, call), NEW x \in Vms PROVE Placed(x)'
  <2>1. CASE x = a
    BY <1>2, <1>3, <2>1 DEF Placed, Fits, PlacesOf, AsksOf
  <2>2. CASE x # a
    BY <1>1, <2>2 DEF Placed, Fits, PlacesOf, AsksOf, Placement
  <2> QED BY <2>1, <2>2
<1> QED BY <1>1, <1>2, <1>3

\* A place with neither a call nor a number.
Idle(q, at) == q.at = at /\ q.call = "" /\ q.n = 0 /\ q = At(q.at, q.call, q.n)

LEMMA IdleFields == \A at : Idle(At(at, "", 0), at)
BY DEF At, Idle

LEMMA MovedIdle ==
    ASSUME Placement, NEW a \in Vms, NEW at, Goto(a, at)
    PROVE  /\ DOMAIN pc' = Vms /\ IsFun(pc') /\ pc'[a].at = at /\ pc'[a].call = "" /\ pc'[a].n = 0
           /\ \A x \in Vms \ {a} : pc'[x] = pc[x]
           /\ Fits(a, at, "") => \A x \in Vms : Placed(x)'
<1>1. PICK n : n = 0 /\ pc' = [pc EXCEPT ![a] = At(at, "", n)]
  BY DEF Goto
<1>2. /\ DOMAIN pc' = Vms /\ IsFun(pc') /\ pc'[a] = At(at, "", n)
      /\ pc'[a].at = at /\ pc'[a].call = "" /\ pc'[a].n = n
      /\ \A x \in Vms \ {a} : pc'[x] = pc[x]
      /\ Fits(a, at, "") => \A x \in Vms : Placed(x)'
  <2>1. pc' = [pc EXCEPT ![a] = At(at, "", n)]
    BY <1>1
  <2> QED BY ONLY Placement, a \in Vms, <2>1, Moved
<1> QED BY <1>1, <1>2

(* A block goes from one place to another, neither of them "off".          *)
LEMMA BlockGoes ==
    ASSUME Placement, NEW b \in Blocks, ~Off(b), NEW at, NEW call, NEW n,
           pc' = [pc EXCEPT ![b] = At(at, call, n)], Fits(b, at, call), at # "off",
           UNCHANGED <<conf, next, fate, outcome, report>>
    PROVE  Placement'
<1>1. b \in Vms /\ b # Main
  BY VmFacts
<1>2. /\ DOMAIN pc' = Vms /\ IsFun(pc') /\ pc'[b].at = at /\ \A x \in Vms \ {b} : pc'[x] = pc[x]
      /\ \A x \in Vms : Placed(x)'
  BY <1>1, Moved
<1>3. /\ pc'[Main] = pc[Main] /\ ~AllOff
      /\ \A c \in Blocks : Off(c)' <=> Off(c)
  BY <1>1, <1>2, VmFacts DEF Off, AllOff
<1>4. Leads' /\ Validates'
  BY <1>3 DEF Leads, Validates, Placement
<1>5. Stages'
  BY <1>3 DEF Stages, Reporting, Decided, Ended, AllOff, Placement
<1> QED BY <1>2, <1>4, <1>5 DEF Placement

(* The main VM, which has not ended, asks or goes on.                      *)
LEMMA MainGoes ==
    ASSUME Placement, pc[Main].at \in {"setup", "ready", "host"}, ~Ended, NEW at, NEW call, NEW n,
           pc' = [pc EXCEPT ![Main] = At(at, call, n)], Fits(Main, at, call),
           at \in {"ready", "host"}, call \notin {"ConsumeResult", "NotifyFinished"},
           UNCHANGED <<conf, next, fate, outcome, report>>
    PROVE  Placement'
<1>1. /\ DOMAIN pc' = Vms /\ IsFun(pc') /\ pc'[Main].at = at /\ pc'[Main].call = call
      /\ \A x \in Vms \ {Main} : pc'[x] = pc[x]
      /\ \A x \in Vms : Placed(x)'
  BY VmFacts, Moved
<1>2. \A c \in Blocks : Off(c)' <=> Off(c)
  BY <1>1, VmFacts DEF Off
<1>3. ~Decided' /\ ~Reporting' /\ ~Reporting /\ pc'[Main].at \notin {"wait", "setup"}
  BY <1>1 DEF Decided, Reporting, Ended
<1>4. Leads' /\ Validates'
  BY <1>2, <1>3 DEF Leads, Validates, Placement
<1>5. Stages'
  BY <1>3 DEF Stages, Placement
<1> QED BY <1>1, <1>4, <1>5 DEF Placement

\* The VM can end of itself: a block that runs, or the main VM before its end.
Active(a) == IF a = Main THEN pc[a].at \in {"ready", "host"} /\ ~Reporting ELSE ~Off(a)

\* A VM is done, and may set the one free that waits for it.
Leaves(a) ==
  /\ pc'[a].at \notin {"host", "module", "prompt", "charge", "count"} /\ pc'[a].call = "" /\ pc'[a].n = 0
  /\ \A x \in Vms \ {a} :
       \/ pc'[x] = pc[x]
       \/ /\ x = Main /\ pc[x].at = "wait" /\ pc'[x].at \in {"ready", "await"}
          /\ pc'[x].call = "" /\ pc'[x].n = 0

LEMMA LeaderBlockEndsKeeps ==
    ASSUME Placement, NEW b \in Blocks, ~Off(b), NEW how, LeaderBlockEnds(b, how),
           conf.role = "leader", UNCHANGED conf
    PROVE  Placement' /\ Leaves(b)
<1>0. b \in Vms /\ b # Main /\ Main \in Vms
  BY VmFacts
<1> DEFINE main == IF how \in {"agree", "differ"} THEN "ready" ELSE "await"
<1>1. /\ pc' = [pc EXCEPT ![b] = At("off", "", 0), ![Main] = At(main, "", 0)]
      /\ main \in {"ready", "await"}
      /\ outcome' = outcome \/ main = "await"
  BY DEF LeaderBlockEnds
<1> HIDE DEF main
<1>2. /\ DOMAIN pc' = Vms /\ IsFun(pc') /\ pc'[b] = At("off", "", 0) /\ pc'[Main] = At(main, "", 0)
      /\ \A x \in Vms \ {b, Main} : pc'[x] = pc[x]
  BY <1>0, <1>1, ExceptIsFun DEF Placement
<1>3. /\ pc'[b].at = "off" /\ pc'[b].call = "" /\ pc'[b].n = 0
      /\ pc'[Main].at = main /\ pc'[Main].call = "" /\ pc'[Main].n = 0
      /\ pc'[b] = At(pc'[b].at, pc'[b].call, pc'[b].n)
      /\ pc'[Main] = At(pc'[Main].at, pc'[Main].call, pc'[Main].n)
  BY <1>2, IdleFields DEF Idle
<1>4. \A x \in Vms : Placed(x)'
  <2> TAKE x \in Vms
  <2>1. CASE x = Main
    <3>1. Fits(Main, main, "")
      BY <1>1 DEF Fits, PlacesOf
    <3> QED BY <1>3, <2>1, <3>1 DEF Placed, Fits, PlacesOf, AsksOf
  <2>2. CASE x = b
    BY <1>0, <1>3, <2>2 DEF Placed, Fits, PlacesOf, AsksOf
  <2>3. CASE x \notin {b, Main}
    BY <1>2, <2>3 DEF Placed, Fits, PlacesOf, AsksOf, Placement
  <2> QED BY <2>1, <2>2, <2>3
<1>5. pc[Main].at = "wait" /\ \A c \in Blocks \ {b} : Off(c)
  BY DEF Placement, Leads
<1>6. /\ next' = next /\ fate' = fate /\ report' = report
      /\ \A c \in Blocks : Off(c)' /\ fate[c] # "submitted"
  <2>1. next' = next /\ fate' = fate /\ report' = report
    BY DEF LeaderBlockEnds
  <2>2. \A c \in Blocks : fate[c] # "submitted"
    BY DEF Placement, Leads
  <2>3. ASSUME NEW c \in Blocks PROVE Off(c)'
    <3>1. CASE c = b
      BY <1>3, <3>1 DEF Off
    <3>2. CASE c # b
      <4>1. c \in Vms \ {b, Main} /\ Off(c)
        BY <1>5, <3>2, VmFacts
      <4> QED BY <1>2, <4>1 DEF Off
    <3> QED BY <3>1, <3>2
  <2> QED BY <2>1, <2>2, <2>3
<1>7. ~Ended /\ ~Reporting
  BY <1>5, <1>0 DEF Ended, Decided, Reporting, Placement, Placed, Fits
<1>8. Leads' /\ Validates'
  BY <1>6 DEF Leads, Validates
<1>9. Stages'
  BY <1>1, <1>3, <1>6, <1>7 DEF Stages, AllOff, Ended, Decided, Reporting, Placement
<1>10. Leaves(b)
  BY <1>1, <1>2, <1>3, <1>5 DEF Leaves
<1> QED BY <1>2, <1>4, <1>6, <1>8, <1>9, <1>10 DEF Placement

LEMMA ValidatorBlockEndsKeeps ==
    ASSUME Placement, NEW b \in Blocks, ~Off(b), NEW how, ValidatorBlockEnds(b, how),
           conf.role # "leader", UNCHANGED conf
    PROVE  Placement' /\ Leaves(b)
<1>0. b \in Vms /\ b # Main /\ Main \in Vms
  BY VmFacts
<1>1. /\ Goto(b, "off")
      /\ next' = next /\ outcome' = outcome /\ report' = report
      /\ \E f \in {"agreed", "disagreed", "failed"} : fate' = [fate EXCEPT ![b] = f]
  BY DEF ValidatorBlockEnds, Queue!Settle
<1>2. Fits(b, "off", "")
  BY <1>0 DEF Fits, PlacesOf
<1>3. /\ DOMAIN pc' = Vms /\ IsFun(pc') /\ pc'[b].at = "off" /\ pc'[b].call = "" /\ pc'[b].n = 0
      /\ \A x \in Vms \ {b} : pc'[x] = pc[x]
      /\ \A x \in Vms : Placed(x)'
  BY <1>0, <1>1, <1>2, MovedIdle
<1>4. /\ DOMAIN fate' = Blocks /\ fate'[b] # "submitted"
      /\ \A c \in Blocks \ {b} : fate'[c] = fate[c]
  BY <1>1 DEF Placement
<1>5. pc'[Main] = pc[Main] /\ Off(b)' /\ \A c \in Blocks \ {b} : Off(c)' <=> Off(c)
  BY <1>0, <1>3, VmFacts DEF Off
<1>6. Leads' /\ Validates'
  BY <1>4, <1>5 DEF Leads, Validates, Placement
<1>7. Stages'
  BY <1>1, <1>4, <1>5 DEF Stages, AllOff, Ended, Decided, Reporting, Placement
<1>8. Leaves(b)
  BY <1>3 DEF Leaves
<1> QED BY <1>1, <1>3, <1>4, <1>6, <1>7, <1>8 DEF Placement

LEMMA BlockEndsKeeps ==
    ASSUME Placement, NEW b \in Blocks, ~Off(b), NEW how, BlockEnds(b, how), UNCHANGED conf
    PROVE  Placement' /\ Leaves(b)
BY LeaderBlockEndsKeeps, ValidatorBlockEndsKeeps DEF BlockEnds

LEMMA MainEndsKeeps ==
    ASSUME Placement, Active(Main), NEW how, MainEnds(how), UNCHANGED conf
    PROVE  Placement' /\ Leaves(Main)
<1>1. Goto(Main, "await") /\ Fits(Main, "await", "") /\ UNCHANGED <<next, fate, report>>
  BY DEF MainEnds, Fits, PlacesOf
<1>2. /\ DOMAIN pc' = Vms /\ IsFun(pc') /\ pc'[Main].at = "await" /\ pc'[Main].call = "" /\ pc'[Main].n = 0
      /\ \A x \in Vms \ {Main} : pc'[x] = pc[x]
      /\ \A x \in Vms : Placed(x)'
  BY <1>1, MovedIdle, VmFacts
<1>3. \A c \in Blocks : Off(c)' <=> Off(c)
  BY <1>2, VmFacts DEF Off
<1>4. pc[Main].at # "wait" /\ ~Reporting
  BY DEF Active
<1>5. Leads' /\ Validates'
  BY <1>1, <1>2, <1>3, <1>4 DEF Leads, Validates, Placement
<1>6. Stages'
  BY <1>1, <1>2, <1>4 DEF Stages, Ended, Decided, Reporting, Placement
<1>7. Leaves(Main)
  BY <1>2 DEF Leaves
<1> QED BY <1>1, <1>2, <1>5, <1>6, <1>7 DEF Placement

(* However a VM ends, it is placed where its end is dealt with.            *)
LEMMA EndKeeps ==
    ASSUME Placement, NEW a \in Vms, Active(a), VmError(a) \/ InternalError(a), UNCHANGED conf
    PROVE  Placement' /\ Leaves(a)
<1>1. CASE a = Main
  BY <1>1, MainEndsKeeps DEF VmError, InternalError
<1>2. CASE a # Main
  BY <1>2, VmFacts, BlockEndsKeeps DEF VmError, InternalError, Active
<1> QED BY <1>1, <1>2

LEMMA StayKeeps ==
    ASSUME Placement, UNCHANGED <<conf, pc, next, fate, outcome, report>>
    PROVE  Placement'
<1>1. \A a \in Vms : Placed(a)'
  BY DEF Placement, Placed, Fits, PlacesOf, AsksOf
<1>2. Leads' /\ Validates' /\ Stages'
  BY DEF Placement, Leads, Validates, Stages, AllOff, Off, Ended, Decided, Reporting
<1> QED BY <1>1, <1>2 DEF Placement

LEMMA ReadyActive ==
    ASSUME Placement, NEW a \in Vms,
           \/ pc[a].at \in {"ready", "prompt", "module", "charge", "count"}
           \/ pc[a].at = "host" /\ pc[a].call \notin {"ConsumeResult", "NotifyFinished"}
    PROVE  Active(a)
<1>1. Fits(a, pc[a].at, pc[a].call)
  BY DEF Placement, Placed
<1>2. CASE a = Main
  BY <1>1, <1>2 DEF Active, Reporting, Fits, PlacesOf
<1>3. CASE a # Main
  BY <1>3 DEF Active, Off
<1> QED BY <1>2, <1>3

(* A VM asks, or goes on with what it does.                                *)
LEMMA VmGoes ==
    ASSUME Placement, NEW a \in Vms, Active(a), NEW at, NEW call, NEW n,
           pc' = [pc EXCEPT ![a] = At(at, call, n)], Fits(a, at, call),
           at \in {"ready", "host", "module", "prompt", "charge", "count"},
           call \notin {"ConsumeResult", "NotifyFinished"},
           UNCHANGED <<conf, next, fate, outcome, report>>
    PROVE  Placement'
<1>1. CASE a = Main
  <2>1. pc[Main].at \in {"ready", "host"} /\ ~Ended
    BY <1>1 DEF Active, Ended, Decided
  <2>2. at \in {"ready", "host"}
    BY <1>1 DEF Fits, PlacesOf
  <2>3. pc' = [pc EXCEPT ![Main] = At(at, call, n)] /\ Fits(Main, at, call)
    BY <1>1
  <2>4. pc[Main].at \in {"setup", "ready", "host"}
    BY <2>1
  <2> QED BY ONLY Placement, <2>1, <2>2, <2>3, <2>4, MainGoes,
                  call \notin {"ConsumeResult", "NotifyFinished"},
                  UNCHANGED <<conf, next, fate, outcome, report>>
<1>2. CASE a # Main
  <2>1. a \in Blocks /\ ~Off(a) /\ at # "off"
    BY <1>2, VmFacts DEF Active
  <2> QED BY <2>1, BlockGoes
<1> QED BY <1>1, <1>2

LEMMA VmGoesOn ==
    ASSUME Placement, NEW a \in Vms, Active(a), Goto(a, "ready"),
           UNCHANGED <<conf, next, fate, outcome, report>>
    PROVE  Placement'
<1>1. PICK n : n = 0 /\ pc' = [pc EXCEPT ![a] = At("ready", "", n)]
  BY DEF Goto
<1>2. Fits(a, "ready", "")
  BY DEF Fits, PlacesOf
<1>3. PICK at : at = "ready"
  OBVIOUS
<1>4. PICK call : call = ""
  OBVIOUS
<1>5. pc' = [pc EXCEPT ![a] = At(at, call, n)] /\ Fits(a, at, call)
  BY <1>1, <1>2, <1>3, <1>4
<1>6. at \in {"ready", "host", "module", "prompt", "charge", "count"}
      /\ call \notin {"ConsumeResult", "NotifyFinished"}
  BY <1>3, <1>4
<1> QED BY ONLY Placement, a \in Vms, Active(a), <1>5, <1>6, VmGoes,
                UNCHANGED <<conf, next, fate, outcome, report>>

LEMMA AskPlaces ==
    ASSUME Placement, NEW a \in Vms, Ready(a), NEW method, NEW n, AskOrFail(a, method, n),
           method \in AsksOf(a) \ {"ConsumeResult", "NotifyFinished"}, UNCHANGED conf
    PROVE  Placement'
<1>1. Active(a)
  BY ReadyActive DEF Ready
<1>2. CASE Ask(a, method, n) /\ UNCHANGED queueVars
  <2>1. PICK at : at = "host"
    OBVIOUS
  <2>2. /\ pc' = [pc EXCEPT ![a] = At(at, method, n)]
        /\ UNCHANGED <<conf, next, fate, outcome, report>>
    BY <1>2, <2>1 DEF Ask, queueVars
  <2>3. /\ Fits(a, at, method) /\ at \in {"ready", "host", "module", "prompt", "charge", "count"}
        /\ method \notin {"ConsumeResult", "NotifyFinished"}
    BY <2>1 DEF Fits, PlacesOf
  <2> QED BY ONLY Placement, a \in Vms, <1>1, <2>2, <2>3, VmGoes
<1>3. CASE InternalError(a)
  BY <1>1, <1>3, EndKeeps
<1> QED BY <1>2, <1>3 DEF AskOrFail

LEMMA CallsPlaces ==
    ASSUME Placement, NEW a \in Vms,
           \/ Query(a) \/ (\E n \in Int : get_balance(a, n))
           \/ a \in Blocks /\ ExecPrompt(a)
           \/ \E slot \in Slots : storage_write(slot)
    PROVE  Placement'
<1>1. CASE Query(a)
  <2>1. PICK method \in {"StorageRead"} \cup IF a = Main THEN {"EthCall"} ELSE {} : AskOrFail(a, method, 0)
    BY <1>1 DEF Query
  <2>2. method \in AsksOf(a) \ {"ConsumeResult", "NotifyFinished"} /\ Ready(a) /\ UNCHANGED conf
    BY <1>1, <2>1 DEF AsksOf, Query, MayCall
  <2>3. PICK n : AskOrFail(a, method, n)
    BY <2>1
  <2> QED BY ONLY Placement, a \in Vms, <2>2, <2>3, AskPlaces
<1>2. CASE \E n \in Int : get_balance(a, n)
  <2>1. PICK n \in Int : get_balance(a, n)
    BY <1>2
  <2>2. Ready(a) /\ UNCHANGED conf
    BY <2>1 DEF get_balance, MayCall
  <2>3. CASE AskOrFail(a, "GetBalance", n)
    <3>1. PICK method : method = "GetBalance" /\ AskOrFail(a, method, n)
      BY <2>3
    <3>2. method \in AsksOf(a) \ {"ConsumeResult", "NotifyFinished"}
      BY <3>1 DEF AsksOf
    <3> QED BY ONLY Placement, a \in Vms, <2>2, <3>1, <3>2, AskPlaces
  <2>4. CASE UNCHANGED <<pc, queueVars>>
    BY <2>2, <2>4, StayKeeps DEF queueVars
  <2> QED BY <2>1, <2>3, <2>4 DEF get_balance
<1>3. CASE a \in Blocks /\ ExecPrompt(a)
  <2>1. PICK method, n : method = "RemainingFuelAsGen" /\ AskOrFail(a, method, n)
    BY <1>3 DEF ExecPrompt
  <2>2. method \in AsksOf(a) \ {"ConsumeResult", "NotifyFinished"} /\ Ready(a) /\ UNCHANGED conf
    BY <1>3, <2>1, VmFacts DEF AsksOf, ExecPrompt, MayCall
  <2> QED BY ONLY Placement, a \in Vms, <2>1, <2>2, AskPlaces
<1>4. CASE \E slot \in Slots : storage_write(slot)
  BY <1>4, StayKeeps DEF storage_write, queueVars
<1> QED BY <1>1, <1>2, <1>3, <1>4

LEMMA ModulePlaces ==
    ASSUME Placement, NEW b \in Blocks, WebRequest(b) \/ Prompt(b) \/ ModuleReplies(b)
    PROVE  Placement'
<1>0. b \in Vms /\ UNCHANGED conf
  BY VmFacts DEF WebRequest, Prompt, ModuleReplies
<1>1. Active(b)
  <2>1. pc[b].at \in {"ready", "prompt", "module"}
    BY DEF WebRequest, Prompt, ModuleReplies, MayCall, Ready, Replied, NoReply
  <2> QED BY <1>0, <2>1, ReadyActive
<1>2. ASSUME NEW m \in Modules, NEW n, Send(b, m, n), UNCHANGED queueVars
      PROVE  Placement'
  <2>1. PICK at : at = "module"
    OBVIOUS
  <2>2. /\ pc' = [pc EXCEPT ![b] = At(at, m, n)] /\ UNCHANGED <<conf, next, fate, outcome, report>>
    BY <1>0, <1>2, <2>1 DEF Send, queueVars
  <2>3. /\ Fits(b, at, m) /\ at \in {"ready", "host", "module", "prompt", "charge", "count"}
        /\ m \notin {"ConsumeResult", "NotifyFinished"}
    BY <2>1, VmFacts DEF Fits, PlacesOf, Modules
  <2> QED BY ONLY Placement, <1>0, <1>1, <2>2, <2>3, VmGoes
<1>3. CASE InternalError(b)
  BY <1>0, <1>1, <1>3, EndKeeps
<1>4. CASE WebRequest(b)
  <2>1. "web" \in Modules
    BY DEF Modules
  <2>2. ASSUME Send(b, "web", 0), UNCHANGED queueVars PROVE Placement'
    <3>1. PICK m, n : m = "web" /\ Send(b, m, n)
      BY <2>2
    <3>2. m \in Modules
      BY <2>1, <3>1
    <3> QED BY ONLY <1>2, <2>2, <3>1, <3>2
  <2> QED BY <1>3, <1>4, <2>2 DEF WebRequest
<1>5. CASE Prompt(b)
  <2>1. "llm" \in Modules
    BY DEF Modules
  <2>2. ASSUME Send(b, "llm", pc[b].n), UNCHANGED queueVars PROVE Placement'
    <3>1. PICK m, n : m = "llm" /\ Send(b, m, n)
      BY <2>2
    <3>2. m \in Modules
      BY <2>1, <3>1
    <3> QED BY ONLY <1>2, <2>2, <3>1, <3>2
  <2> QED BY <1>3, <1>5, <2>2 DEF Prompt
<1>6. CASE ModuleReplies(b)
  <2>1. CASE \E n : pc' = [pc EXCEPT ![b] = At("charge", "", n)] /\ UNCHANGED queueVars
    <3>1. PICK at, call, n : at = "charge" /\ call = "" /\ pc' = [pc EXCEPT ![b] = At(at, call, n)]
      BY <2>1
    <3>2. /\ Fits(b, at, call) /\ at \in {"ready", "host", "module", "prompt", "charge", "count"}
          /\ call \notin {"ConsumeResult", "NotifyFinished"}
      BY <3>1, VmFacts DEF Fits, PlacesOf
    <3>3. UNCHANGED <<conf, next, fate, outcome, report>>
      BY <1>0, <2>1 DEF queueVars
    <3> QED BY ONLY Placement, <1>0, <1>1, <3>1, <3>2, <3>3, VmGoes
  <2>2. CASE Goto(b, "ready") /\ UNCHANGED queueVars
    BY <1>0, <1>1, <2>2, VmGoesOn DEF queueVars
  <2> QED BY <1>3, <1>6, <2>1, <2>2 DEF ModuleReplies
<1> QED BY <1>4, <1>5, <1>6

LEMMA ChargePlaces ==
    ASSUME Placement, NEW b \in Blocks, ConsumeFuel(b) \/ CountConsumption(b)
    PROVE  Placement'
<1>0. b \in Vms /\ UNCHANGED conf
  BY VmFacts DEF ConsumeFuel, CountConsumption
<1>1. Active(b)
  <2>1. pc[b].at \in {"charge", "count"}
    BY DEF ConsumeFuel, CountConsumption
  <2> QED BY <1>0, <2>1, ReadyActive
<1>2. CASE VmError(b) \/ InternalError(b)
  BY <1>0, <1>1, <1>2, EndKeeps
<1>3. CASE Goto(b, "ready") /\ UNCHANGED queueVars
  BY <1>0, <1>1, <1>3, VmGoesOn DEF queueVars
<1>4. CASE \E n : pc' = [pc EXCEPT ![b] = At("count", "", n)] /\ UNCHANGED queueVars
  <2>1. PICK at, call, n : at = "count" /\ call = "" /\ pc' = [pc EXCEPT ![b] = At(at, call, n)]
    BY <1>4
  <2>2. /\ Fits(b, at, call) /\ at \in {"ready", "host", "module", "prompt", "charge", "count"}
        /\ call \notin {"ConsumeResult", "NotifyFinished"}
    BY <2>1, VmFacts DEF Fits, PlacesOf
  <2>3. UNCHANGED <<conf, next, fate, outcome, report>>
    BY <1>0, <1>4 DEF queueVars
  <2> QED BY ONLY Placement, <1>0, <1>1, <2>1, <2>2, <2>3, VmGoes
<1> QED BY <1>2, <1>3, <1>4 DEF ConsumeFuel, CountConsumption

LEMMA HearsPlaces ==
    ASSUME Placement, NEW a \in Vms, VmHears(a) \/ VmEnds(a)
    PROVE  Placement'
<1>0. UNCHANGED conf
  BY DEF VmHears, VmEnds
<1>1. Active(a)
  <2>1. \/ pc[a].at \in {"ready", "prompt", "module", "charge", "count"}
        \/ pc[a].at = "host" /\ pc[a].call \notin {"ConsumeResult", "NotifyFinished"}
    BY DEF VmHears, VmEnds, Answered, ReadFails, Ready
  <2> QED BY <2>1, ReadyActive
<1>2. CASE VmError(a) \/ InternalError(a)
  BY <1>0, <1>1, <1>2, EndKeeps
<1>3. CASE Goto(a, "ready") /\ UNCHANGED queueVars
  BY <1>0, <1>1, <1>3, VmGoesOn DEF queueVars
<1>4. CASE \E n : /\ pc' = [pc EXCEPT ![a] = At("prompt", "", n)] /\ UNCHANGED queueVars
                  /\ pc[a].at = "host" /\ pc[a].call = "RemainingFuelAsGen"
  <2>1. PICK at, call, n : at = "prompt" /\ call = "" /\ pc' = [pc EXCEPT ![a] = At(at, call, n)]
    BY <1>4
  <2>2. Fits(a, pc[a].at, pc[a].call)
    BY DEF Placement, Placed
  <2>3. /\ Fits(a, at, call) /\ at \in {"ready", "host", "module", "prompt", "charge", "count"}
        /\ call \notin {"ConsumeResult", "NotifyFinished"}
    BY <1>4, <2>1, <2>2, VmFacts DEF Fits, PlacesOf, AsksOf
  <2>4. UNCHANGED <<conf, next, fate, outcome, report>>
    BY <1>0, <1>4 DEF queueVars
  <2> QED BY ONLY Placement, a \in Vms, <1>1, <2>1, <2>3, <2>4, VmGoes
<1>5. CASE VmEnds(a)
  <2>1. CASE a = Main
    BY <1>0, <1>1, <1>5, <2>1, MainEndsKeeps DEF VmEnds
  <2>2. CASE a # Main
    <3>1. a \in Blocks /\ ~Off(a)
      BY <1>1, <2>2, VmFacts DEF Active
    <3>2. PICK how : BlockEnds(a, how)
      BY <1>5, <2>2 DEF VmEnds
    <3> QED BY <1>0, <3>1, <3>2, BlockEndsKeeps
  <2> QED BY <2>1, <2>2
<1>6. CASE VmHears(a)
  BY <1>2, <1>3, <1>4, <1>6 DEF VmHears, Answered
<1> QED BY <1>5, <1>6

LEMMA RunNondetPlaces == ASSUME Placement, RunNondet PROVE Placement'
<1>0. /\ Main \in Vms /\ next \in Nat /\ next' = next + 1 /\ next \in Blocks /\ next \in Vms /\ next # Main
      /\ conf' = conf /\ report' = report /\ pc[Main].at = "ready" /\ DOMAIN pc = Vms /\ IsFun(pc)
  BY VmFacts DEF RunNondet, Placement, MayCall, Ready
<1>1. /\ Active(Main) /\ ~Ended /\ ~Reporting /\ ~Decided
  BY <1>0, ReadyActive DEF Active, Ended, Decided
<1>2. next' \in Nat
  BY <1>0
<1>3. CASE conf.role = "leader" /\ pc' = [pc EXCEPT ![Main] = At("wait", "", 0), ![next] = At("ready", "", 0)]
           /\ UNCHANGED <<fate, verdict, outcome>>
  <2>1. /\ DOMAIN pc' = Vms /\ IsFun(pc') /\ pc'[Main] = At("wait", "", 0) /\ pc'[next] = At("ready", "", 0)
        /\ \A x \in Vms \ {Main, next} : pc'[x] = pc[x]
    BY <1>0, <1>3, ExceptIsFun
  <2>2. Idle(pc'[Main], "wait") /\ Idle(pc'[next], "ready")
    BY <2>1, IdleFields
  <2>3. ASSUME NEW x \in Vms PROVE Placed(x)'
    <3>1. CASE x = Main
      BY <2>2, <3>1 DEF Placed, Fits, PlacesOf, AsksOf, Idle
    <3>2. CASE x = next
      BY <1>0, <2>2, <3>2 DEF Placed, Fits, PlacesOf, AsksOf, Idle
    <3>3. CASE x \notin {Main, next}
      BY <2>1, <3>3 DEF Placed, Fits, PlacesOf, AsksOf, Placement
    <3> QED BY <3>1, <3>2, <3>3
  <2>4. \A b \in Blocks : Off(b) /\ fate'[b] # "submitted" /\ (b # next => Off(b)')
    BY <1>0, <1>3, <2>1, VmFacts DEF Placement, Leads, Off
  <2>5. Leads' /\ Validates'
    <3>1. conf'.role = "leader" /\ pc'[Main].at = "wait"
      BY <1>0, <1>3, <2>2 DEF Idle
    <3>2. \A b \in Blocks : b # next => Off(b)'
      BY <2>4
    <3>3. ASSUME NEW b \in Blocks, ~Off(b)' PROVE \A c \in Blocks \ {b} : Off(c)'
      BY <3>2, <3>3
    <3>4. Leads'
      BY <2>4, <3>1, <3>3 DEF Leads
    <3> QED BY <3>1, <3>4 DEF Validates
  <2>6. Stages'
    BY <1>0, <1>1, <1>3, <2>2 DEF Stages, Placement, Idle, Reporting, Decided, Ended
  <2> QED BY <1>2, <1>3, <2>1, <2>3, <2>5, <2>6 DEF Placement
<1>4. CASE /\ Goto(Main, "await")
           /\ conf.role # "leader" /\ DOMAIN fate' = Blocks
           /\ \A b \in Blocks : ~Off(b) => fate'[b] = fate[b]
  <2>1. Fits(Main, "await", "")
    BY DEF Fits, PlacesOf
  <2>2. /\ DOMAIN pc' = Vms /\ IsFun(pc') /\ pc'[Main].at = "await" /\ pc'[Main].call = ""
        /\ \A x \in Vms \ {Main} : pc'[x] = pc[x]
        /\ \A x \in Vms : Placed(x)'
    BY <1>0, <1>4, <2>1, MovedIdle
  <2>3. \A b \in Blocks : Off(b)' <=> Off(b)
    BY <2>2, VmFacts DEF Off
  <2>4. Leads' /\ Validates'
    BY <1>0, <1>4, <2>2, <2>3 DEF Leads, Validates, Placement
  <2>5. Stages'
    BY <1>0, <1>1, <2>2 DEF Stages, Placement, Reporting, Decided, Ended
  <2> QED BY <1>2, <1>4, <2>2, <2>4, <2>5 DEF Placement
<1>5. CASE conf.role = "validator" /\ Queue!Submit(next)
           /\ IF fate'[next] = "submitted" THEN UNCHANGED <<pc, outcome>> ELSE Goto(Main, "await") /\ outcome' = "ok"
  <2>1. fate[next] = "unused" /\ \E f : fate' = [fate EXCEPT ![next] = f]
    BY <1>5 DEF Queue!Submit
  <2>2. DOMAIN fate' = Blocks /\ \A b \in Blocks \ {next} : fate'[b] = fate[b]
    BY <2>1 DEF Placement
  <2>3. Off(next)
    BY <1>0, <1>5, <2>1 DEF Placement, Validates
  <2>4. conf.role # "leader" /\ \A b \in Blocks : ~Off(b) => fate'[b] = fate[b]
    BY <1>5, <2>2, <2>3
  <2>5. CASE UNCHANGED <<pc, outcome>>
    <3>1. \A a \in Vms : Placed(a)'
      BY <2>5 DEF Placement, Placed, Fits, PlacesOf, AsksOf
    <3>2. Leads' /\ Validates'
      BY <1>0, <2>4, <2>5 DEF Placement, Leads, Validates, Off
    <3>3. Stages'
      BY <1>0, <1>1, <2>5 DEF Placement, Stages, Ended, Decided, Reporting
    <3> QED BY <1>2, <2>2, <2>5, <3>1, <3>2, <3>3 DEF Placement
  <2>6. CASE Goto(Main, "await")
    BY <1>4, <2>2, <2>4, <2>6
  <2> QED BY <1>5, <2>5, <2>6
<1>6. CASE conf.role = "validator" /\ Goto(Main, "await") /\ UNCHANGED fate
  BY <1>4, <1>6 DEF Placement
<1> QED BY <1>3, <1>5, <1>6 DEF RunNondet

LEMMA TakeBlockPlaces == ASSUME Placement, NEW b \in Blocks, TakeBlock(b) PROVE Placement'
<1>0. /\ b \in Vms /\ b # Main /\ Main \in Vms /\ fate[b] = "submitted" /\ Off(b)
      /\ conf' = conf /\ UNCHANGED <<next, outcome, report>>
  BY VmFacts DEF TakeBlock, Off, queueVars
<1>1. conf.role # "leader" /\ ~Decided /\ pc[Main].at # "setup"
  BY <1>0 DEF Placement, Leads, Stages, AllOff
<1>2. CASE Goto(b, "ready") /\ UNCHANGED queueVars
  <2>1. Fits(b, "ready", "")
    BY <1>0 DEF Fits, PlacesOf
  <2>2. /\ DOMAIN pc' = Vms /\ IsFun(pc') /\ pc'[b].at = "ready" /\ pc'[b].call = ""
        /\ \A x \in Vms \ {b} : pc'[x] = pc[x]
        /\ \A x \in Vms : Placed(x)'
    BY <1>0, <1>2, <2>1, MovedIdle
  <2>3. fate' = fate /\ pc'[Main] = pc[Main] /\ \A c \in Blocks \ {b} : Off(c)' <=> Off(c)
    BY <1>0, <1>2, <2>2, VmFacts DEF Off, queueVars
  <2>4. Leads' /\ Validates'
    BY <1>0, <1>1, <2>3 DEF Leads, Validates, Placement
  <2>5. Stages'
    BY <1>0, <1>1, <2>3 DEF Stages, Placement, Reporting, Decided, Ended
  <2> QED BY <1>0, <2>2, <2>3, <2>4, <2>5 DEF Placement
<1>3. CASE Queue!Skip(b) /\ pc' = pc
  <2>1. fate' = [fate EXCEPT ![b] = "skipped"]
    BY <1>3 DEF Queue!Skip
  <2>2. DOMAIN fate' = Blocks /\ fate'[b] = "skipped" /\ \A c \in Blocks \ {b} : fate'[c] = fate[c]
    BY <2>1 DEF Placement
  <2>3. \A a \in Vms : Placed(a)'
    BY <1>3 DEF Placement, Placed, Fits, PlacesOf, AsksOf
  <2>4. Leads' /\ Validates'
    BY <1>0, <1>1, <1>3, <2>2 DEF Leads, Validates, Placement, Off
  <2>5. Stages'
    BY <1>0, <1>1, <1>3 DEF Stages, Placement, Reporting, Decided, Ended
  <2> QED BY <1>0, <1>3, <2>2, <2>3, <2>4, <2>5 DEF Placement
<1> QED BY <1>2, <1>3 DEF TakeBlock

(* The main VM is past its blocks, which are all off.                      *)
LEMMA MainReports ==
    ASSUME Placement, AllOff, NEW at, NEW call, NEW n,
           pc' = [pc EXCEPT ![Main] = At(at, call, n)], Fits(Main, at, call),
           at \notin {"setup", "wait"}, outcome' # "none" => Ended', report' # <<>> => Reporting',
           UNCHANGED <<conf, next, fate>>
    PROVE  Placement'
<1>1. /\ DOMAIN pc' = Vms /\ IsFun(pc') /\ pc'[Main].at = at /\ pc'[Main].call = call
      /\ \A x \in Vms \ {Main} : pc'[x] = pc[x]
      /\ \A x \in Vms : Placed(x)'
  BY VmFacts, Moved
<1>2. AllOff' /\ \A c \in Blocks : Off(c)' /\ fate'[c] # "submitted"
  BY <1>1, VmFacts DEF AllOff, Off
<1>3. Leads' /\ Validates' /\ Stages'
  BY <1>1, <1>2 DEF Leads, Validates, Stages
<1> QED BY <1>1, <1>3 DEF Placement

LEMMA MainMoves ==
    ASSUME Placement, AllOff, NEW at, Goto(Main, at),
           at \in {"await", "notify", "report", "finish", "exit"},
           report' # <<>> => at \in {"finish", "exit"},
           UNCHANGED <<conf, next, fate>>
    PROVE  Placement'
<1>1. PICK call, n : call = "" /\ n = 0 /\ pc' = [pc EXCEPT ![Main] = At(at, call, n)]
  BY DEF Goto
<1>2. Fits(Main, at, call) /\ at \notin {"setup", "wait"}
  BY <1>1 DEF Fits, PlacesOf
<1>3. pc'[Main].at = at
  BY MovedIdle, VmFacts
<1>4. Ended' /\ (report' # <<>> => Reporting')
  BY <1>3 DEF Ended, Decided, Reporting
<1>5. pc' = [pc EXCEPT ![Main] = At(at, call, n)]
  BY <1>1
<1> QED BY ONLY Placement, AllOff, <1>2, <1>4, <1>5, MainReports, UNCHANGED <<conf, next, fate>>

LEMMA RunPlaces == ASSUME Placement, RunStep PROVE Placement'
<1>1. CASE Setup
  <2>1. pc[Main].at = "setup" /\ AllOff /\ outcome = "none" /\ report = <<>> /\ pc[Main].call = ""
        /\ UNCHANGED <<conf, next, fate, report>>
    BY <1>1, VmFacts DEF Setup, Placement, Stages, Ended, Decided, Reporting, Placed, Fits
  <2>2. CASE Goto(Main, "report") \/ Goto(Main, "exit")
    <3>1. PICK at \in {"report", "exit"} : Goto(Main, at)
      BY <2>2
    <3> QED BY <2>1, <3>1, MainMoves
  <2>3. CASE Goto(Main, "ready") /\ UNCHANGED outcome
    <3>1. PICK at, call, n : at = "ready" /\ call = "" /\ pc' = [pc EXCEPT ![Main] = At(at, call, n)]
      BY <2>3 DEF Goto
    <3>2. Fits(Main, at, call) /\ at \notin {"setup", "wait"}
      BY <3>1 DEF Fits, PlacesOf
    <3>3. outcome' = "none" /\ report' = <<>>
      BY <2>1, <2>3
    <3> QED BY <2>1, <3>1, <3>2, <3>3, MainReports
  <2> QED BY <1>1, <2>2, <2>3 DEF Setup
<1>2. CASE AwaitNondetVms
  <2>1. pc[Main].at = "await" /\ UNCHANGED <<conf, next, fate, report>> /\ report = <<>>
        /\ \A c \in Blocks : fate[c] # "submitted"
    BY <1>2, VmFacts DEF AwaitNondetVms, Placement, Stages, Reporting, Placed, Fits, Queue!Decide
  <2>2. AllOff
    BY <2>1 DEF AllOff, Off, Placement, Leads, Validates
  <2>3. PICK at \in {"notify", "report"} : Goto(Main, at)
    BY <1>2 DEF AwaitNondetVms
  <2> QED BY <2>1, <2>2, <2>3, MainMoves
<1>3. CASE NotifyDisagreement
  <2>1. pc[Main].at = "notify" /\ UNCHANGED <<conf, next, fate, report>> /\ report = <<>> /\ AllOff
    BY <1>3, VmFacts DEF NotifyDisagreement, Placement, Stages, Decided, Reporting, Placed, Fits, queueVars
  <2>2. PICK at \in {"report", "exit"} : Goto(Main, at)
    BY <1>3 DEF NotifyDisagreement, Abandon
  <2> QED BY <2>1, <2>2, MainMoves
<1>4. CASE ConsumeResult
  <2>1. pc[Main].at = "report" /\ UNCHANGED <<conf, next, fate>> /\ AllOff
    BY <1>4 DEF ConsumeResult, Placement, Stages, Decided
  <2>2. CASE Ask(Main, "ConsumeResult", 0)
    <3>1. PICK at, call, n : at = "host" /\ call = "ConsumeResult" /\ pc' = [pc EXCEPT ![Main] = At(at, call, n)]
      BY <2>2 DEF Ask
    <3>2. Fits(Main, at, call) /\ at \notin {"setup", "wait"}
      BY <3>1 DEF Fits, PlacesOf, AsksOf
    <3>3. pc'[Main].call = "ConsumeResult"
      <4>1. Main \in Vms /\ pc' = [pc EXCEPT ![Main] = At(at, call, n)]
        BY <3>1, VmFacts
      <4>2. pc'[Main].call = call
        BY <4>1, AtFields DEF Placement
      <4> QED BY <3>1, <4>2
    <3>4. Reporting' /\ Ended'
      BY <3>3 DEF Reporting, Ended, Decided
    <3> QED BY <2>1, <3>1, <3>2, <3>4, MainReports
  <2>3. CASE Goto(Main, "exit")
    BY <2>1, <2>3, MainMoves
  <2> QED BY <1>4, <2>2, <2>3 DEF ConsumeResult, Abandon
<1>5. CASE NotifyFinished
  <2>1. pc[Main].at = "finish" /\ UNCHANGED <<conf, next, fate>> /\ AllOff
    BY <1>5 DEF NotifyFinished, Placement, Stages, Decided, Reporting, queueVars
  <2>2. CASE Ask(Main, "NotifyFinished", 0)
    <3>1. PICK at, call, n : at = "host" /\ call = "NotifyFinished" /\ pc' = [pc EXCEPT ![Main] = At(at, call, n)]
      BY <2>2 DEF Ask
    <3>2. Fits(Main, at, call) /\ at \notin {"setup", "wait"}
      BY <3>1 DEF Fits, PlacesOf, AsksOf
    <3>3. pc'[Main].call = "NotifyFinished"
      <4>1. Main \in Vms /\ pc' = [pc EXCEPT ![Main] = At(at, call, n)]
        BY <3>1, VmFacts
      <4>2. pc'[Main].call = call
        BY <4>1, AtFields DEF Placement
      <4> QED BY <3>1, <4>2
    <3>4. Reporting' /\ Ended'
      BY <3>3 DEF Reporting, Ended, Decided
    <3> QED BY <2>1, <3>1, <3>2, <3>4, MainReports
  <2>3. CASE Goto(Main, "exit")
    BY <2>1, <2>3, MainMoves
  <2> QED BY <1>5, <2>2, <2>3 DEF NotifyFinished, Abandon
<1>6. CASE Acknowledged
  <2>1. UNCHANGED <<conf, next, fate>> /\ AllOff
    BY <1>6 DEF Acknowledged, Placement, Stages, Decided, Reporting, queueVars
  <2>2. PICK at \in {"finish", "exit"} : Goto(Main, at)
    BY <1>6 DEF Acknowledged, Abandon
  <2> QED BY <2>1, <2>2, MainMoves
<1> QED BY <1>1, <1>2, <1>3, <1>4, <1>5, <1>6 DEF RunStep

LEMMA InitPlaces == ASSUME Init PROVE Placement
<1>1. /\ DOMAIN pc = Vms /\ IsFun(pc) /\ DOMAIN fate = Blocks /\ next = 0 /\ outcome = "none" /\ report = <<>>
      /\ \A b \in Blocks : fate[b] = "unused"
  <2>1. pc = [a \in Vms |-> At(IF a = Main THEN "setup" ELSE "off", "", 0)]
    BY DEF Init
  <2>2. DOMAIN pc = Vms /\ IsFun(pc)
    BY <2>1 DEF IsFun
  <2> QED BY <2>2, VmFacts DEF Init, Queue!Init
<1>2. \A a \in Vms : Idle(pc[a], IF a = Main THEN "setup" ELSE "off")
  BY IdleFields DEF Init
<1>3. \A a \in Vms : Placed(a)
  BY <1>2 DEF Placed, Fits, PlacesOf, Idle
<1>4. \A b \in Blocks : Off(b)
  BY <1>2, VmFacts DEF Off, Idle
<1>5. pc[Main].at = "setup" /\ pc[Main].call = ""
  BY <1>2, VmFacts DEF Idle
<1>6. Leads /\ Validates /\ Stages
  BY <1>1, <1>4, <1>5 DEF Leads, Validates, Stages, AllOff, Decided, Reporting
<1> QED BY <1>1, <1>3, <1>6 DEF Placement

(* A step is one of a VM, of the run, of a host or of a module.            *)
LEMMA Steps ==
    ASSUME Next
    PROVE  \/ \E a \in Vms : \/ Query(a) \/ VmHears(a) \/ VmEnds(a)
                             \/ \E n \in {-1, 0} \cup Values : get_balance(a, n) /\ (a = Main \/ n = -1)
           \/ RunNondet \/ (\E slot \in Slots : storage_write(slot)) \/ RunStep
           \/ \E b \in Blocks : \/ WebRequest(b) \/ ExecPrompt(b) \/ Prompt(b) \/ ModuleReplies(b)
                                \/ ConsumeFuel(b) \/ CountConsumption(b) \/ TakeBlock(b)
           \/ \E h \in Hosts : HostHandles(h) \/ HostCloses(h)
           \/ \E m \in Modules : ModuleAnswers(m) \/ ModuleCloses(m)
<1>1. CASE MainStep
  BY <1>1, VmFacts DEF MainStep, VmStep
<1>2. CASE \E b \in Blocks : BlockStep(b)
  <2>1. PICK b \in Blocks : BlockStep(b)
    BY <1>2
  <2>2. b \in Vms
    BY VmFacts
  <2>3. CASE get_balance(b, -1)
    <3>1. -1 \in {-1, 0} \cup Values
      OBVIOUS
    <3> QED BY <2>2, <2>3, <3>1
  <2> QED BY <2>1, <2>2, <2>3 DEF BlockStep, VmStep
<1> QED BY <1>1, <1>2 DEF Next, System, Failure

LEMMA StepPlaces == ASSUME Placement, [Next]_vars PROVE Placement'
<1>1. CASE UNCHANGED vars
  BY <1>1, StayKeeps DEF vars
<1>2. CASE Next
  <2>1. \A n \in {-1, 0} \cup Values : n \in Int
    BY HostRunAssumption
  <2>2. CASE \E a \in Vms : \/ Query(a) \/ VmHears(a) \/ VmEnds(a)
                            \/ \E n \in {-1, 0} \cup Values : get_balance(a, n)
    BY <2>1, <2>2, CallsPlaces, HearsPlaces
  <2>3. CASE RunNondet \/ (\E slot \in Slots : storage_write(slot)) \/ RunStep
    BY <2>3, RunNondetPlaces, CallsPlaces, RunPlaces, VmFacts
  <2>4. CASE \E b \in Blocks : \/ WebRequest(b) \/ ExecPrompt(b) \/ Prompt(b) \/ ModuleReplies(b)
                               \/ ConsumeFuel(b) \/ CountConsumption(b) \/ TakeBlock(b)
    BY <2>4, VmFacts, CallsPlaces, ModulePlaces, ChargePlaces, TakeBlockPlaces
  <2>5. CASE \/ \E h \in Hosts : HostHandles(h) \/ HostCloses(h)
             \/ \E m \in Modules : ModuleAnswers(m) \/ ModuleCloses(m)
    BY <2>5, StayKeeps DEF HostHandles, HostCloses, ModuleAnswers, ModuleCloses, queueVars
  <2> QED BY <1>2, <2>2, <2>3, <2>4, <2>5, Steps
<1> QED BY <1>1, <1>2

LEMMA PlacementHolds == Spec => []Placement
BY InitPlaces, StepPlaces, PTL DEF Spec

(*----- the verdict on the blocks -----------------------------------------*)

\* The main VM is neither before its start nor past its blocks.
Working == ~Decided /\ pc[Main].at # "setup"

\* Before anything runs, no block is known; past the blocks, the verdict is about how they
\* were settled: an error if one failed, else the first that disagreed.
Judged ==
  /\ verdict.call \in Int
  /\ pc[Main].at = "setup" => verdict.kind = "pending" /\ \A b \in Blocks : fate[b] = "unused"
  /\ Decided => /\ verdict.kind = "error" <=> Failed
                /\ ~Failed => IF verdict.kind = "disagreed"
                              THEN verdict.call \in Queue!Bad /\ \A d \in Queue!Bad : verdict.call <= d
                              ELSE Queue!Bad = {}

LEMMA BusyWorks == ASSUME Placement, ~AllOff PROVE Working
BY DEF Placement, Stages, Working

LEMMA ActiveWorks == ASSUME Placement, NEW a \in Vms, Active(a) PROVE Working
<1>1. CASE a = Main
  BY <1>1 DEF Active, Working, Decided
<1>2. CASE a # Main
  <2>1. ~AllOff
    BY <1>2, VmFacts DEF Active, AllOff
  <2> QED BY <2>1, BusyWorks
<1> QED BY <1>1, <1>2

LEMMA GoesWorks ==
    ASSUME Placement, Working, NEW a \in Vms, NEW at, NEW call, NEW n,
           pc' = [pc EXCEPT ![a] = At(at, call, n)],
           at \notin {"setup", "notify", "report", "finish", "exit"},
           call \notin {"ConsumeResult", "NotifyFinished"}
    PROVE  Working'
<1>1. pc'[a].at = at /\ pc'[a].call = call /\ \A x \in Vms \ {a} : pc'[x] = pc[x]
  BY Moved
<1>2. Main \in Vms
  BY VmFacts
<1>3. CASE a = Main
  BY <1>1, <1>3 DEF Working, Decided, Reporting
<1>4. CASE a # Main
  BY <1>1, <1>2, <1>4 DEF Working, Decided, Reporting
<1> QED BY <1>3, <1>4

LEMMA GotoWorks ==
    ASSUME Placement, Working, NEW a \in Vms, NEW at, Goto(a, at),
           at \notin {"setup", "notify", "report", "finish", "exit"}
    PROVE  Working'
<1>1. PICK call, n : call = "" /\ n = 0 /\ pc' = [pc EXCEPT ![a] = At(at, call, n)]
  BY DEF Goto
<1>2. pc' = [pc EXCEPT ![a] = At(at, call, n)] /\ call \notin {"ConsumeResult", "NotifyFinished"}
  BY <1>1
<1> QED BY ONLY Placement, Working, a \in Vms, <1>2, GoesWorks,
                at \notin {"setup", "notify", "report", "finish", "exit"}

LEMMA MainEndsWorks ==
    ASSUME Placement, Working, NEW how, MainEnds(how)
    PROVE  Working' /\ UNCHANGED <<report, verdict>>
<1>1. PICK at, a : at = "await" /\ a = Main /\ Goto(a, at) /\ UNCHANGED <<report, verdict>>
  BY DEF MainEnds
<1>2. a \in Vms /\ at \notin {"setup", "notify", "report", "finish", "exit"}
  BY <1>1, VmFacts
<1>3. Working'
  BY ONLY Placement, Working, <1>1, <1>2, GotoWorks
<1> QED BY <1>1, <1>3

LEMMA BlockEndsWorks ==
    ASSUME Placement, Working, NEW b \in Blocks, ~Off(b), NEW how, BlockEnds(b, how), UNCHANGED conf
    PROVE  Working' /\ UNCHANGED <<report, verdict>>
<1>1. UNCHANGED <<report, verdict>> /\ b \in Vms /\ Main \in Vms /\ b # Main
  BY VmFacts DEF BlockEnds, LeaderBlockEnds, ValidatorBlockEnds, Queue!Settle
<1>2. Leaves(b)
  BY BlockEndsKeeps
<1>3. \/ pc'[Main] = pc[Main]
      \/ pc'[Main].at \in {"ready", "await"} /\ pc'[Main].call = ""
  BY <1>1, <1>2 DEF Leaves
<1> QED BY <1>1, <1>3 DEF Working, Decided, Reporting

LEMMA EndWorks ==
    ASSUME Placement, Working, NEW a \in Vms, Active(a), VmError(a) \/ InternalError(a), UNCHANGED conf
    PROVE  Working' /\ UNCHANGED <<report, verdict>>
<1>1. CASE a = Main
  BY <1>1, MainEndsWorks DEF VmError, InternalError
<1>2. CASE a # Main
  BY <1>2, VmFacts, BlockEndsWorks DEF VmError, InternalError, Active
<1> QED BY <1>1, <1>2

\* What the end of the run relies on: a step of something else changes nothing of it, unless
\* the main VM or a block is still at work.
Works == UNCHANGED <<pc, queueVars>> \/ (Working /\ Working' /\ UNCHANGED <<report, verdict>>)

LEMMA AskWorks ==
    ASSUME Placement, NEW a \in Vms, Ready(a), NEW method, NEW n, AskOrFail(a, method, n),
           method \notin {"ConsumeResult", "NotifyFinished"}, UNCHANGED conf
    PROVE  Works
<1>1. Active(a) /\ Working
  BY ReadyActive, ActiveWorks DEF Ready
<1>2. CASE Ask(a, method, n) /\ UNCHANGED queueVars
  <2>1. PICK at : at = "host" /\ pc' = [pc EXCEPT ![a] = At(at, method, n)]
    BY <1>2 DEF Ask
  <2>2. at \notin {"setup", "notify", "report", "finish", "exit"}
    BY <2>1
  <2>3. Working'
    BY ONLY Placement, <1>1, a \in Vms, <2>1, <2>2, GoesWorks,
            method \notin {"ConsumeResult", "NotifyFinished"}
  <2> QED BY <1>1, <1>2, <2>3 DEF Works, queueVars
<1>3. CASE InternalError(a)
  BY <1>1, <1>3, EndWorks DEF Works
<1> QED BY <1>2, <1>3 DEF AskOrFail

LEMMA CallsWork ==
    ASSUME Placement, NEW a \in Vms,
           \/ Query(a) \/ (\E n \in {-1, 0} \cup Values : get_balance(a, n))
           \/ ExecPrompt(a) \/ \E slot \in Slots : storage_write(slot)
    PROVE  Works
<1>1. CASE \E slot \in Slots : storage_write(slot)
  BY <1>1 DEF storage_write, Works
<1>2. CASE \/ Query(a) \/ (\E n \in {-1, 0} \cup Values : get_balance(a, n))
           \/ ExecPrompt(a)
  <2>1. Ready(a) /\ UNCHANGED conf
    BY <1>2 DEF Query, get_balance, ExecPrompt, MayCall
  <2>2. CASE UNCHANGED <<pc, queueVars>>
    BY <2>2 DEF Works
  <2>3. CASE \E n : AskOrFail(a, "StorageRead", n) \/ AskOrFail(a, "EthCall", n) \/ AskOrFail(a, "GetBalance", n)
                    \/ AskOrFail(a, "RemainingFuelAsGen", n)
    <3>1. PICK method, n : /\ method \in {"StorageRead", "EthCall", "GetBalance", "RemainingFuelAsGen"}
                           /\ AskOrFail(a, method, n)
      BY <2>3
    <3>2. method \notin {"ConsumeResult", "NotifyFinished"}
      BY <3>1
    <3> QED BY ONLY Placement, a \in Vms, <2>1, <3>1, <3>2, AskWorks
  <2> QED BY <1>2, <2>2, <2>3 DEF Query, get_balance, ExecPrompt
<1> QED BY <1>1, <1>2

LEMMA BlocksWork ==
    ASSUME Placement, NEW b \in Blocks,
           WebRequest(b) \/ Prompt(b) \/ ModuleReplies(b) \/ ConsumeFuel(b) \/ CountConsumption(b)
    PROVE  Works
<1>0. b \in Vms /\ b # Main /\ UNCHANGED conf /\ Main \in Vms
  BY VmFacts DEF WebRequest, Prompt, ModuleReplies, ConsumeFuel, CountConsumption
<1>1. Active(b) /\ Working
  <2>1. pc[b].at \in {"ready", "prompt", "module", "charge", "count"}
    BY DEF WebRequest, Prompt, ModuleReplies, ConsumeFuel, CountConsumption, MayCall, Ready, Replied, NoReply
  <2> QED BY <1>0, <2>1, ReadyActive, ActiveWorks
<1>2. CASE VmError(b) \/ InternalError(b)
  BY <1>0, <1>1, <1>2, EndWorks DEF Works
<1>3. CASE (\E q : pc' = [pc EXCEPT ![b] = q]) /\ UNCHANGED queueVars
  <2>1. pc'[Main] = pc[Main] /\ UNCHANGED <<report, verdict>>
    BY <1>0, <1>3 DEF Placement, queueVars
  <2> QED BY <1>1, <2>1 DEF Works, Working, Decided, Reporting
<1>4. CASE WebRequest(b) \/ Prompt(b)
  BY <1>2, <1>3, <1>4 DEF WebRequest, Prompt, Send
<1>5. CASE ModuleReplies(b)
  BY <1>2, <1>3, <1>5 DEF ModuleReplies, Goto
<1>6. CASE ConsumeFuel(b) \/ CountConsumption(b)
  BY <1>2, <1>3, <1>6 DEF ConsumeFuel, CountConsumption, Goto
<1> QED BY <1>4, <1>5, <1>6

LEMMA HearsWork ==
    ASSUME Placement, NEW a \in Vms, VmHears(a) \/ VmEnds(a)
    PROVE  Works
<1>0. UNCHANGED conf
  BY DEF VmHears, VmEnds
<1>1. Active(a) /\ Working
  <2>1. \/ pc[a].at \in {"ready", "prompt", "module", "charge", "count"}
        \/ pc[a].at = "host" /\ pc[a].call \notin {"ConsumeResult", "NotifyFinished"}
    BY DEF VmHears, VmEnds, Answered, ReadFails, Ready
  <2> QED BY <2>1, ReadyActive, ActiveWorks
<1>2. CASE VmError(a) \/ InternalError(a)
  BY <1>0, <1>1, <1>2, EndWorks DEF Works
<1>3. CASE (\E at \in {"ready", "prompt"} : \E n : pc' = [pc EXCEPT ![a] = At(at, "", n)]) /\ UNCHANGED queueVars
  <2>0. PICK at \in {"ready", "prompt"} : \E n : pc' = [pc EXCEPT ![a] = At(at, "", n)]
    BY <1>3
  <2>1. PICK n : pc' = [pc EXCEPT ![a] = At(at, "", n)]
    BY <2>0
  <2>2. PICK call : call = "" /\ pc' = [pc EXCEPT ![a] = At(at, call, n)]
    BY <2>1
  <2>3. /\ at \notin {"setup", "notify", "report", "finish", "exit"}
        /\ call \notin {"ConsumeResult", "NotifyFinished"}
    BY <2>2
  <2>4. Working'
    BY ONLY Placement, <1>1, a \in Vms, <2>2, <2>3, GoesWorks
  <2> QED BY <1>1, <1>3, <2>4 DEF Works, queueVars
<1>4. CASE VmEnds(a)
  <2>1. CASE a = Main
    BY <1>1, <1>4, <2>1, MainEndsWorks DEF VmEnds, Works
  <2>2. CASE a # Main
    <3>1. a \in Blocks /\ ~Off(a)
      BY <1>1, <2>2, VmFacts DEF Active
    <3>2. PICK how : BlockEnds(a, how)
      BY <1>4, <2>2 DEF VmEnds
    <3> QED BY <1>0, <1>1, <3>1, <3>2, BlockEndsWorks DEF Works
  <2> QED BY <2>1, <2>2
<1>5. CASE VmHears(a)
  BY <1>2, <1>3, <1>5 DEF VmHears, Goto
<1> QED BY <1>4, <1>5

LEMMA NondetWorks ==
    ASSUME Placement, RunNondet \/ \E b \in Blocks : TakeBlock(b)
    PROVE  Works
<1>0. Main \in Vms
  BY VmFacts
<1>1. CASE RunNondet
  <2>1. Working /\ UNCHANGED <<report, verdict>>
    BY <1>0, <1>1, ReadyActive, ActiveWorks DEF RunNondet, MayCall, Ready, Queue!Submit
  <2>2. CASE Goto(Main, "await")
    <3>1. PICK at, a : at = "await" /\ a = Main /\ Goto(a, at)
      BY <2>2
    <3>2. at \notin {"setup", "notify", "report", "finish", "exit"} /\ a \in Vms
      BY <1>0, <3>1
    <3>3. Working'
      BY ONLY Placement, <2>1, <3>1, <3>2, GotoWorks
    <3> QED BY <2>1, <3>3 DEF Works
  <2>3. CASE pc' = pc
    BY <2>1, <2>3 DEF Works, Working, Decided, Reporting
  <2>4. CASE pc' = [pc EXCEPT ![Main] = At("wait", "", 0), ![next] = At("ready", "", 0)]
    <3>1. next \in Vms /\ next # Main
      BY <1>1, VmFacts DEF RunNondet, Placement
    <3>2. pc'[Main] = At("wait", "", 0)
      BY <1>0, <2>4, <3>1 DEF Placement
    <3>3. pc'[Main].at = "wait" /\ pc'[Main].call = ""
      BY <3>2, IdleFields DEF Idle
    <3> QED BY <2>1, <3>3 DEF Works, Working, Decided, Reporting
  <2> QED BY <1>1, <2>2, <2>3, <2>4 DEF RunNondet
<1>2. CASE \E b \in Blocks : TakeBlock(b)
  <2>1. PICK b \in Blocks : TakeBlock(b)
    BY <1>2
  <2>2. Working /\ b # Main
    BY <2>1, BusyWorks, VmFacts DEF TakeBlock, AllOff
  <2>3. pc'[Main] = pc[Main] /\ UNCHANGED <<report, verdict>>
    BY <1>0, <2>1, <2>2 DEF TakeBlock, Goto, Placement, queueVars, Queue!Skip
  <2> QED BY <2>2, <2>3 DEF Works, Working, Decided, Reporting
<1> QED BY <1>1, <1>2

LEMMA StepWorks == ASSUME Placement, [Next]_vars, ~RunStep PROVE Works
<1>1. CASE UNCHANGED vars
  BY <1>1 DEF vars, Works, queueVars
<1>2. CASE Next
  <2>1. CASE \E a \in Vms : \/ Query(a) \/ VmHears(a) \/ VmEnds(a)
                            \/ \E n \in {-1, 0} \cup Values : get_balance(a, n)
    BY <2>1, CallsWork, HearsWork
  <2>2. CASE RunNondet \/ (\E slot \in Slots : storage_write(slot))
    BY <2>2, NondetWorks, CallsWork, VmFacts
  <2>3. CASE \E b \in Blocks : \/ WebRequest(b) \/ ExecPrompt(b) \/ Prompt(b) \/ ModuleReplies(b)
                               \/ ConsumeFuel(b) \/ CountConsumption(b) \/ TakeBlock(b)
    BY <2>3, VmFacts, CallsWork, BlocksWork, NondetWorks
  <2>4. CASE \/ \E h \in Hosts : HostHandles(h) \/ HostCloses(h)
             \/ \E m \in Modules : ModuleAnswers(m) \/ ModuleCloses(m)
    BY <2>4 DEF HostHandles, HostCloses, ModuleAnswers, ModuleCloses, Works
  <2> QED BY <1>2, <2>1, <2>2, <2>3, <2>4, Steps
<1> QED BY <1>1, <1>2

LEMMA JudgedStep ==
    ASSUME Placement, Judged, [Next]_vars PROVE Judged'
<1>0. Queue!Bad' = {c \in Blocks : fate'[c] \in {"disagreed", "marked"}}
      /\ Queue!Bad = {c \in Blocks : fate[c] \in {"disagreed", "marked"}}
  BY VmFacts DEF Queue!Bad
<1>1. CASE RunStep
  <2>1. CASE AwaitNondetVms
    <3>1. PICK at : at \in {"notify", "report"} /\ Goto(Main, at)
      BY <2>1 DEF AwaitNondetVms
    <3>2. pc'[Main].at # "setup" /\ fate' = fate
      BY <2>1, <3>1, MovedIdle, VmFacts DEF AwaitNondetVms, Queue!Decide
    <3>3. \/ \E c \in Queue!Failed : verdict' = [kind |-> "error", call |-> c]
          \/ /\ Queue!Failed = {}
             /\ \E c \in Queue!Bad :
                  /\ \A d \in Queue!Bad : c <= d
                  /\ verdict' = [kind |-> "disagreed", call |-> c]
          \/ /\ Queue!Failed = {} /\ Queue!Bad = {}
             /\ verdict' = [kind |-> "agreed", call |-> -1]
      BY <2>1 DEF AwaitNondetVms, Queue!Decide
    <3>4. Queue!Failed # {} <=> Failed
      BY VmFacts DEF Queue!Failed, Failed
    <3>5. Failed' <=> Failed
      BY <3>2 DEF Failed
    <3>6. Queue!Bad' = Queue!Bad
      BY <1>0, <3>2
    <3>7. \A c \in Blocks : c \in Int
      BY HostRunAssumption DEF Blocks
    <3>8. Queue!Failed \subseteq Blocks /\ Queue!Bad \subseteq Blocks
      BY VmFacts DEF Queue!Failed, Queue!Bad
    <3>9. CASE \E c \in Queue!Failed : verdict' = [kind |-> "error", call |-> c]
      <4>1. PICK c \in Queue!Failed : verdict' = [kind |-> "error", call |-> c]
        BY <3>9
      <4>2. verdict'.kind = "error" /\ verdict'.call = c /\ c \in Int /\ Failed
        BY <3>4, <3>7, <3>8, <4>1
      <4> QED BY <3>2, <3>5, <4>2 DEF Judged
    <3>10. CASE Queue!Failed = {} /\ \E c \in Queue!Bad :
                  /\ \A d \in Queue!Bad : c <= d
                  /\ verdict' = [kind |-> "disagreed", call |-> c]
      <4>1. PICK c \in Queue!Bad : (\A d \in Queue!Bad : c <= d) /\ verdict' = [kind |-> "disagreed", call |-> c]
        BY <3>10
      <4>2. verdict'.kind = "disagreed" /\ verdict'.call = c /\ c \in Int /\ ~Failed
        BY <3>4, <3>7, <3>8, <3>10, <4>1
      <4> QED BY <3>2, <3>5, <3>6, <4>1, <4>2 DEF Judged
    <3>11. CASE Queue!Failed = {} /\ Queue!Bad = {} /\ verdict' = [kind |-> "agreed", call |-> -1]
      <4>1. verdict'.kind = "agreed" /\ verdict'.call = -1 /\ -1 \in Int /\ ~Failed
        BY <3>4, <3>11
      <4> QED BY <3>2, <3>5, <3>6, <3>11, <4>1 DEF Judged
    <3> QED BY <3>3, <3>9, <3>10, <3>11
  <2>2. CASE Setup
    <3>1. /\ pc[Main].at = "setup" /\ UNCHANGED <<fate, verdict>>
          /\ \E at \in {"report", "ready", "exit"} : Goto(Main, at)
      BY <2>2 DEF Setup
    <3>2. pc'[Main].at # "setup"
      BY <3>1, MovedIdle, VmFacts
    <3>3. \A b \in Blocks : fate'[b] = "unused"
      BY <3>1 DEF Judged
    <3>4. ~Failed' /\ Queue!Bad' = {}
      BY <1>0, <3>3 DEF Failed
    <3>5. verdict'.kind \notin {"error", "disagreed"}
      BY <3>1 DEF Judged
    <3> QED BY <3>1, <3>2, <3>4, <3>5 DEF Judged
  <2>3. CASE NotifyDisagreement \/ ConsumeResult \/ NotifyFinished \/ Acknowledged
    <3>1. Decided /\ UNCHANGED <<fate, verdict>>
      BY <2>3 DEF NotifyDisagreement, ConsumeResult, NotifyFinished, Acknowledged, Decided, Reporting, queueVars
    <3>2. pc'[Main].at # "setup"
      <4>1. \/ \E at \in {"report", "finish", "exit"} : Goto(Main, at)
            \/ \E method, n : Ask(Main, method, n)
        BY <2>3 DEF NotifyDisagreement, ConsumeResult, NotifyFinished, Acknowledged, Abandon
      <4>2. CASE \E at \in {"report", "finish", "exit"} : Goto(Main, at)
        BY <4>2, MovedIdle, VmFacts
      <4>3. CASE \E method, n : Ask(Main, method, n)
        <5>1. PICK method, n : pc' = [pc EXCEPT ![Main] = At("host", method, n)]
          BY <4>3 DEF Ask
        <5>2. pc'[Main] = At("host", method, n)
          BY <5>1, VmFacts DEF Placement
        <5> QED BY <5>2, AtFields
      <4> QED BY <4>1, <4>2, <4>3
    <3>3. Failed' <=> Failed
      BY <3>1 DEF Failed
    <3>4. Queue!Bad' = Queue!Bad
      BY <1>0, <3>1
    <3> QED BY <3>1, <3>2, <3>3, <3>4 DEF Judged
  <2> QED BY <1>1, <2>1, <2>2, <2>3 DEF RunStep
<1>2. CASE ~RunStep
  <2>1. Works /\ verdict' = verdict
    BY <1>2, StepWorks DEF Works, queueVars
  <2>2. CASE UNCHANGED <<pc, queueVars>>
    <3>1. (Failed' <=> Failed) /\ (Decided' <=> Decided) /\ pc' = pc /\ fate' = fate
      BY <2>2 DEF Failed, Decided, Reporting, queueVars
    <3>2. Queue!Bad' = Queue!Bad
      BY <1>0, <3>1
    <3> QED BY <2>1, <3>1, <3>2 DEF Judged
  <2>3. CASE Working'
    BY <2>1, <2>3 DEF Judged, Working
  <2> QED BY <2>1, <2>2, <2>3 DEF Works
<1> QED BY <1>1, <1>2

(*----- what is on the connections ----------------------------------------*)

Names == Range(Methods)

\* The connection each method goes over.
Lanes == [method \in Names |-> HostFor(method)]

Requests == [from : Vms, method : Names, n : Int]
Replies == [to : Vms, ok : BOOLEAN, n : Int]

Waits(a, h) == pc[a].at = "host" /\ Lanes[pc[a].call] = h
Request(a) == [from |-> a, method |-> pc[a].call, n |-> pc[a].n]

\* The request of a VM that waits is the last thing on the connection, or it is lost, or
\* its answer is there and nothing is left to be handled.
Asking(a, h) ==
  /\ reply[h] = <<>> /\ up[h] = TRUE
  /\ wire[h] # <<>> /\ wire[h][Len(wire[h])] = Request(a)
  /\ \A i \in 1..(Len(wire[h]) - 1) : wire[h][i].method \in Silent
Lost(h) == reply[h] = <<>> /\ up[h] = FALSE
Told(a, h) ==
  /\ wire[h] = <<>> /\ Len(reply[h]) = 1 /\ reply[h][1].to = a
  /\ pc[a].call = "GetBalance" /\ reply[h][1].ok => reply[h][1].n = Balance

HostLane(h) ==
  /\ wire[h] \in Seq(Requests) /\ reply[h] \in Seq(Replies) /\ up[h] \in BOOLEAN
  /\ \A i \in DOMAIN wire[h] : wire[h][i].method = "ConsumeFuel" => wire[h][i].n \in 0..FuelMax
  /\ hostLock[h] \in Vms \cup {NoOne}
  /\ \A a \in Vms : hostLock[h] = a <=> Waits(a, h)
  /\ up[h] = FALSE => wire[h] = <<>>
  /\ hostLock[h] = NoOne => reply[h] = <<>> /\ \A i \in DOMAIN wire[h] : wire[h][i].method \in Silent
  /\ hostLock[h] # NoOne => Asking(hostLock[h], h) \/ Lost(h) \/ Told(hostLock[h], h)

Configured == conf \in [role : Roles, method_hosts : MethodHosts, locked_slots : LockedLists, upgrader : BOOLEAN]

HostTraffic ==
  /\ Configured
  /\ DOMAIN hostLock = Hosts /\ IsFun(hostLock) /\ DOMAIN wire = Hosts /\ DOMAIN reply = Hosts /\ DOMAIN up = Hosts
  /\ \A h \in Hosts : HostLane(h)

(* A sequence of one element has no rest.                                  *)
LEMMA Single ==
    ASSUME NEW S, NEW s \in Seq(S), Len(s) = 1
    PROVE  Head(s) = s[1] /\ s[1] \in S /\ Tail(s) = <<>> /\ s # <<>>
<1>1. s # <<>> /\ Head(s) = s[1] /\ s[1] \in S
  OBVIOUS
<1>2. Tail(s) \in Seq(S) /\ Len(Tail(s)) = Len(s) - 1
  BY ONLY <1>1, s \in Seq(S), HeadTailProperties
<1>3. Len(Tail(s)) = 0
  BY <1>2
<1>4. Tail(s) # <<>> => Len(Tail(s)) \in Nat \ {0}
  BY ONLY <1>2, EmptySeq
<1> QED BY <1>1, <1>3, <1>4

LEMMA NameFacts ==
    /\ Names = {"StorageRead", "ConsumeFuel", "EthCall", "GetBalance", "RemainingFuelAsGen",
                "NotifyNondetDisagreement", "ConsumeResult", "NotifyFinished"}
    /\ \A a : AsksOf(a) \subseteq Names \ Silent
    /\ Silent \subseteq Names
<1>1. Names = {"StorageRead", "ConsumeFuel", "EthCall", "GetBalance", "RemainingFuelAsGen",
                "NotifyNondetDisagreement", "ConsumeResult", "NotifyFinished"}
  <2>1. DOMAIN Methods = 1..8
    BY DEF Methods
  <2>2. \A x : x \in DOMAIN Methods <=> x \in {1, 2, 3, 4, 5, 6, 7, 8}
    BY <2>1
  <2>3. Names = {Methods[i] : i \in {1, 2, 3, 4, 5, 6, 7, 8}}
    BY <2>2 DEF Names, Range
  <2>4. /\ Methods[1] = "StorageRead" /\ Methods[2] = "ConsumeFuel" /\ Methods[3] = "EthCall"
        /\ Methods[4] = "GetBalance" /\ Methods[5] = "RemainingFuelAsGen"
        /\ Methods[6] = "NotifyNondetDisagreement" /\ Methods[7] = "ConsumeResult"
        /\ Methods[8] = "NotifyFinished"
    BY DEF Methods
  <2> QED BY <2>3, <2>4
<1> QED BY <1>1 DEF AsksOf, Silent

LEMMA LaneTypes == ASSUME Configured PROVE Lanes \in [Names -> Hosts]
<1> SUFFICES ASSUME NEW m \in Names PROVE HostFor(m) \in Hosts
  BY DEF Lanes
<1> DEFINE i == CHOOSE i \in DOMAIN Methods : Methods[i] = m
<1>1. \E j \in DOMAIN Methods : Methods[j] = m
  BY DEF Names, Range
<1>2. i \in DOMAIN Methods
  BY <1>1
<1>3. i \in 1..8
  BY <1>2 DEF Methods
<1>4. conf.method_hosts \in Seq(Hosts) /\ 0 \in Hosts
  BY HostRunAssumption DEF Configured
<1>5. HostFor(m) = IF i <= Len(conf.method_hosts) THEN conf.method_hosts[i] ELSE 0
  BY DEF HostFor
<1> HIDE DEF i
<1> QED BY <1>3, <1>4, <1>5

LEMMA LanesSame == ASSUME UNCHANGED conf PROVE Lanes' = Lanes
BY DEF Lanes, HostFor, Names

(* A connection that nobody touches and that nobody begins or ceases to    *)
(* wait for.                                                               *)
LEMMA LaneStays ==
    ASSUME Placement, HostTraffic, NEW h \in Hosts, UNCHANGED conf,
           hostLock'[h] = hostLock[h], wire'[h] = wire[h], reply'[h] = reply[h], up'[h] = up[h],
           \A x \in Vms : pc'[x] = pc[x] \/ (~Waits(x, h) /\ ~Waits(x, h)')
    PROVE  HostLane(h)'
<1>1. HostLane(h) /\ Lanes' = Lanes
  BY LanesSame DEF HostTraffic
<1>2. \A x \in Vms : Waits(x, h)' <=> Waits(x, h)
  BY <1>1 DEF Waits
<1>3. hostLock[h] # NoOne => hostLock[h] \in Vms /\ pc'[hostLock[h]] = pc[hostLock[h]]
  BY <1>1 DEF HostLane
<1>4. hostLock[h] # NoOne => (Asking(hostLock[h], h) \/ Lost(h) \/ Told(hostLock[h], h))'
  BY <1>1, <1>3 DEF HostLane, Asking, Lost, Told, Request
<1> QED BY <1>1, <1>2, <1>4 DEF HostLane, Requests, Replies, Names

LEMMA HostsIdle ==
    ASSUME Placement, HostTraffic, UNCHANGED <<conf, hostLock, wire, reply, up>>,
           \A x \in Vms : pc'[x] = pc[x] \/ (pc[x].at # "host" /\ pc'[x].at # "host")
    PROVE  HostTraffic'
<1>1. ASSUME NEW h \in Hosts PROVE HostLane(h)'
  <2>1. \A x \in Vms : pc'[x] = pc[x] \/ (~Waits(x, h) /\ ~Waits(x, h)')
    BY DEF Waits
  <2> QED BY <2>1, LaneStays
<1> QED BY <1>1 DEF HostTraffic, Configured

LEMMA HostsAsk ==
    ASSUME Placement, HostTraffic, UNCHANGED conf, NEW a \in Vms, pc[a].at # "host",
           NEW method \in Names \ Silent, NEW n \in Int, Ask(a, method, n)
    PROVE  HostTraffic'
<1> DEFINE r == [from |-> a, method |-> method, n |-> n]
<1>1. PICK g \in Hosts : HostFor(method) = g /\ Lanes[method] = g /\ Lanes' = Lanes
  <2>1. Lanes[method] = HostFor(method) /\ Lanes[method] \in Hosts
    BY LaneTypes DEF Lanes, HostTraffic
  <2> QED BY <2>1, LanesSame
<1>2. /\ hostLock[g] = NoOne /\ up[g]
      /\ hostLock' = [hostLock EXCEPT ![g] = a] /\ wire' = [wire EXCEPT ![g] = Append(@, r)]
      /\ reply' = reply /\ up' = up
      /\ pc' = [pc EXCEPT ![a] = At("host", method, n)]
  BY <1>1 DEF Ask
<1>3. /\ hostLock'[g] = a /\ wire'[g] = Append(wire[g], r)
      /\ \A h \in Hosts \ {g} : hostLock'[h] = hostLock[h] /\ wire'[h] = wire[h]
      /\ DOMAIN hostLock' = Hosts /\ IsFun(hostLock') /\ DOMAIN wire' = Hosts
  BY <1>1, <1>2, ExceptIsFun DEF HostTraffic
<1>4. /\ pc'[a] = At("host", method, n) /\ \A x \in Vms \ {a} : pc'[x] = pc[x]
  BY <1>2 DEF Placement
<1>5. pc'[a].at = "host" /\ pc'[a].call = method /\ pc'[a].n = n
  BY <1>4, AtFields
<1>6. HostLane(g)
  BY <1>1 DEF HostTraffic
<1>7. ASSUME NEW h \in Hosts, h # g PROVE HostLane(h)'
  <2>1. \A x \in Vms : pc'[x] = pc[x] \/ (~Waits(x, h) /\ ~Waits(x, h)')
    <3>1. ~Waits(a, h) /\ ~Waits(a, h)'
      BY <1>1, <1>5, <1>7 DEF Waits
    <3> QED BY <1>4, <3>1
  <2> QED BY <1>2, <1>3, <1>7, <2>1, LaneStays
<1>8. HostLane(g)'
  <2> DEFINE w == wire[g]
  <2>1. w \in Seq(Requests) /\ r \in Requests /\ wire'[g] = Append(w, r)
    BY <1>3, <1>6 DEF HostLane, Requests
  <2>2. /\ wire'[g] \in Seq(Requests) /\ wire'[g] # <<>> /\ Len(wire'[g]) = Len(w) + 1
        /\ wire'[g][Len(w) + 1] = r
        /\ \A i \in 1..Len(w) : wire'[g][i] = w[i]
        /\ DOMAIN wire'[g] = 1..(Len(w) + 1) /\ DOMAIN w = 1..Len(w) /\ Len(w) \in Nat
    <3> HIDE DEF r, w
    <3> QED BY <2>1
  <2>3. /\ reply[g] = <<>> /\ up[g] = TRUE
        /\ \A i \in 1..Len(w) : w[i].method \in Silent
    BY <1>2, <1>6, <2>2 DEF HostLane
  <2>4. Asking(a, g)'
    <3>1. Request(a)' = r
      BY <1>5 DEF Request
    <3>2. \A i \in 1..(Len(wire'[g]) - 1) : wire'[g][i].method \in Silent
      BY <2>2, <2>3
    <3> HIDE DEF r, w
    <3> QED BY <1>2, <2>2, <2>3, <3>1, <3>2 DEF Asking
  <2>5. \A x \in Vms : hostLock'[g] = x <=> Waits(x, g)'
    <3>1. Waits(a, g)'
      BY <1>1, <1>5 DEF Waits
    <3>2. \A x \in Vms \ {a} : Waits(x, g)' <=> hostLock[g] = x
      BY <1>1, <1>4, <1>6 DEF Waits, HostLane
    <3>3. \A x \in Vms : x # NoOne
      BY VmFacts
    <3> QED BY <1>2, <1>3, <3>1, <3>2, <3>3
  <2>6. \A i \in DOMAIN wire'[g] : wire'[g][i].method = "ConsumeFuel" => wire'[g][i].n \in 0..FuelMax
    <3>1. r.method # "ConsumeFuel"
      BY DEF Silent
    <3>2. \A i \in DOMAIN w : w[i].method = "ConsumeFuel" => w[i].n \in 0..FuelMax
      BY <1>6 DEF HostLane
    <3> HIDE DEF r, w
    <3>3. ASSUME NEW i \in DOMAIN wire'[g] PROVE i \in 1..Len(w) \/ i = Len(w) + 1
      BY <2>2
    <3> QED BY <2>2, <3>1, <3>2, <3>3
  <2>7. hostLock'[g] \in Vms \cup {NoOne} /\ hostLock'[g] = a /\ a # NoOne
    BY <1>3, VmFacts
  <2>8. wire'[g] \in Seq(Requests)' /\ reply'[g] \in Seq(Replies)' /\ up'[g] \in BOOLEAN /\ up'[g] = TRUE
    BY <1>2, <1>6, <2>2, <2>3 DEF HostLane, Requests, Replies, Names
  <2> HIDE DEF w, r
  <2> QED BY <2>4, <2>5, <2>6, <2>7, <2>8 DEF HostLane
<1> QED BY <1>2, <1>3, <1>7, <1>8 DEF HostTraffic, Configured

LEMMA HostsTell ==
    ASSUME Placement, HostTraffic, UNCHANGED conf, NEW a \in Vms,
           NEW method \in Silent, NEW n \in Int, method = "ConsumeFuel" => n \in 0..FuelMax,
           Tell(a, method, n),
           \A x \in Vms : pc'[x] = pc[x] \/ (pc[x].at # "host" /\ pc'[x].at # "host")
    PROVE  HostTraffic'
<1> DEFINE r == [from |-> a, method |-> method, n |-> n]
<1>1. PICK g \in Hosts : HostFor(method) = g /\ Lanes' = Lanes
  <2>1. Lanes[method] = HostFor(method) /\ Lanes[method] \in Hosts
    BY LaneTypes, NameFacts DEF Lanes, HostTraffic
  <2> QED BY <2>1, LanesSame
<1>2. /\ hostLock[g] = NoOne /\ hostLock' = hostLock /\ reply' = reply /\ up' = up
      /\ wire' = [wire EXCEPT ![g] = IF up[g] THEN Append(@, r) ELSE @]
  BY <1>1 DEF Tell
<1>3. /\ wire'[g] = IF up[g] THEN Append(wire[g], r) ELSE wire[g]
      /\ \A h \in Hosts \ {g} : wire'[h] = wire[h]
      /\ DOMAIN wire' = Hosts
  BY <1>1, <1>2 DEF HostTraffic
<1>4. HostLane(g)
  BY <1>1 DEF HostTraffic
<1>5. \A h \in Hosts : \A x \in Vms : pc'[x] = pc[x] \/ (~Waits(x, h) /\ ~Waits(x, h)')
  BY DEF Waits
<1>6. ASSUME NEW h \in Hosts, h # g \/ ~up[g] PROVE HostLane(h)'
  BY <1>1, <1>2, <1>3, <1>5, <1>6, LaneStays
<1>7. ASSUME up[g] PROVE HostLane(g)'
  <2> DEFINE w == wire[g]
             v == Append(w, r)
  <2>1. w \in Seq(Requests) /\ r \in Requests /\ wire'[g] = v
    BY <1>3, <1>4, <1>7, NameFacts DEF HostLane, Requests
  <2>2. /\ v \in Seq(Requests) /\ v[Len(w) + 1] = r
        /\ \A i \in 1..Len(w) : v[i] = w[i]
        /\ DOMAIN v = 1..(Len(w) + 1) /\ DOMAIN w = 1..Len(w) /\ Len(w) \in Nat
    <3> HIDE DEF r, w
    <3> QED BY <2>1
  <2>3. reply[g] = <<>> /\ up[g] = TRUE /\ \A i \in DOMAIN w : w[i].method \in Silent
    BY <1>2, <1>4, <1>7 DEF HostLane
  <2>4. \A x \in Vms : hostLock'[g] = x <=> Waits(x, g)'
    BY <1>1, <1>2, <1>4 DEF HostLane, Waits
  <2>5. ASSUME NEW i \in DOMAIN v
        PROVE  v[i].method \in Silent /\ (v[i].method = "ConsumeFuel" => v[i].n \in 0..FuelMax)
    <3>1. r.method = method /\ r.n = n
      OBVIOUS
    <3>2. \A j \in DOMAIN w : w[j].method = "ConsumeFuel" => w[j].n \in 0..FuelMax
      BY <1>4 DEF HostLane
    <3> HIDE DEF r, w
    <3>3. i \in 1..Len(w) \/ i = Len(w) + 1
      BY <2>2
    <3> HIDE DEF v
    <3> QED BY <2>2, <2>3, <3>1, <3>2, <3>3
  <2>6. wire'[g] \in Seq(Requests)' /\ reply'[g] \in Seq(Replies)' /\ up'[g] \in BOOLEAN /\ up'[g] = TRUE
    BY <1>2, <1>4, <2>1, <2>2, <2>3 DEF HostLane, Requests, Replies, Names
  <2>7. hostLock'[g] = NoOne /\ reply'[g] = <<>>
    BY <1>2, <2>3
  <2> HIDE DEF v
  <2> QED BY <2>1, <2>4, <2>5, <2>6, <2>7 DEF HostLane
<1> QED BY <1>2, <1>3, <1>6, <1>7 DEF HostTraffic, Configured

(* Whoever reads an answer is the one it is for.                           *)
LEMMA HostAnswer ==
    ASSUME Placement, HostTraffic, NEW a \in Vms, Answered(a)
    PROVE  /\ Head(reply[HostFor(pc[a].call)]) \in Replies
           /\ Head(reply[HostFor(pc[a].call)]).to = a
           /\ pc[a].call = "GetBalance" /\ Head(reply[HostFor(pc[a].call)]).ok
              => Head(reply[HostFor(pc[a].call)]).n = Balance
           /\ pc[a].call \in Names
           /\ Waits(a, HostFor(pc[a].call)) /\ HostFor(pc[a].call) \in Hosts
           /\ Told(a, HostFor(pc[a].call)) /\ Tail(reply[HostFor(pc[a].call)]) = <<>>
           /\ hostLock[HostFor(pc[a].call)] = a
<1>1. pc[a].at = "host" /\ pc[a].call \in Names
  BY NameFacts DEF Answered, Placement, Placed, Fits
<1>2. PICK g : g = HostFor(pc[a].call) /\ g \in Hosts /\ Waits(a, g) /\ reply[g] # <<>>
  <2>1. Lanes[pc[a].call] = HostFor(pc[a].call) /\ Lanes[pc[a].call] \in Hosts
    BY <1>1, LaneTypes DEF Lanes, HostTraffic
  <2> QED BY <1>1, <2>1 DEF Answered, Waits
<1>3. hostLock[g] = a /\ a # NoOne /\ reply[g] \in Seq(Replies)
  BY <1>2, VmFacts DEF HostTraffic, HostLane
<1>4. Told(a, g)
  BY <1>2, <1>3 DEF HostTraffic, HostLane, Asking, Lost
<1>5. PICK s : s = reply[g] /\ s \in Seq(Replies) /\ Len(s) = 1 /\ s # <<>>
  BY <1>3, <1>4 DEF Told
<1>6. Head(s) = s[1] /\ s[1] \in Replies /\ Tail(s) = <<>>
  BY ONLY <1>5, Single
<1> QED BY <1>1, <1>2, <1>3, <1>4, <1>5, <1>6 DEF Told

(* The lock is given back, with an answer or without.                      *)
LEMMA HostsRelease ==
    ASSUME Placement, HostTraffic, UNCHANGED conf, NEW a \in Vms,
           Answered(a) \/ ReadFails(a), pc'[a].at # "host",
           \A x \in Vms \ {a} : pc'[x] = pc[x] \/ (pc[x].at # "host" /\ pc'[x].at # "host")
    PROVE  HostTraffic'
<1>1. pc[a].at = "host" /\ pc[a].call \in Names
  BY NameFacts DEF Answered, ReadFails, Placement, Placed, Fits
<1>2. PICK g \in Hosts : HostFor(pc[a].call) = g /\ Lanes[pc[a].call] = g /\ Lanes' = Lanes
  <2>1. Lanes[pc[a].call] = HostFor(pc[a].call) /\ Lanes[pc[a].call] \in Hosts
    BY <1>1, LaneTypes DEF Lanes, HostTraffic
  <2> QED BY <2>1, LanesSame
<1>3. Waits(a, g) /\ HostLane(g) /\ hostLock[g] = a /\ a # NoOne
  BY <1>1, <1>2, VmFacts DEF Waits, HostTraffic, HostLane
<1>4. /\ hostLock' = [hostLock EXCEPT ![g] = NoOne] /\ wire' = wire /\ up' = up
      /\ reply' = reply \/ reply' = [reply EXCEPT ![g] = Tail(@)]
  BY <1>2 DEF Answered, ReadFails
<1>5. /\ hostLock'[g] = NoOne /\ DOMAIN hostLock' = Hosts /\ IsFun(hostLock') /\ DOMAIN reply' = Hosts
      /\ \A h \in Hosts \ {g} : hostLock'[h] = hostLock[h] /\ reply'[h] = reply[h]
  BY <1>2, <1>4, ExceptIsFun DEF HostTraffic
<1>6. ASSUME NEW h \in Hosts, h # g PROVE HostLane(h)'
  <2>1. \A x \in Vms : pc'[x] = pc[x] \/ (~Waits(x, h) /\ ~Waits(x, h)')
    BY <1>2, <1>6 DEF Waits
  <2> QED BY <1>4, <1>5, <1>6, <2>1, LaneStays
<1>7. reply'[g] = <<>> /\ wire[g] = <<>>
  <2>1. CASE Answered(a)
    BY <1>2, <1>3, <2>1, HostAnswer DEF Answered, Told, HostTraffic
  <2>2. CASE ReadFails(a)
    <3>1. reply[g] = <<>> /\ up[g] = FALSE /\ reply' = reply
      BY <1>2, <1>3, <2>2 DEF ReadFails, HostLane
    <3> QED BY <1>3, <3>1 DEF HostLane
  <2> QED BY <2>1, <2>2
<1>8. \A x \in Vms : hostLock'[g] = x <=> Waits(x, g)'
  <2>1. ~Waits(a, g)'
    BY DEF Waits
  <2>2. \A x \in Vms \ {a} : ~Waits(x, g)
    BY <1>3 DEF HostLane
  <2>3. \A x \in Vms \ {a} : ~Waits(x, g)'
    BY <1>2, <2>2 DEF Waits
  <2>4. \A x \in Vms : x # NoOne
    BY VmFacts
  <2> QED BY <1>5, <2>1, <2>3, <2>4
<1>9. HostLane(g)'
  <2>1. wire'[g] = <<>> /\ <<>> \in Seq(Requests) /\ <<>> \in Seq(Replies) /\ DOMAIN <<>> = {}
    BY <1>4, <1>7
  <2>2. wire'[g] \in Seq(Requests)' /\ reply'[g] \in Seq(Replies)' /\ up'[g] \in BOOLEAN
    BY <1>3, <1>4, <1>7, <2>1 DEF HostLane, Requests, Replies, Names
  <2> QED BY <1>5, <1>7, <1>8, <2>1, <2>2 DEF HostLane
<1> QED BY <1>4, <1>5, <1>6, <1>9 DEF HostTraffic, Configured

(* What a host handles: something that is not answered, with more behind   *)
(* it or not, or the last request, of the VM that waits.                   *)
LEMMA HostReads ==
    ASSUME Placement, HostTraffic, NEW h \in Hosts, up[h], wire[h] # <<>>
    PROVE  /\ Head(wire[h]) = wire[h][1] /\ Head(wire[h]) \in Requests /\ Tail(wire[h]) \in Seq(Requests)
           /\ Len(wire[h]) \in Nat \ {0} /\ Len(Tail(wire[h])) = Len(wire[h]) - 1
           /\ \A i \in 1..(Len(wire[h]) - 1) : Tail(wire[h])[i] = wire[h][i + 1]
           /\ reply[h] = <<>>
           /\ \/ /\ Head(wire[h]).method \in Silent
                 /\ hostLock[h] # NoOne => hostLock[h] \in Vms /\ Asking(hostLock[h], h) /\ Len(wire[h]) > 1
              \/ /\ hostLock[h] \in Vms /\ hostLock[h] # NoOne /\ Asking(hostLock[h], h)
                 /\ Head(wire[h]) = Request(hostLock[h]) /\ Tail(wire[h]) = <<>>
                 /\ Head(wire[h]).method \notin Silent
                 /\ pc[hostLock[h]].at = "host" /\ Lanes[pc[hostLock[h]].call] = h
<1>1. PICK w : w = wire[h] /\ w \in Seq(Requests) /\ w # <<>>
  BY DEF HostTraffic, HostLane
<1>2. /\ Head(w) = w[1] /\ w[1] \in Requests /\ Tail(w) \in Seq(Requests) /\ Len(w) \in Nat \ {0}
      /\ Len(Tail(w)) = Len(w) - 1 /\ 1 \in DOMAIN w
      /\ \A i \in 1..Len(Tail(w)) : Tail(w)[i] = w[i + 1]
  <2>1. Head(w) = w[1] /\ w[1] \in Requests /\ Len(w) \in Nat \ {0} /\ 1 \in DOMAIN w
    BY ONLY <1>1
  <2>2. /\ Tail(w) \in Seq(Requests) /\ Len(Tail(w)) = Len(w) - 1
        /\ \A i \in 1..Len(Tail(w)) : Tail(w)[i] = w[i + 1]
    BY ONLY <1>1, HeadTailProperties
  <2> QED BY <2>1, <2>2
<1>3. HostLane(h)
  BY DEF HostTraffic
<1>4. CASE hostLock[h] = NoOne
  BY <1>1, <1>2, <1>3, <1>4 DEF HostLane
<1>5. CASE hostLock[h] # NoOne
  <2>1. PICK a \in Vms : hostLock[h] = a /\ Waits(a, h)
    BY <1>3, <1>5 DEF HostLane
  <2>2. Asking(a, h)
    BY <1>1, <1>3, <1>5, <2>1 DEF HostLane, Lost, Told
  <2>3. w[Len(w)] = Request(a) /\ \A i \in 1..(Len(w) - 1) : w[i].method \in Silent
    BY <1>1, <2>2 DEF Asking
  <2>4. CASE Len(w) = 1
    <3>1. Tail(w) = <<>> /\ Head(w) = Request(a)
      BY <1>1, <1>2, <2>3, <2>4, Single
    <3>2. pc[a].call \in AsksOf(a) /\ Request(a).method = pc[a].call
      BY <2>1 DEF Waits, Placement, Placed, Fits, Request
    <3>3. Request(a).method \notin Silent
      BY <3>2, NameFacts
    <3> QED BY <1>1, <1>2, <1>5, <2>1, <2>2, <3>1, <3>3 DEF Waits, Asking
  <2>5. CASE Len(w) # 1
    <3>1. Len(w) > 1 /\ 1 \in 1..(Len(w) - 1)
      BY <1>2, <2>5
    <3>2. w[1].method \in Silent
      BY <2>3, <3>1
    <3> QED BY <1>1, <1>2, <1>5, <2>1, <2>2, <3>1, <3>2 DEF Asking
  <2> QED BY <2>4, <2>5
<1> QED BY <1>4, <1>5

LEMMA HostsHandle ==
    ASSUME Placement, HostTraffic, fuel \in Int, NEW h \in Hosts, HostHandles(h)
    PROVE  HostTraffic'
<1>1. UNCHANGED <<conf, pc, hostLock, up>> /\ up[h] /\ wire[h] # <<>>
  BY DEF HostHandles
<1>2. PICK r : r = Head(wire[h])
  OBVIOUS
<1>0. PICK v : v = CASE r.method = "GetBalance" -> Balance [] r.method = "RemainingFuelAsGen" -> fuel [] OTHER -> 0
  OBVIOUS
<1>3. PICK ok \in BOOLEAN :
        /\ wire' = [wire EXCEPT ![h] = Tail(@)]
        /\ reply' = [reply EXCEPT ![h] = IF r.method \in Silent THEN @
                                         ELSE Append(@, [to |-> r.from, ok |-> ok, n |-> v])]
  <2>1. PICK ok \in (IF r.method \in {"ConsumeResult", "NotifyFinished"} THEN {TRUE} ELSE BOOLEAN) :
           reply' = [reply EXCEPT ![h] = IF r.method \in Silent THEN @
                        ELSE Append(@, [to |-> r.from, ok |-> ok, n |-> v])]
    BY <1>0, <1>2 DEF HostHandles
  <2>2. wire' = [wire EXCEPT ![h] = Tail(@)] /\ ok \in BOOLEAN
    BY DEF HostHandles
  <2> QED BY <2>1, <2>2
<1>4. /\ DOMAIN wire' = Hosts /\ DOMAIN reply' = Hosts /\ wire'[h] = Tail(wire[h])
      /\ reply'[h] = IF r.method \in Silent THEN reply[h]
                     ELSE Append(reply[h], [to |-> r.from, ok |-> ok, n |-> v])
      /\ \A g \in Hosts \ {h} : wire'[g] = wire[g] /\ reply'[g] = reply[g]
  BY <1>3 DEF HostTraffic
<1>5. v \in Int /\ (r.method = "GetBalance" => v = Balance)
  <2>1. Balance \in Int /\ 0 \in Int
    BY HostRunAssumption
  <2> QED BY <1>0, <2>1
<1>6. ASSUME NEW g \in Hosts, g # h PROVE HostLane(g)'
  BY <1>1, <1>4, <1>6, LaneStays
<1>7. HostLane(h) /\ Lanes' = Lanes
  BY <1>1, LanesSame DEF HostTraffic
<1>8. PICK w, t : w = wire[h] /\ t = Tail(w) /\ w \in Seq(Requests)
  BY <1>7 DEF HostLane
<1>9. /\ t \in Seq(Requests) /\ Len(w) \in Nat \ {0} /\ Len(t) = Len(w) - 1 /\ reply[h] = <<>>
      /\ \A i \in 1..(Len(w) - 1) : t[i] = w[i + 1]
      /\ DOMAIN t = 1..(Len(w) - 1) /\ DOMAIN w = 1..Len(w)
  <2>1. /\ t \in Seq(Requests) /\ Len(w) \in Nat \ {0} /\ Len(t) = Len(w) - 1 /\ reply[h] = <<>>
        /\ \A i \in 1..(Len(w) - 1) : t[i] = w[i + 1]
    BY <1>1, <1>8, HostReads
  <2>2. DOMAIN t = 1..Len(t) /\ DOMAIN w = 1..Len(w)
    BY <1>8, <2>1
  <2> QED BY <2>1, <2>2
<1>10. \A i \in DOMAIN t : i + 1 \in DOMAIN w /\ t[i] = w[i + 1]
  BY <1>9
<1>11. /\ \A i \in DOMAIN t : t[i].method = "ConsumeFuel" => t[i].n \in 0..FuelMax
       /\ hostLock[h] = NoOne => \A i \in DOMAIN t : t[i].method \in Silent
  BY <1>7, <1>8, <1>10 DEF HostLane
<1>12. \A x \in Vms : hostLock'[h] = x <=> Waits(x, h)'
  BY <1>1, <1>7 DEF HostLane, Waits
<1>13. CASE r.method \in Silent
  <2>1. reply'[h] = <<>> /\ wire'[h] = t
    BY <1>4, <1>8, <1>9, <1>13
  <2>2. ASSUME hostLock[h] # NoOne PROVE Asking(hostLock[h], h)'
    <3>1. Asking(hostLock[h], h) /\ Len(w) > 1
      BY <1>1, <1>2, <1>8, <1>13, <2>2, HostReads
    <3>2. /\ w[Len(w)] = Request(hostLock[h]) /\ up[h] = TRUE
          /\ \A i \in 1..(Len(w) - 1) : w[i].method \in Silent
      BY <1>8, <3>1 DEF Asking
    <3>3. t # <<>> /\ Len(t) \in 1..(Len(w) - 1) /\ Len(t) + 1 = Len(w)
      BY <1>9, <3>1
    <3>4. t[Len(t)] = Request(hostLock[h])
      BY <1>9, <3>2, <3>3
    <3>5. \A i \in 1..(Len(t) - 1) : i + 1 \in 1..(Len(w) - 1) /\ t[i] = w[i + 1]
      BY <1>9, <3>1
    <3>6. Request(hostLock[h])' = Request(hostLock[h])
      BY <1>1 DEF Request
    <3> QED BY <1>1, <2>1, <3>2, <3>3, <3>4, <3>5, <3>6 DEF Asking
  <2>3. wire'[h] \in Seq(Requests)' /\ reply'[h] \in Seq(Replies)' /\ up'[h] \in BOOLEAN /\ up'[h] # FALSE
    <3>1. <<>> \in Seq(Replies)
      OBVIOUS
    <3> QED BY <1>1, <1>7, <1>9, <2>1, <3>1 DEF HostLane, Requests, Replies, Names
  <2>4. /\ hostLock'[h] \in Vms \cup {NoOne}
        /\ hostLock'[h] = NoOne => \A i \in DOMAIN wire'[h] : wire'[h][i].method \in Silent
        /\ \A i \in DOMAIN wire'[h] : wire'[h][i].method = "ConsumeFuel" => wire'[h][i].n \in 0..FuelMax
    BY <1>1, <1>7, <1>11, <2>1 DEF HostLane
  <2>5. hostLock'[h] # NoOne => Asking(hostLock[h], h)'
    BY <1>1, <2>2
  <2>6. HostLane(h)'
    BY ONLY <1>12, <2>1, <2>3, <2>4, <2>5 DEF HostLane
  <2> QED BY <1>1, <1>4, <1>6, <2>6 DEF HostTraffic, Configured
<1>14. CASE r.method \notin Silent
  <2>1. PICK a \in Vms : hostLock[h] = a /\ a # NoOne /\ r = Request(a) /\ t = <<>>
    BY <1>1, <1>2, <1>8, <1>14, HostReads
  <2>2. r.from = a /\ r.method = pc[a].call
    BY <2>1 DEF Request
  <2> DEFINE q == [to |-> a, ok |-> ok, n |-> v]
  <2>3. q \in Replies /\ reply'[h] = Append(<<>>, q) /\ wire'[h] = <<>>
    BY <1>4, <1>5, <1>8, <1>9, <1>14, <2>1, <2>2 DEF Replies
  <2>4. q.to = a /\ q.n = v /\ q.ok = ok
    OBVIOUS
  <2> HIDE DEF q
  <2>5. reply'[h] \in Seq(Replies) /\ Len(reply'[h]) = 1 /\ reply'[h][1] = q
    <3>1. <<>> \in Seq(Replies) /\ Len(<<>>) = 0
      OBVIOUS
    <3> QED BY <2>3, <3>1, AppendProperties
  <2>6. Told(a, h)'
    BY <1>1, <1>5, <2>2, <2>3, <2>4, <2>5 DEF Told
  <2>7. wire'[h] \in Seq(Requests)' /\ reply'[h] \in Seq(Replies)' /\ up'[h] \in BOOLEAN
    BY <1>1, <1>7, <1>8, <1>9, <2>1, <2>3, <2>5 DEF HostLane, Requests, Replies, Names
  <2>8. DOMAIN wire'[h] = {}
    BY <2>3
  <2>9. hostLock'[h] = a /\ a # NoOne /\ hostLock'[h] \in Vms \cup {NoOne}
    BY <1>1, <2>1
  <2>10. Told(hostLock[h], h)'
    BY <1>1, <2>1, <2>6, <2>9
  <2>11. HostLane(h)'
    BY ONLY <1>12, <2>3, <2>7, <2>8, <2>9, <2>10 DEF HostLane
  <2> QED BY <1>1, <1>4, <1>6, <2>11 DEF HostTraffic, Configured
<1> QED BY <1>13, <1>14

LEMMA HostsClose ==
    ASSUME Placement, HostTraffic, NEW h \in Hosts, HostCloses(h)
    PROVE  HostTraffic'
<1>1. /\ UNCHANGED <<conf, pc, hostLock, reply>> /\ up[h]
      /\ up' = [up EXCEPT ![h] = FALSE] /\ wire' = [wire EXCEPT ![h] = <<>>]
  BY DEF HostCloses
<1>2. /\ DOMAIN wire' = Hosts /\ DOMAIN up' = Hosts /\ wire'[h] = <<>> /\ up'[h] = FALSE
      /\ \A g \in Hosts \ {h} : wire'[g] = wire[g] /\ up'[g] = up[g]
  BY <1>1 DEF HostTraffic
<1>3. ASSUME NEW g \in Hosts, g # h PROVE HostLane(g)'
  BY <1>1, <1>2, <1>3, LaneStays
<1>4. HostLane(h) /\ Lanes' = Lanes
  BY <1>1, LanesSame DEF HostTraffic
<1>5. \A x \in Vms : hostLock'[h] = x <=> Waits(x, h)'
  BY <1>1, <1>4 DEF HostLane, Waits
<1>6. hostLock[h] # NoOne => Lost(h)' \/ Told(hostLock[h], h)'
  BY <1>1, <1>2, <1>4 DEF HostLane, Asking, Lost, Told
<1>7. wire'[h] \in Seq(Requests)' /\ reply'[h] \in Seq(Replies)' /\ up'[h] \in BOOLEAN /\ DOMAIN wire'[h] = {}
  BY <1>1, <1>2, <1>4 DEF HostLane, Requests, Replies, Names
<1>8. HostLane(h)'
  BY <1>1, <1>2, <1>4, <1>5, <1>6, <1>7 DEF HostLane
<1> QED BY <1>1, <1>2, <1>3, <1>8 DEF HostTraffic, Configured

(*----- what is on the way to the modules ---------------------------------*)

Kinds == {"Ok", "UserError", "FatalError"}

CallsModule(a, m) == pc[a].at = "module" /\ pc[a].call = m

\* The one request of the VM that has the lock, or its answer, or neither when the module
\* is gone.
Sent(a, m) == answer[m] = <<>> /\ stream[m] = "open" /\ asked[m] = <<[from |-> a, n |-> pc[a].n]>>
Dropped(m) == answer[m] = <<>> /\ stream[m] # "open" /\ asked[m] = <<>>
Delivered(a, m) ==
  /\ asked[m] = <<>>
  /\ \E kind \in Kinds, n \in 0..FuelMax : answer[m] = <<[to |-> a, kind |-> kind, n |-> n]>>

ModLane(m) ==
  /\ modLock[m] \in Vms \cup {NoOne}
  /\ \A a \in Vms : modLock[m] = a <=> CallsModule(a, m)
  /\ modLock[m] = NoOne => asked[m] = <<>> /\ answer[m] = <<>>
  /\ modLock[m] # NoOne => Sent(modLock[m], m) \/ Dropped(m) \/ Delivered(modLock[m], m)

ModTraffic ==
  /\ DOMAIN modLock = Modules /\ IsFun(modLock) /\ DOMAIN stream = Modules /\ DOMAIN asked = Modules /\ DOMAIN answer = Modules
  /\ \A m \in Modules : ModLane(m)

LEMMA ModLaneStays ==
    ASSUME Placement, ModTraffic, NEW m \in Modules,
           modLock'[m] = modLock[m], asked'[m] = asked[m], answer'[m] = answer[m],
           stream'[m] = stream[m] \/ modLock[m] = NoOne,
           \A x \in Vms : pc'[x] = pc[x] \/ (~CallsModule(x, m) /\ ~CallsModule(x, m)')
    PROVE  ModLane(m)'
<1>1. ModLane(m)
  BY DEF ModTraffic
<1>2. \A x \in Vms : modLock'[m] = x <=> CallsModule(x, m)'
  BY <1>1 DEF CallsModule, ModLane
<1>3. ASSUME modLock[m] # NoOne
      PROVE  Sent(modLock[m], m)' \/ Dropped(m)' \/ Delivered(modLock[m], m)'
  <2>1. modLock[m] \in Vms /\ pc'[modLock[m]] = pc[modLock[m]] /\ stream'[m] = stream[m]
    BY <1>1, <1>3 DEF ModLane
  <2>2. Sent(modLock[m], m) => Sent(modLock[m], m)'
    BY <2>1 DEF Sent
  <2>3. Dropped(m) => Dropped(m)'
    BY <2>1 DEF Dropped
  <2>4. Delivered(modLock[m], m) => Delivered(modLock[m], m)'
    BY <2>1 DEF Delivered, Kinds
  <2> QED BY <1>1, <1>3, <2>2, <2>3, <2>4 DEF ModLane
<1>4. /\ modLock'[m] \in Vms \cup {NoOne}
      /\ modLock'[m] = NoOne => asked'[m] = <<>> /\ answer'[m] = <<>>
  BY <1>1 DEF ModLane
<1>5. modLock'[m] # NoOne => Sent(modLock[m], m)' \/ Dropped(m)' \/ Delivered(modLock[m], m)'
  BY <1>3
<1> QED BY ONLY <1>2, <1>4, <1>5 DEF ModLane

LEMMA ModsIdle ==
    ASSUME Placement, ModTraffic, UNCHANGED <<modLock, stream, asked, answer>>,
           \A x \in Vms : pc'[x] = pc[x] \/ (pc[x].at # "module" /\ pc'[x].at # "module")
    PROVE  ModTraffic'
<1>1. ASSUME NEW m \in Modules PROVE ModLane(m)'
  <2>1. \A x \in Vms : pc'[x] = pc[x] \/ (~CallsModule(x, m) /\ ~CallsModule(x, m)')
    BY DEF CallsModule
  <2> QED BY <2>1, ModLaneStays
<1> QED BY <1>1 DEF ModTraffic, Modules

LEMMA ModsSend ==
    ASSUME Placement, ModTraffic, NEW a \in Vms, pc[a].at # "module", NEW m \in Modules, NEW n, Send(a, m, n)
    PROVE  ModTraffic'
<1>1. /\ modLock[m] = NoOne /\ modLock' = [modLock EXCEPT ![m] = a]
      /\ stream' = [stream EXCEPT ![m] = "open"]
      /\ asked' = [asked EXCEPT ![m] = Append(@, [from |-> a, n |-> n])]
      /\ pc' = [pc EXCEPT ![a] = At("module", m, n)] /\ answer' = answer
  BY DEF Send
<1>2. /\ DOMAIN modLock' = Modules /\ IsFun(modLock') /\ DOMAIN stream' = Modules /\ DOMAIN asked' = Modules
      /\ modLock'[m] = a /\ stream'[m] = "open" /\ asked'[m] = Append(asked[m], [from |-> a, n |-> n])
      /\ \A k \in Modules \ {m} : modLock'[k] = modLock[k] /\ stream'[k] = stream[k] /\ asked'[k] = asked[k]
      /\ pc'[a] = At("module", m, n) /\ \A x \in Vms \ {a} : pc'[x] = pc[x]
  BY <1>1, ExceptIsFun DEF ModTraffic, Placement
<1>3. pc'[a].at = "module" /\ pc'[a].call = m /\ pc'[a].n = n
  BY <1>2, AtFields
<1>4. ModLane(m) /\ asked[m] = <<>> /\ answer[m] = <<>>
  BY <1>1 DEF ModTraffic, ModLane
<1>5. ASSUME NEW k \in Modules, k # m PROVE ModLane(k)'
  <2>1. \A x \in Vms : pc'[x] = pc[x] \/ (~CallsModule(x, k) /\ ~CallsModule(x, k)')
    BY <1>2, <1>3, <1>5 DEF CallsModule
  <2> QED BY <1>1, <1>2, <1>5, <2>1, ModLaneStays
<1>6. asked'[m] = <<[from |-> a, n |-> n]>>
  BY <1>2, <1>4
<1>7. Sent(a, m)'
  BY <1>1, <1>2, <1>3, <1>4, <1>6 DEF Sent
<1>8. \A x \in Vms : modLock'[m] = x <=> CallsModule(x, m)'
  <2>1. CallsModule(a, m)'
    BY <1>3 DEF CallsModule
  <2>2. \A x \in Vms \ {a} : x # NoOne /\ ~CallsModule(x, m)
    BY <1>1, <1>4, VmFacts DEF ModLane
  <2>3. \A x \in Vms \ {a} : ~CallsModule(x, m)'
    BY <1>2, <2>2 DEF CallsModule
  <2> QED BY <1>2, <2>1, <2>3
<1>9. a # NoOne /\ modLock'[m] = a
  BY <1>2, VmFacts
<1>10. Sent(modLock[m], m)'
  BY <1>7, <1>9 DEF Sent
<1>11. ModLane(m)'
  BY ONLY <1>8, <1>9, <1>10, a \in Vms DEF ModLane
<1> QED BY <1>1, <1>2, <1>5, <1>11 DEF ModTraffic, Modules

LEMMA ModAnswer ==
    ASSUME Placement, ModTraffic, NEW a \in Vms, pc[a].at = "module"
    PROVE  /\ pc[a].call \in Modules /\ modLock[pc[a].call] = a /\ a # NoOne
           /\ answer[pc[a].call] # <<>> => Delivered(a, pc[a].call)
           /\ asked[pc[a].call] = <<>> \/ Sent(a, pc[a].call)
<1>1. PICK m \in Modules : m = pc[a].call
  BY DEF Placement, Placed, Fits
<1>2. CallsModule(a, m) /\ ModLane(m)
  BY <1>1 DEF CallsModule, ModTraffic
<1>3. modLock[m] = a /\ a # NoOne
  BY <1>2, VmFacts DEF ModLane
<1>4. Sent(a, m) \/ Dropped(m) \/ Delivered(a, m)
  BY <1>2, <1>3 DEF ModLane
<1> QED BY <1>1, <1>3, <1>4 DEF Sent, Dropped, Delivered

LEMMA ModsRelease ==
    ASSUME Placement, ModTraffic, NEW a \in Vms, Replied(a) \/ NoReply(a), pc'[a].at # "module",
           \A x \in Vms \ {a} : pc'[x] = pc[x] \/ (pc[x].at # "module" /\ pc'[x].at # "module")
    PROVE  ModTraffic'
<1>1. pc[a].at = "module"
  BY DEF Replied, NoReply
<1>2. PICK m \in Modules : m = pc[a].call
  BY <1>1 DEF Placement, Placed, Fits
<1>3. /\ modLock[m] = a /\ a # NoOne
      /\ answer[m] # <<>> => Delivered(a, m)
      /\ asked[m] = <<>> \/ Sent(a, m)
  BY <1>1, <1>2, ModAnswer
<1>4. /\ modLock' = [modLock EXCEPT ![m] = NoOne] /\ stream' = stream /\ asked' = asked
      /\ \/ answer[m] # <<>> /\ answer' = [answer EXCEPT ![m] = Tail(@)]
         \/ answer[m] = <<>> /\ answer' = answer /\ stream[m] = "gone"
  BY <1>2 DEF Replied, NoReply
<1>5. /\ modLock'[m] = NoOne /\ DOMAIN modLock' = Modules /\ IsFun(modLock') /\ DOMAIN answer' = Modules
      /\ \A k \in Modules \ {m} : modLock'[k] = modLock[k] /\ answer'[k] = answer[k]
  BY <1>4, ExceptIsFun DEF ModTraffic
<1>6. ASSUME NEW k \in Modules, k # m PROVE ModLane(k)'
  <2>1. \A x \in Vms : pc'[x] = pc[x] \/ (~CallsModule(x, k) /\ ~CallsModule(x, k)')
    BY <1>2, <1>6 DEF CallsModule
  <2> QED BY <1>4, <1>5, <1>6, <2>1, ModLaneStays
<1>7. asked'[m] = <<>> /\ answer'[m] = <<>>
  <2>1. CASE answer[m] # <<>>
    <3>1. PICK r : answer[m] = <<r>> /\ asked[m] = <<>>
      BY <1>3, <2>1 DEF Delivered
    <3>2. answer'[m] = Tail(<<r>>)
      BY <1>4, <2>1, <3>1 DEF ModTraffic
    <3>3. Tail(<<r>>) = <<>>
      <4>1. <<r>> \in Seq({r}) /\ Len(<<r>>) = 1
        OBVIOUS
      <4> QED BY ONLY <4>1, Single
    <3> QED BY <1>4, <3>1, <3>2, <3>3
  <2>2. CASE answer[m] = <<>>
    BY <1>3, <1>4, <2>2 DEF Sent
  <2> QED BY <2>1, <2>2
<1>8. \A x \in Vms : modLock'[m] = x <=> CallsModule(x, m)'
  <2>1. ~CallsModule(a, m)'
    BY DEF CallsModule
  <2>2. \A x \in Vms \ {a} : x # NoOne /\ ~CallsModule(x, m)
    BY <1>3, VmFacts DEF ModTraffic, ModLane
  <2>3. \A x \in Vms \ {a} : ~CallsModule(x, m)'
    BY <2>2 DEF CallsModule
  <2> QED BY <1>3, <1>5, <2>1, <2>2, <2>3
<1>9. ModLane(m)'
  BY ONLY <1>5, <1>7, <1>8 DEF ModLane
<1> QED BY <1>4, <1>5, <1>6, <1>9 DEF ModTraffic, Modules

LEMMA ModsAnswer ==
    ASSUME Placement, ModTraffic, NEW m \in Modules, ModuleAnswers(m)
    PROVE  ModTraffic'
<1>1. /\ UNCHANGED <<pc, modLock, stream>> /\ asked[m] # <<>> /\ asked' = [asked EXCEPT ![m] = Tail(@)]
      /\ \E kind \in Kinds, n \in 0..FuelMax :
           answer' = [answer EXCEPT ![m] = Append(@, [to |-> Head(asked[m]).from, kind |-> kind, n |-> n])]
  <2>1. 0 \in 0..FuelMax /\ \A c \in Consumptions : c \in 0..FuelMax
    BY HostRunAssumption
  <2>2. UNCHANGED <<pc, modLock, stream>> /\ asked[m] # <<>> /\ asked' = [asked EXCEPT ![m] = Tail(@)]
    BY DEF ModuleAnswers
  <2>3. PICK kind \in {"Ok", "UserError", "FatalError"} :
          \E n \in IF m = "llm" /\ kind = "Ok" THEN {c \in Consumptions : c <= Head(asked[m]).n \/ c = FuelMax} ELSE {0} :
           answer' = [answer EXCEPT ![m] = Append(@, [to |-> Head(asked[m]).from, kind |-> kind, n |-> n])]
    BY DEF ModuleAnswers
  <2>4. PICK n \in (IF m = "llm" /\ kind = "Ok" THEN {c \in Consumptions : c <= Head(asked[m]).n \/ c = FuelMax} ELSE {0}) :
           answer' = [answer EXCEPT ![m] = Append(@, [to |-> Head(asked[m]).from, kind |-> kind, n |-> n])]
    BY <2>3
  <2>5. n \in 0..FuelMax
    BY <2>1
  <2>6. \E c \in 0..FuelMax :
           answer' = [answer EXCEPT ![m] = Append(@, [to |-> Head(asked[m]).from, kind |-> kind, n |-> c])]
    BY <2>4, <2>5
  <2>7. kind \in Kinds
    BY DEF Kinds
  <2> QED BY <2>2, <2>6, <2>7
<1>2. PICK kind \in Kinds, n \in 0..FuelMax :
        answer' = [answer EXCEPT ![m] = Append(@, [to |-> Head(asked[m]).from, kind |-> kind, n |-> n])]
  BY <1>1
<1>3. ModLane(m)
  BY DEF ModTraffic
<1>4. PICK a \in Vms : modLock[m] = a /\ a # NoOne /\ Sent(a, m)
  BY <1>1, <1>3 DEF ModLane, Dropped, Delivered
<1>5. PICK r : r = [from |-> a, n |-> pc[a].n] /\ asked[m] = <<r>> /\ answer[m] = <<>> /\ r.from = a
  BY <1>4 DEF Sent
<1>6. Head(<<r>>) = r /\ Tail(<<r>>) = <<>>
  <2>1. <<r>> \in Seq({r}) /\ Len(<<r>>) = 1 /\ <<r>>[1] = r
    OBVIOUS
  <2> QED BY ONLY <2>1, Single
<1>7. /\ asked'[m] = <<>> /\ answer'[m] = <<[to |-> a, kind |-> kind, n |-> n]>>
      /\ DOMAIN asked' = Modules /\ DOMAIN answer' = Modules
      /\ \A k \in Modules \ {m} : asked'[k] = asked[k] /\ answer'[k] = answer[k]
  <2>1. asked'[m] = Tail(asked[m]) /\ DOMAIN asked' = Modules /\ \A k \in Modules \ {m} : asked'[k] = asked[k]
    BY <1>1 DEF ModTraffic
  <2>2. PICK q : q = [to |-> a, kind |-> kind, n |-> n]
    OBVIOUS
  <2>3. answer' = [answer EXCEPT ![m] = Append(@, q)]
    BY <1>2, <1>5, <1>6, <2>2
  <2>4. answer'[m] = Append(<<>>, q) /\ DOMAIN answer' = Modules /\ \A k \in Modules \ {m} : answer'[k] = answer[k]
    BY <1>5, <2>3 DEF ModTraffic
  <2>5. Append(<<>>, q) = <<q>>
    OBVIOUS
  <2> QED BY <1>5, <1>6, <2>1, <2>2, <2>4, <2>5
<1>8. ASSUME NEW k \in Modules, k # m PROVE ModLane(k)'
  BY <1>1, <1>7, <1>8, ModLaneStays
<1>9. Delivered(a, m)'
  BY <1>2, <1>7 DEF Delivered, Kinds
<1>10. \A x \in Vms : modLock'[m] = x <=> CallsModule(x, m)'
  BY <1>1, <1>3 DEF ModLane, CallsModule
<1>11. modLock'[m] = a /\ Delivered(modLock[m], m)'
  BY <1>1, <1>4, <1>9
<1>12. ModLane(m)'
  BY ONLY <1>4, <1>10, <1>11, a \in Vms DEF ModLane
<1> QED BY <1>1, <1>7, <1>8, <1>12 DEF ModTraffic, Modules

LEMMA ModsClose ==
    ASSUME Placement, ModTraffic, NEW m \in Modules, ModuleCloses(m)
    PROVE  ModTraffic'
<1>1. /\ UNCHANGED <<pc, modLock, answer>> /\ asked' = [asked EXCEPT ![m] = <<>>]
      /\ stream' = [stream EXCEPT ![m] = "gone"]
  BY DEF ModuleCloses
<1>2. /\ asked'[m] = <<>> /\ stream'[m] = "gone" /\ DOMAIN asked' = Modules /\ DOMAIN stream' = Modules
      /\ \A k \in Modules \ {m} : asked'[k] = asked[k] /\ stream'[k] = stream[k]
  BY <1>1 DEF ModTraffic
<1>3. ASSUME NEW k \in Modules, k # m PROVE ModLane(k)'
  BY <1>1, <1>2, <1>3, ModLaneStays
<1>4. ModLane(m)
  BY DEF ModTraffic
<1>5. \A x \in Vms : modLock'[m] = x <=> CallsModule(x, m)'
  BY <1>1, <1>4 DEF ModLane, CallsModule
<1>6. /\ modLock'[m] \in Vms \cup {NoOne}
      /\ modLock'[m] = NoOne => asked'[m] = <<>> /\ answer'[m] = <<>>
  BY <1>1, <1>2, <1>4 DEF ModLane
<1>7. modLock'[m] # NoOne => Dropped(m)' \/ Delivered(modLock[m], m)'
  <2>1. ASSUME NEW a, Delivered(a, m) PROVE Delivered(a, m)'
    BY <1>1, <1>2, <2>1 DEF Delivered, Kinds
  <2> QED BY <1>1, <1>2, <1>4, <2>1 DEF ModLane, Sent, Dropped
<1>8. ModLane(m)'
  BY ONLY <1>5, <1>6, <1>7 DEF ModLane
<1> QED BY <1>1, <1>2, <1>3, <1>8 DEF ModTraffic, Modules

(*----- the invariant of both ---------------------------------------------*)

\* The number a VM keeps.
Numbered(a) ==
  /\ pc[a].n \in Int
  /\ pc[a].call = "GetBalance" => pc[a].n \in {-1, 0} \cup Values
  /\ pc[a].at \in {"charge", "count"} => pc[a].n \in 0..FuelMax

Counters ==
  /\ balances \in {-1, Balance} /\ fuel \in 0..Fuel /\ llm_consumption \in 0..FuelMax
  /\ consumed \in Seq(0..FuelMax)

Traffic == HostTraffic /\ ModTraffic /\ (\A a \in Vms : Numbered(a)) /\ Counters /\ crossed = FALSE

\* VM a waits for nobody any more, and the others do not begin to.
Rests(a) ==
  /\ pc'[a].at \notin {"host", "module"} /\ Numbered(a)'
  /\ \A x \in Vms \ {a} :
       \/ pc'[x] = pc[x]
       \/ /\ pc[x].at \notin {"host", "module"} /\ pc'[x].at \notin {"host", "module"}
          /\ Numbered(x)'

LEMMA RestsNumbered ==
    ASSUME NEW a \in Vms, Rests(a), \A x \in Vms : Numbered(x)
    PROVE  \A x \in Vms : Numbered(x)'
<1> TAKE x \in Vms
<1>1. CASE x = a
  BY <1>1 DEF Rests
<1>2. CASE x # a /\ pc'[x] = pc[x]
  BY <1>2 DEF Numbered
<1>3. CASE x # a /\ pc'[x] # pc[x]
  BY <1>3 DEF Rests
<1> QED BY <1>1, <1>2, <1>3

LEMMA ZeroInt == \A k : k = 0 => k \in Int
OBVIOUS

LEMMA NewNumber ==
    ASSUME NEW x, pc'[x].call = "", pc'[x].n \in Int,
           pc'[x].at \in {"charge", "count"} => pc'[x].n \in 0..FuelMax
    PROVE  Numbered(x)'
<1>1. "" # "GetBalance"
  OBVIOUS
<1> QED BY <1>1 DEF Numbered

LEMMA LeavesRests == ASSUME NEW a \in Vms, Leaves(a) PROVE Rests(a)
<1>1. Leaves(a)
  OBVIOUS
<1>2. pc'[a].at \notin {"host", "module", "charge", "count"} /\ pc'[a].call = "" /\ pc'[a].n \in Int
  <2>1. pc'[a].at \notin {"host", "module", "charge", "count"} /\ pc'[a].call = "" /\ pc'[a].n = 0
    BY <1>1, Zenon DEF Leaves
  <2>2. pc'[a].n \in Int
    BY ONLY <2>1, ZeroInt, Zenon
  <2> QED BY <2>1, <2>2
<1>3. Numbered(a)'
  BY <1>2, NewNumber
<1>4. ASSUME NEW x \in Vms \ {a}, pc'[x] # pc[x]
      PROVE  /\ pc[x].at \notin {"host", "module"} /\ pc'[x].at \notin {"host", "module"}
             /\ Numbered(x)'
  <2>1. /\ pc[x].at = "wait" /\ pc'[x].at \in {"ready", "await"} /\ pc'[x].call = "" /\ pc'[x].n = 0
    BY <1>1, <1>4, Zenon DEF Leaves
  <2>2. pc'[x].n \in Int
    BY ONLY <2>1, ZeroInt, Zenon
  <2>3. Numbered(x)'
    BY <2>1, <2>2, NewNumber
  <2> QED BY <2>1, <2>3
<1> QED BY <1>2, <1>3, <1>4 DEF Rests

LEMMA EndRests ==
    ASSUME Placement, NEW a \in Vms, Active(a), VmError(a) \/ InternalError(a), UNCHANGED conf
    PROVE  Rests(a)
BY EndKeeps, LeavesRests

LEMMA GotoRests ==
    ASSUME Placement, NEW a \in Vms, NEW at, Goto(a, at), at \notin {"host", "module", "charge", "count"}
    PROVE  Rests(a)
<1>1. /\ pc'[a].at = at /\ pc'[a].call = "" /\ pc'[a].n = 0
      /\ \A x \in Vms \ {a} : pc'[x] = pc[x]
  BY MovedIdle
<1>2. Numbered(a)'
  <2>1. pc'[a].n \in Int
    BY ONLY <1>1, ZeroInt, Zenon
  <2>2. pc'[a].at \notin {"charge", "count"}
    BY <1>1
  <2> QED BY <1>1, <2>1, <2>2, NewNumber
<1> QED BY <1>1, <1>2 DEF Rests

LEMMA KeepsRests ==
    ASSUME Placement, NEW a \in Vms, NEW at, NEW n, pc' = [pc EXCEPT ![a] = At(at, "", n)],
           at \in {"prompt", "charge", "count"}, n \in Int, at # "prompt" => n \in 0..FuelMax
    PROVE  Rests(a)
<1>1. PICK call : call = "" /\ pc' = [pc EXCEPT ![a] = At(at, call, n)]
  OBVIOUS
<1>2. /\ pc'[a].at = at /\ pc'[a].call = "" /\ pc'[a].n = n
      /\ \A x \in Vms \ {a} : pc'[x] = pc[x]
  <2>1. pc'[a] = At(at, call, n) /\ \A x \in Vms \ {a} : pc'[x] = pc[x]
    BY <1>1 DEF Placement
  <2>2. pc'[a].at = at /\ pc'[a].call = call /\ pc'[a].n = n
    BY ONLY <2>1, AtFields
  <2> QED BY <1>1, <2>1, <2>2
<1>3. Numbered(a)'
  BY <1>2, NewNumber
<1> QED BY <1>1, <1>2, <1>3 DEF Rests

(* What every step has to show.                                            *)
Flow == HostTraffic /\ ModTraffic /\ \A a \in Vms : Numbered(a)

LEMMA FlowIdle ==
    ASSUME Placement, Flow, UNCHANGED <<conf, hostLock, wire, reply, up, modLock, stream, asked, answer>>,
           NEW a \in Vms, Rests(a), pc[a].at \notin {"host", "module"}
    PROVE  Flow'
<1>1. \A x \in Vms : pc'[x] = pc[x] \/ (pc[x].at # "host" /\ pc'[x].at # "host")
  BY DEF Rests
<1>2. \A x \in Vms : pc'[x] = pc[x] \/ (pc[x].at # "module" /\ pc'[x].at # "module")
  BY DEF Rests
<1>3. HostTraffic'
  BY <1>1, HostsIdle DEF Flow
<1>4. ModTraffic'
  BY <1>2, ModsIdle DEF Flow
<1> QED BY <1>3, <1>4, RestsNumbered DEF Flow

LEMMA FlowStays ==
    ASSUME Placement, Flow, UNCHANGED <<conf, pc, hostLock, wire, reply, up, modLock, stream, asked, answer>>
    PROVE  Flow'
<1>1. HostTraffic' /\ ModTraffic'
  BY HostsIdle, ModsIdle DEF Flow
<1> QED BY <1>1 DEF Flow, Numbered

LEMMA FlowAsk ==
    ASSUME Placement, Flow, NEW a \in Vms, pc[a].at \notin {"host", "module"}, UNCHANGED <<conf, modVars>>,
           NEW method, NEW n \in Int, method \in AsksOf(a),
           method = "GetBalance" => n \in {-1, 0} \cup Values,
           Ask(a, method, n)
    PROVE  Flow'
<1>1. method \in Names \ Silent
  BY NameFacts
<1>2. HostTraffic'
  BY ONLY Placement, Flow, <1>1, a \in Vms, n \in Int, pc[a].at \notin {"host", "module"}, UNCHANGED <<conf, modVars>>,
          Ask(a, method, n), HostsAsk DEF Flow
<1>3. /\ pc'[a] = At("host", method, n) /\ \A x \in Vms \ {a} : pc'[x] = pc[x]
  BY DEF Ask, Placement
<1>4. pc'[a].at = "host" /\ pc'[a].call = method /\ pc'[a].n = n
  BY <1>3, AtFields
<1>5. \A x \in Vms : pc'[x] = pc[x] \/ (pc[x].at # "module" /\ pc'[x].at # "module")
  BY <1>3, <1>4
<1>6. ModTraffic'
  BY <1>5, ModsIdle DEF Flow, modVars
<1>7. \A x \in Vms : Numbered(x)'
  <2> TAKE x \in Vms
  <2>1. CASE x = a
    BY <1>4, <2>1 DEF Numbered
  <2>2. CASE x # a
    BY <1>3, <2>2 DEF Numbered, Flow
  <2> QED BY <2>1, <2>2
<1> QED BY <1>2, <1>6, <1>7 DEF Flow

LEMMA FlowAskOrFail ==
    ASSUME Placement, Flow, NEW a \in Vms, Ready(a), UNCHANGED <<conf, modVars>>,
           NEW method, NEW n \in Int, method \in AsksOf(a),
           method = "GetBalance" => n \in {-1, 0} \cup Values,
           AskOrFail(a, method, n)
    PROVE  Flow'
<1>1. CASE Ask(a, method, n)
  <2>1. pc[a].at \notin {"host", "module"}
    BY DEF Ready
  <2> QED BY <1>1, <2>1, FlowAsk
<1>2. CASE InternalError(a) /\ UNCHANGED hostVars
  <2>1. Active(a) /\ pc[a].at \notin {"host", "module"}
    BY ReadyActive DEF Ready
  <2>2. Rests(a)
    BY <1>2, <2>1, EndRests
  <2> QED BY <1>2, <2>1, <2>2, FlowIdle DEF hostVars, modVars
<1> QED BY <1>1, <1>2 DEF AskOrFail

LEMMA FlowHost ==
    ASSUME Placement, Flow, UNCHANGED <<conf, modVars>>, NEW a \in Vms, Answered(a) \/ ReadFails(a), Rests(a)
    PROVE  Flow'
<1>1. pc[a].at = "host"
  BY DEF Answered, ReadFails
<1>2. /\ pc'[a].at # "host"
      /\ \A x \in Vms \ {a} : pc'[x] = pc[x] \/ (pc[x].at # "host" /\ pc'[x].at # "host")
  BY DEF Rests
<1>3. \A x \in Vms : pc'[x] = pc[x] \/ (pc[x].at # "module" /\ pc'[x].at # "module")
  BY <1>1 DEF Rests
<1>4. HostTraffic'
  BY <1>2, HostsRelease DEF Flow
<1>5. ModTraffic'
  BY <1>3, ModsIdle DEF Flow, modVars
<1> QED BY <1>4, <1>5, RestsNumbered DEF Flow

LEMMA FlowModule ==
    ASSUME Placement, Flow, UNCHANGED <<conf, hostVars>>, NEW a \in Vms, Replied(a) \/ NoReply(a), Rests(a)
    PROVE  Flow'
<1>1. pc[a].at = "module"
  BY DEF Replied, NoReply
<1>2. /\ pc'[a].at # "module"
      /\ \A x \in Vms \ {a} : pc'[x] = pc[x] \/ (pc[x].at # "module" /\ pc'[x].at # "module")
  BY DEF Rests
<1>3. \A x \in Vms : pc'[x] = pc[x] \/ (pc[x].at # "host" /\ pc'[x].at # "host")
  BY <1>1 DEF Rests
<1>4. HostTraffic'
  BY <1>3, HostsIdle DEF Flow, hostVars
<1>5. ModTraffic'
  BY <1>2, ModsRelease DEF Flow
<1> QED BY <1>4, <1>5, RestsNumbered DEF Flow

LEMMA FlowSend ==
    ASSUME Placement, Flow, UNCHANGED <<conf, hostVars>>, NEW a \in Vms, pc[a].at \notin {"host", "module"},
           NEW m \in Modules, NEW n \in Int, Send(a, m, n)
    PROVE  Flow'
<1>1. PICK at : at = "module" /\ pc' = [pc EXCEPT ![a] = At(at, m, n)]
  BY DEF Send
<1>2. /\ pc'[a].at = at /\ pc'[a].call = m /\ pc'[a].n = n
      /\ \A x \in Vms \ {a} : pc'[x] = pc[x]
  <2>1. pc'[a] = At(at, m, n) /\ \A x \in Vms \ {a} : pc'[x] = pc[x]
    BY <1>1 DEF Placement
  <2>2. pc'[a].at = at /\ pc'[a].call = m /\ pc'[a].n = n
    BY ONLY <2>1, AtFields
  <2> QED BY <2>1, <2>2
<1>3. \A x \in Vms : pc'[x] = pc[x] \/ (pc[x].at # "host" /\ pc'[x].at # "host")
  BY <1>1, <1>2
<1>4. HostTraffic'
  BY <1>3, HostsIdle DEF Flow, hostVars
<1>5. ModTraffic'
  BY ModsSend DEF Flow
<1>6. Numbered(a)'
  BY <1>1, <1>2 DEF Numbered, Modules
<1>7. \A x \in Vms : Numbered(x)'
  BY <1>2, <1>6 DEF Numbered, Flow
<1> QED BY <1>4, <1>5, <1>7 DEF Flow

LEMMA FlowTell ==
    ASSUME Placement, Flow, UNCHANGED <<conf, modVars>>, NEW a \in Vms, pc[a].at \notin {"host", "module"},
           NEW method \in Silent, NEW n \in Int, method = "ConsumeFuel" => n \in 0..FuelMax,
           Tell(a, method, n), Rests(a)
    PROVE  Flow'
<1>1. \A x \in Vms : pc'[x] = pc[x] \/ (pc[x].at # "host" /\ pc'[x].at # "host")
  BY DEF Rests
<1>2. \A x \in Vms : pc'[x] = pc[x] \/ (pc[x].at # "module" /\ pc'[x].at # "module")
  BY DEF Rests
<1>3. HostTraffic'
  BY <1>1, HostsTell DEF Flow
<1>4. ModTraffic'
  BY <1>2, ModsIdle DEF Flow, modVars
<1> QED BY <1>3, <1>4, RestsNumbered DEF Flow

(* Once every block is off, nobody uses a module, and all can be closed.   *)
LEMMA ModsAbandon ==
    ASSUME Placement, ModTraffic, AllOff, Abandon
    PROVE  ModTraffic'
<1>1. /\ stream' = [m \in Modules |-> "none"] /\ UNCHANGED <<modLock, asked, answer>> /\ Goto(Main, "exit")
  BY DEF Abandon
<1>2. \A x \in Vms : pc[x].at # "module"
  <2>1. pc[Main].at # "module"
    BY VmFacts DEF Placement, Placed, Fits, PlacesOf
  <2>2. \A b \in Blocks : pc[b].at # "module"
    BY DEF AllOff, Off
  <2> QED BY <2>1, <2>2, VmFacts
<1>3. \A x \in Vms : pc'[x].at # "module"
  <2>1. pc'[Main].at = "exit" /\ \A x \in Vms \ {Main} : pc'[x] = pc[x]
    BY <1>1, MovedIdle, VmFacts
  <2> QED BY <1>2, <2>1
<1>4. ASSUME NEW m \in Modules PROVE ModLane(m)'
  <2>1. modLock[m] = NoOne
    BY <1>2 DEF ModTraffic, ModLane, CallsModule
  <2>2. \A x \in Vms : ~CallsModule(x, m) /\ ~CallsModule(x, m)'
    BY <1>2, <1>3 DEF CallsModule
  <2> QED BY <1>1, <2>1, <2>2, ModLaneStays
<1> QED BY <1>1, <1>4 DEF ModTraffic, Modules

LEMMA FlowAbandon ==
    ASSUME Placement, Flow, AllOff, Abandon, UNCHANGED conf,
           \/ UNCHANGED hostVars /\ pc[Main].at # "host"
           \/ ReadFails(Main)
    PROVE  Flow'
<1>0. Main \in Vms
  BY VmFacts
<1>1. Goto(Main, "exit")
  BY DEF Abandon
<1>2. Rests(Main)
  BY <1>0, <1>1, GotoRests
<1>3. ModTraffic'
  BY ModsAbandon DEF Flow
<1>4. CASE UNCHANGED hostVars /\ pc[Main].at # "host"
  <2>1. \A x \in Vms : pc'[x] = pc[x] \/ (pc[x].at # "host" /\ pc'[x].at # "host")
    BY <1>2, <1>4 DEF Rests
  <2>2. HostTraffic'
    BY <1>4, <2>1, HostsIdle DEF Flow, hostVars
  <2> QED BY <1>0, <1>2, <1>3, <2>2, RestsNumbered DEF Flow
<1>5. CASE ReadFails(Main)
  <2>1. /\ pc'[Main].at # "host"
        /\ \A x \in Vms \ {Main} : pc'[x] = pc[x] \/ (pc[x].at # "host" /\ pc'[x].at # "host")
    BY <1>2 DEF Rests
  <2>2. HostTraffic'
    BY <1>0, <1>5, <2>1, HostsRelease DEF Flow
  <2> QED BY <1>0, <1>2, <1>3, <2>2, RestsNumbered DEF Flow
<1> QED BY <1>4, <1>5

LEMMA CallsFlow ==
    ASSUME Placement, Flow, NEW a \in Vms,
           \/ Query(a) \/ (\E n \in {-1, 0} \cup Values : get_balance(a, n))
           \/ a \in Blocks /\ ExecPrompt(a)
           \/ \E slot \in Slots : storage_write(slot)
    PROVE  Flow'
<1>0. 0 \in Int /\ \A n \in {-1, 0} \cup Values : n \in Int
  BY HostRunAssumption
<1>1. CASE Query(a)
  <2>1. PICK method \in {"StorageRead"} \cup IF a = Main THEN {"EthCall"} ELSE {} : AskOrFail(a, method, 0)
    BY <1>1 DEF Query
  <2>2. /\ method \in AsksOf(a) /\ method # "GetBalance" /\ Ready(a) /\ UNCHANGED <<conf, modVars>>
    BY <1>1, <2>1 DEF AsksOf, Query, MayCall
  <2>3. PICK n : n \in Int /\ AskOrFail(a, method, n)
    BY <1>0, <2>1
  <2> QED BY ONLY Placement, Flow, a \in Vms, <2>2, <2>3, FlowAskOrFail
<1>2. CASE \E n \in {-1, 0} \cup Values : get_balance(a, n)
  <2>1. PICK n \in {-1, 0} \cup Values : get_balance(a, n)
    BY <1>2
  <2>2. Ready(a) /\ UNCHANGED <<conf, modVars>>
    BY <2>1 DEF get_balance, MayCall
  <2>3. CASE AskOrFail(a, "GetBalance", n)
    <3>1. PICK method : method = "GetBalance" /\ AskOrFail(a, method, n)
      BY <2>3
    <3>2. method \in AsksOf(a)
      BY <3>1 DEF AsksOf
    <3>3. n \in {-1, 0} \cup Values /\ n \in Int
      BY <1>0
    <3> QED BY ONLY Placement, Flow, a \in Vms, <2>2, <3>1, <3>2, <3>3, FlowAskOrFail
  <2>4. CASE UNCHANGED <<pc, hostVars, queueVars>>
    BY <2>2, <2>4, FlowStays DEF hostVars, modVars
  <2> QED BY <2>1, <2>3, <2>4 DEF get_balance
<1>3. CASE a \in Blocks /\ ExecPrompt(a)
  <2>1. PICK method, n : method = "RemainingFuelAsGen" /\ n = 0 /\ AskOrFail(a, method, n)
    BY <1>3 DEF ExecPrompt
  <2>2. method \in AsksOf(a) /\ method # "GetBalance" /\ Ready(a) /\ UNCHANGED <<conf, modVars>>
    BY <1>3, <2>1, VmFacts DEF AsksOf, ExecPrompt, MayCall
  <2>3. n \in Int
    BY ONLY <2>1, ZeroInt
  <2>4. AskOrFail(a, method, n)
    BY <2>1
  <2> QED BY ONLY Placement, Flow, a \in Vms, <2>2, <2>3, <2>4, FlowAskOrFail
<1>4. CASE \E slot \in Slots : storage_write(slot)
  BY <1>4, FlowStays DEF storage_write, hostVars, modVars
<1> QED BY <1>1, <1>2, <1>3, <1>4

LEMMA ModulesFlow ==
    ASSUME Placement, Flow, NEW b \in Blocks, WebRequest(b) \/ Prompt(b) \/ ModuleReplies(b)
    PROVE  Flow'
<1>0. b \in Vms /\ UNCHANGED <<conf, hostVars>>
  BY VmFacts DEF WebRequest, Prompt, ModuleReplies
<1>1. Active(b) /\ pc[b].n \in Int
  <2>1. pc[b].at \in {"ready", "prompt", "module"}
    BY DEF WebRequest, Prompt, ModuleReplies, MayCall, Ready, Replied, NoReply
  <2>2. Active(b)
    BY <1>0, <2>1, ReadyActive
  <2> QED BY <1>0, <2>2 DEF Flow, Numbered
<1>2. ASSUME InternalError(b) PROVE Rests(b)
  BY <1>0, <1>1, <1>2, EndRests
<1>3. CASE WebRequest(b) \/ Prompt(b)
  <2>1. pc[b].at \notin {"host", "module"}
    BY <1>3 DEF WebRequest, Prompt, MayCall, Ready
  <2>2. CASE InternalError(b) /\ UNCHANGED modVars
    BY <1>0, <1>2, <2>1, <2>2, FlowIdle DEF hostVars, modVars
  <2>3. CASE \E m \in Modules, n \in Int : Send(b, m, n)
    BY <1>0, <2>1, <2>3, FlowSend
  <2>4. ASSUME NEW n, n \in Int, Send(b, "web", n) \/ Send(b, "llm", n)
        PROVE  \E m \in Modules, k \in Int : Send(b, m, k)
    <3>1. "web" \in Modules /\ "llm" \in Modules
      BY DEF Modules
    <3> QED BY <2>4, <3>1
  <2>5. ASSUME Send(b, "web", 0) PROVE \E m \in Modules, k \in Int : Send(b, m, k)
    <3>1. PICK n : n = 0 /\ Send(b, "web", n)
      BY <2>5
    <3>2. n \in Int
      BY ONLY <3>1, ZeroInt
    <3> QED BY <2>4, <3>1, <3>2
  <2>6. Send(b, "llm", pc[b].n) => \E m \in Modules, k \in Int : Send(b, m, k)
    BY <1>1, <2>4
  <2> QED BY <1>3, <2>2, <2>3, <2>5, <2>6 DEF WebRequest, Prompt
<1>4. CASE ModuleReplies(b)
  <2>1. Replied(b) \/ NoReply(b)
    BY <1>4 DEF ModuleReplies
  <2>2. Rests(b)
    <3>1. CASE InternalError(b)
      BY <1>2, <3>1
    <3>2. CASE Goto(b, "ready")
      <4>1. PICK at : at = "ready" /\ Goto(b, at)
        BY <3>2
      <4>2. at \notin {"host", "module", "charge", "count"}
        BY <4>1
      <4> QED BY ONLY Placement, <1>0, <4>1, <4>2, GotoRests
    <3>3. CASE Replied(b) /\ pc' = [pc EXCEPT ![b] = At("charge", "", Head(answer[pc[b].call]).n)]
      <4>1. PICK m : m = pc[b].call /\ Delivered(b, m)
        BY <1>0, <3>3, ModAnswer DEF Flow, Replied
      <4>2. PICK kind \in Kinds, n \in 0..FuelMax : answer[m] = <<[to |-> b, kind |-> kind, n |-> n]>>
        BY <4>1 DEF Delivered
      <4> DEFINE q == [to |-> b, kind |-> kind, n |-> n]
      <4>0. q.n = n
        OBVIOUS
      <4> HIDE DEF q
      <4>3. PICK r : r = q /\ r.n = n
        BY <4>0
      <4>4. Head(<<r>>) = r
        <5>1. <<r>> \in Seq({r}) /\ Len(<<r>>) = 1 /\ <<r>>[1] = r
          OBVIOUS
        <5> QED BY ONLY <5>1, Single
      <4>8. answer[m] = <<r>>
        BY <4>2, <4>3 DEF q
      <4>5. PICK at : at = "charge" /\ pc' = [pc EXCEPT ![b] = At(at, "", n)]
        BY <3>3, <4>1, <4>3, <4>4, <4>8
      <4>6. n \in Int /\ n \in 0..FuelMax
        BY HostRunAssumption
      <4>7. at \in {"prompt", "charge", "count"}
        BY <4>5
      <4> QED BY ONLY Placement, <1>0, <4>5, <4>6, <4>7, KeepsRests
    <3> QED BY <1>4, <3>1, <3>2, <3>3 DEF ModuleReplies
  <2> QED BY <1>0, <2>1, <2>2, FlowModule
<1> QED BY <1>3, <1>4

LEMMA ChargeFlow ==
    ASSUME Placement, Flow, NEW b \in Blocks, ConsumeFuel(b) \/ CountConsumption(b)
    PROVE  Flow'
<1>0. b \in Vms /\ UNCHANGED <<conf, modVars>>
  BY VmFacts DEF ConsumeFuel, CountConsumption
<1>1. pc[b].at \in {"charge", "count"} /\ pc[b].at \notin {"host", "module"}
  BY DEF ConsumeFuel, CountConsumption
<1>2. Active(b)
  BY <1>0, <1>1, ReadyActive
<1>3. PICK n : n = pc[b].n /\ n \in Int /\ n \in 0..FuelMax
  BY <1>0, <1>1 DEF Flow, Numbered
<1>4. Rests(b)
  <2>1. CASE VmError(b) \/ InternalError(b)
    BY <1>0, <1>2, <2>1, EndRests
  <2>2. CASE Goto(b, "ready")
    <3>1. PICK at : at = "ready" /\ Goto(b, at)
      BY <2>2
    <3>2. at \notin {"host", "module", "charge", "count"}
      BY <3>1
    <3> QED BY ONLY Placement, <1>0, <3>1, <3>2, GotoRests
  <2>3. CASE pc' = [pc EXCEPT ![b] = At("count", "", pc[b].n)]
    <3>1. PICK at : at = "count" /\ pc' = [pc EXCEPT ![b] = At(at, "", n)]
      BY <1>3, <2>3
    <3>2. at \in {"prompt", "charge", "count"}
      BY <3>1
    <3> QED BY ONLY Placement, <1>0, <1>3, <3>1, <3>2, KeepsRests
  <2> QED BY <2>1, <2>2, <2>3 DEF ConsumeFuel, CountConsumption
<1>5. CASE UNCHANGED hostVars
  BY <1>0, <1>1, <1>4, <1>5, FlowIdle DEF hostVars, modVars
<1>6. CASE Tell(b, "ConsumeFuel", pc[b].n)
  <2>1. PICK method : method = "ConsumeFuel" /\ Tell(b, method, n)
    BY <1>3, <1>6
  <2>2. method \in Silent
    BY <2>1 DEF Silent
  <2> QED BY ONLY Placement, Flow, <1>0, <1>1, <1>3, <1>4, <2>1, <2>2, FlowTell
<1> QED BY <1>5, <1>6 DEF ConsumeFuel, CountConsumption

LEMMA HearsFlow ==
    ASSUME Placement, Flow, NEW a \in Vms, VmHears(a) \/ VmEnds(a)
    PROVE  Flow'
<1>0. UNCHANGED <<conf, modVars>>
  BY DEF VmHears, VmEnds
<1>1. Active(a)
  <2>1. \/ pc[a].at \in {"ready", "prompt", "module", "charge", "count"}
        \/ pc[a].at = "host" /\ pc[a].call \notin {"ConsumeResult", "NotifyFinished"}
    BY DEF VmHears, VmEnds, Answered, ReadFails, Ready
  <2> QED BY <2>1, ReadyActive
<1>2. CASE VmHears(a)
  <2>1. Answered(a) \/ ReadFails(a)
    BY <1>2 DEF VmHears
  <2>2. CASE VmError(a) \/ InternalError(a)
    BY <1>0, <1>1, <2>1, <2>2, EndRests, FlowHost
  <2>3. CASE Goto(a, "ready")
    <3>1. PICK at : at = "ready" /\ Goto(a, at)
      BY <2>3
    <3>2. at \notin {"host", "module", "charge", "count"}
      BY <3>1
    <3>3. Rests(a)
      BY ONLY Placement, a \in Vms, <3>1, <3>2, GotoRests
    <3> QED BY <1>0, <2>1, <3>3, FlowHost
  <2>4. CASE Answered(a) /\ pc' = [pc EXCEPT ![a] = At("prompt", "", Head(reply[HostFor(pc[a].call)]).n)]
    <3>1. PICK n : n = Head(reply[HostFor(pc[a].call)]).n /\ n \in Int
      BY <2>4, HostAnswer DEF Flow, Replies
    <3>2. PICK at : at = "prompt" /\ pc' = [pc EXCEPT ![a] = At(at, "", n)]
      BY <2>4, <3>1
    <3>3. at \in {"prompt", "charge", "count"} /\ (at # "prompt" => n \in 0..FuelMax)
      BY <3>2
    <3>4. Rests(a)
      BY ONLY Placement, a \in Vms, <3>1, <3>2, <3>3, KeepsRests
    <3> QED BY <1>0, <2>1, <3>4, FlowHost
  <2> QED BY <1>2, <2>2, <2>3, <2>4 DEF VmHears
<1>3. CASE VmEnds(a)
  <2>1. pc[a].at \notin {"host", "module"} /\ UNCHANGED hostVars
    BY <1>3 DEF VmEnds, Ready
  <2>2. Leaves(a)
    <3>1. CASE a = Main
      BY <1>0, <1>1, <1>3, <3>1, MainEndsKeeps DEF VmEnds
    <3>2. CASE a # Main
      <4>1. a \in Blocks /\ ~Off(a)
        BY <1>1, <3>2, VmFacts DEF Active
      <4>2. PICK how : BlockEnds(a, how)
        BY <1>3, <3>2 DEF VmEnds
      <4> QED BY <1>0, <4>1, <4>2, BlockEndsKeeps
    <3> QED BY <3>1, <3>2
  <2> QED BY <1>0, <2>1, <2>2, LeavesRests, FlowIdle DEF hostVars, modVars
<1> QED BY <1>2, <1>3

LEMMA NondetFlow ==
    ASSUME Placement, Flow, RunNondet \/ \E b \in Blocks : TakeBlock(b)
    PROVE  Flow'
<1>0. Main \in Vms /\ UNCHANGED <<conf, hostVars, modVars>>
  BY VmFacts DEF RunNondet, TakeBlock
<1>1. CASE RunNondet
  <2>1. pc[Main].at = "ready" /\ pc[Main].at \notin {"host", "module"}
    BY <1>1 DEF RunNondet, MayCall, Ready
  <2>2. Rests(Main) \/ pc' = pc
    <3>1. CASE Goto(Main, "await")
      <4>1. PICK at : at = "await" /\ Goto(Main, at)
        BY <3>1
      <4>2. at \notin {"host", "module", "charge", "count"}
        BY <4>1
      <4> QED BY ONLY Placement, <1>0, <4>1, <4>2, GotoRests
    <3>2. CASE conf.role = "leader" /\ pc' = [pc EXCEPT ![Main] = At("wait", "", 0), ![next] = At("ready", "", 0)]
      <4>1. PICK b : b = next /\ b \in Blocks /\ b \in Vms /\ b # Main
        BY <1>1, VmFacts DEF RunNondet, Placement
      <4>2. /\ pc'[Main] = At("wait", "", 0) /\ pc'[b] = At("ready", "", 0)
            /\ \A x \in Vms \ {Main, b} : pc'[x] = pc[x]
        BY <1>0, <3>2, <4>1 DEF Placement
      <4>3. Idle(pc'[Main], "wait") /\ Idle(pc'[b], "ready")
        BY <4>2, IdleFields
      <4>4. /\ pc'[Main].at = "wait" /\ pc'[Main].call = "" /\ pc'[Main].n = 0
            /\ pc'[b].at = "ready" /\ pc'[b].call = "" /\ pc'[b].n = 0
        BY <4>3, Zenon DEF Idle
      <4>5. pc'[Main].n \in Int /\ pc'[b].n \in Int
        BY ONLY <4>4, ZeroInt, Zenon
      <4>6. Numbered(Main)'
        BY <4>4, <4>5, NewNumber
      <4>7. Numbered(b)'
        BY <4>4, <4>5, NewNumber
      <4>8. pc[b].at \notin {"host", "module"}
        <5>1. Fits(Main, pc[Main].at, pc[Main].call)
          BY <1>0 DEF Placement, Placed
        <5>2. Off(b)
          BY <2>1, <3>2, <4>1 DEF Placement, Leads
        <5> QED BY <5>2 DEF Off
      <4> QED BY <4>2, <4>4, <4>6, <4>7, <4>8 DEF Rests
    <3> QED BY <1>1, <3>1, <3>2 DEF RunNondet
  <2>3. CASE Rests(Main)
    BY <1>0, <2>1, <2>3, FlowIdle DEF hostVars, modVars
  <2>4. CASE pc' = pc
    BY <1>0, <2>4, FlowStays DEF hostVars, modVars
  <2> QED BY <2>2, <2>3, <2>4
<1>2. CASE \E b \in Blocks : TakeBlock(b)
  <2>1. PICK b \in Blocks : TakeBlock(b)
    BY <1>2
  <2>2. b \in Vms /\ pc[b].at \notin {"host", "module"}
    BY <2>1, VmFacts DEF TakeBlock
  <2>3. CASE Goto(b, "ready")
    <3>1. PICK at : at = "ready" /\ Goto(b, at)
      BY <2>3
    <3>2. at \notin {"host", "module", "charge", "count"}
      BY <3>1
    <3>3. Rests(b)
      BY ONLY Placement, <2>2, <3>1, <3>2, GotoRests
    <3> QED BY <1>0, <2>2, <3>3, FlowIdle DEF hostVars, modVars
  <2>4. CASE pc' = pc
    BY <1>0, <2>4, FlowStays DEF hostVars, modVars
  <2> QED BY <2>1, <2>3, <2>4 DEF TakeBlock
<1> QED BY <1>1, <1>2

(* The main VM goes on with the end of the run.                            *)
LEMMA RunRests ==
    ASSUME Placement, NEW at, Goto(Main, at),
           at \in {"ready", "await", "notify", "report", "finish", "exit"}
    PROVE  Rests(Main)
<1>1. at \notin {"host", "module", "charge", "count"}
  OBVIOUS
<1> QED BY <1>1, GotoRests, VmFacts

LEMMA RunFlow ==
    ASSUME Placement, Judged, Flow, RunStep
    PROVE  Flow'
<1>0. Main \in Vms
  BY VmFacts
<1>1. CASE Setup \/ AwaitNondetVms
  <2>1. UNCHANGED <<conf, hostVars, modVars>> /\ pc[Main].at \notin {"host", "module"}
    BY <1>1 DEF Setup, AwaitNondetVms
  <2>2. \E at \in {"ready", "notify", "report", "exit"} : Goto(Main, at)
    BY <1>1 DEF Setup, AwaitNondetVms
  <2>3. Rests(Main)
    BY <2>2, RunRests
  <2> QED BY <1>0, <2>1, <2>3, FlowIdle DEF hostVars, modVars
<1>2. CASE NotifyDisagreement
  <2>1. UNCHANGED conf /\ pc[Main].at = "notify" /\ pc[Main].at \notin {"host", "module"} /\ AllOff
    BY <1>2 DEF NotifyDisagreement, Placement, Stages, Decided
  <2>2. CASE Abandon /\ UNCHANGED hostVars
    BY <2>1, <2>2, FlowAbandon
  <2>3. CASE Tell(Main, "NotifyNondetDisagreement", verdict.call) /\ Goto(Main, "report") /\ UNCHANGED modVars
    <3>1. PICK method, n, a : /\ method = "NotifyNondetDisagreement" /\ n = verdict.call /\ a = Main
                              /\ Tell(a, method, n)
      BY <2>3
    <3>2. method \in Silent /\ method # "ConsumeFuel"
      BY <3>1 DEF Silent
    <3>3. Rests(a)
      BY <2>3, <3>1, RunRests
    <3>4. n \in Int
      BY <3>1 DEF Judged
    <3>5. a \in Vms /\ pc[a].at \notin {"host", "module"}
      BY <1>0, <2>1, <3>1
    <3> QED BY ONLY Placement, Flow, <2>1, <2>3, <3>1, <3>2, <3>3, <3>4, <3>5, FlowTell
  <2> QED BY <1>2, <2>2, <2>3 DEF NotifyDisagreement
<1>3. CASE ConsumeResult \/ NotifyFinished
  <2>1. UNCHANGED conf /\ pc[Main].at \notin {"host", "module"} /\ AllOff
    BY <1>3 DEF ConsumeResult, NotifyFinished, Placement, Stages, Decided, Reporting
  <2>2. CASE Abandon /\ UNCHANGED hostVars
    BY <2>1, <2>2, FlowAbandon
  <2>3. CASE (Ask(Main, "ConsumeResult", 0) \/ Ask(Main, "NotifyFinished", 0)) /\ UNCHANGED modVars
    <3>1. PICK method \in {"ConsumeResult", "NotifyFinished"} : Ask(Main, method, 0)
      BY <2>3
    <3>2. PICK n, a : n = 0 /\ a = Main /\ Ask(a, method, n)
      BY <3>1
    <3>3. n \in Int
      BY ONLY <3>2, ZeroInt
    <3>4. method \in AsksOf(a) /\ method # "GetBalance"
      BY <3>1, <3>2 DEF AsksOf
    <3>5. a \in Vms /\ pc[a].at \notin {"host", "module"}
      BY <1>0, <2>1, <3>2
    <3> QED BY ONLY Placement, Flow, <2>1, <2>3, <3>2, <3>3, <3>4, <3>5, FlowAsk
  <2> QED BY <1>3, <2>2, <2>3 DEF ConsumeResult, NotifyFinished
<1>4. CASE Acknowledged
  <2>1. UNCHANGED conf /\ AllOff
    BY <1>4 DEF Acknowledged, Placement, Stages, Decided, Reporting
  <2>2. CASE ReadFails(Main) /\ Abandon
    BY <2>1, <2>2, FlowAbandon
  <2>3. CASE Answered(Main) /\ UNCHANGED modVars /\ \E at \in {"finish", "exit"} : Goto(Main, at)
    <3>1. Rests(Main)
      BY <2>3, RunRests
    <3> QED BY <1>0, <2>1, <2>3, <3>1, FlowHost
  <2> QED BY <1>4, <2>2, <2>3 DEF Acknowledged
<1> QED BY <1>1, <1>2, <1>3, <1>4 DEF RunStep

LEMMA StepFlow ==
    ASSUME Placement, Judged, Flow, fuel \in Int, [Next]_vars
    PROVE  Flow'
<1>1. CASE UNCHANGED vars
  BY <1>1, FlowStays DEF vars
<1>2. CASE Next
  <2>1. CASE \E a \in Vms : \/ Query(a) \/ VmHears(a) \/ VmEnds(a)
                            \/ \E n \in {-1, 0} \cup Values : get_balance(a, n)
    BY <2>1, CallsFlow, HearsFlow
  <2>2. CASE RunNondet \/ (\E slot \in Slots : storage_write(slot)) \/ RunStep
    BY <2>2, NondetFlow, CallsFlow, RunFlow, VmFacts
  <2>3. CASE \E b \in Blocks : \/ WebRequest(b) \/ ExecPrompt(b) \/ Prompt(b) \/ ModuleReplies(b)
                               \/ ConsumeFuel(b) \/ CountConsumption(b) \/ TakeBlock(b)
    BY <2>3, VmFacts, CallsFlow, ModulesFlow, ChargeFlow, NondetFlow
  <2>4. CASE \E h \in Hosts : HostHandles(h) \/ HostCloses(h)
    <3>1. HostTraffic'
      BY <2>4, HostsHandle, HostsClose DEF Flow
    <3>2. UNCHANGED <<pc, modVars>>
      BY <2>4 DEF HostHandles, HostCloses
    <3>3. ModTraffic'
      BY <3>2, ModsIdle DEF Flow, modVars
    <3> QED BY <3>1, <3>2, <3>3 DEF Flow, Numbered
  <2>5. CASE \E m \in Modules : ModuleAnswers(m) \/ ModuleCloses(m)
    <3>1. ModTraffic'
      BY <2>5, ModsAnswer, ModsClose DEF Flow
    <3>2. UNCHANGED <<conf, pc, hostVars>>
      BY <2>5 DEF ModuleAnswers, ModuleCloses
    <3>3. HostTraffic'
      BY <3>2, HostsIdle DEF Flow, hostVars
    <3> QED BY <3>1, <3>2, <3>3 DEF Flow, Numbered
  <2> QED BY <1>2, <2>1, <2>2, <2>3, <2>4, <2>5, Steps
<1> QED BY <1>1, <1>2

(* Nobody reads what was meant for another.                                *)
LEMMA NotCrossed ==
    ASSUME Placement, Flow, crossed = FALSE, [Next]_vars
    PROVE  crossed' = FALSE
<1>1. ASSUME NEW a \in Vms, Answered(a) PROVE crossed' = FALSE
  <2>1. Head(reply[HostFor(pc[a].call)]).to = a
    BY <1>1, HostAnswer DEF Flow
  <2>2. crossed' = (crossed \/ Head(reply[HostFor(pc[a].call)]).to # a)
    BY <1>1 DEF Answered
  <2> QED BY <2>1, <2>2
<1>2. ASSUME NEW a \in Vms, Replied(a) PROVE crossed' = FALSE
  <2>1. PICK m : m = pc[a].call /\ Delivered(a, m)
    BY <1>2, ModAnswer DEF Flow, Replied
  <2>2. PICK kind, n : answer[m] = <<[to |-> a, kind |-> kind, n |-> n]>>
    BY <2>1 DEF Delivered
  <2> DEFINE r == [to |-> a, kind |-> kind, n |-> n]
  <2>3. r.to = a
    OBVIOUS
  <2> HIDE DEF r
  <2>4. answer[m] = <<r>> /\ Head(<<r>>) = r
    <3>1. <<r>> \in Seq({r}) /\ Len(<<r>>) = 1 /\ <<r>>[1] = r
      OBVIOUS
    <3>2. Head(<<r>>) = <<r>>[1]
      BY ONLY <3>1, Single
    <3> QED BY <2>2, <3>1, <3>2 DEF r
  <2>5. crossed' = (crossed \/ Head(answer[m]).to # a)
    BY <1>2, <2>1 DEF Replied
  <2> QED BY <2>3, <2>4, <2>5
<1>3. CASE UNCHANGED crossed
  BY <1>3
<1>4. CASE Next
  <2>1. CASE \E a \in Vms : VmHears(a)
    BY <1>1, <1>3, <2>1 DEF VmHears
  <2>2. CASE \E b \in Blocks : ModuleReplies(b)
    BY <1>2, <1>3, <2>2, VmFacts DEF ModuleReplies
  <2>3. CASE RunStep
    BY <1>1, <1>3, <2>3, VmFacts DEF RunStep, Setup, AwaitNondetVms, NotifyDisagreement, ConsumeResult,
         NotifyFinished, Acknowledged
  <2>4. CASE \E a \in Vms : Query(a) \/ VmEnds(a) \/ \E n \in {-1, 0} \cup Values : get_balance(a, n)
    BY <1>3, <2>4 DEF Query, VmEnds, get_balance
  <2>5. CASE RunNondet \/ \E slot \in Slots : storage_write(slot)
    BY <1>3, <2>5 DEF RunNondet, storage_write
  <2>6. CASE \E b \in Blocks : \/ WebRequest(b) \/ ExecPrompt(b) \/ Prompt(b)
                               \/ ConsumeFuel(b) \/ CountConsumption(b) \/ TakeBlock(b)
    BY <1>3, <2>6 DEF WebRequest, ExecPrompt, Prompt, ConsumeFuel, CountConsumption, TakeBlock
  <2>7. CASE \/ \E h \in Hosts : HostHandles(h) \/ HostCloses(h)
             \/ \E m \in Modules : ModuleAnswers(m) \/ ModuleCloses(m)
    BY <1>3, <2>7 DEF HostHandles, HostCloses, ModuleAnswers, ModuleCloses
  <2> QED BY <1>4, <2>1, <2>2, <2>3, <2>4, <2>5, <2>6, <2>7, Steps
<1> QED BY <1>3, <1>4 DEF vars

(*----- what is counted ---------------------------------------------------*)

LEMMA MaxIs == \A k \in Int : Max({0, k}) = IF k > 0 THEN k ELSE 0
<1> TAKE k \in Int
<1> DEFINE m == IF k > 0 THEN k ELSE 0
<1>1. m \in {0, k} /\ \A y \in {0, k} : m >= y
  OBVIOUS
<1>2. \A x \in {0, k} : (\A y \in {0, k} : x >= y) => x = m
  OBVIOUS
<1> HIDE DEF m
<1>3. Max({0, k}) = CHOOSE x \in {0, k} : \A y \in {0, k} : x >= y
  BY DEF Max
<1>4. Max({0, k}) \in {0, k} /\ \A y \in {0, k} : Max({0, k}) >= y
  BY <1>1, <1>3
<1>5. Max({0, k}) = m
  BY <1>2, <1>4
<1> QED BY <1>5 DEF m

LEMMA MinIs == \A k, l \in Int : Min({k, l}) = IF k < l THEN k ELSE l
<1> TAKE k, l \in Int
<1> DEFINE m == IF k < l THEN k ELSE l
<1>1. m \in {k, l} /\ \A y \in {k, l} : m <= y
  OBVIOUS
<1>2. \A x \in {k, l} : (\A y \in {k, l} : x <= y) => x = m
  OBVIOUS
<1> HIDE DEF m
<1>3. Min({k, l}) = CHOOSE x \in {k, l} : \A y \in {k, l} : x <= y
  BY DEF Min
<1>4. Min({k, l}) \in {k, l} /\ \A y \in {k, l} : Min({k, l}) <= y
  BY <1>1, <1>3
<1>5. Min({k, l}) = m
  BY <1>2, <1>4
<1> QED BY <1>5 DEF m

LEMMA CountersStep ==
    ASSUME Placement, Flow, Counters, [Next]_vars
    PROVE  Counters'
<1>0. FuelMax \in Int /\ Fuel \in Int /\ FuelMax >= 0 /\ Fuel >= 0 /\ llm_consumption \in Int /\ fuel \in Int
  BY HostRunAssumption DEF Counters
<1>1. CASE UNCHANGED moneyVars
  BY <1>1 DEF Counters, moneyVars
<1>2. CASE \E h \in Hosts : HostHandles(h)
  <2>1. PICK h \in Hosts : HostHandles(h)
    BY <1>2
  <2>2. /\ UNCHANGED <<balances, llm_consumption, consumed>>
        /\ fuel' = IF Head(wire[h]).method = "ConsumeFuel" THEN Max({0, fuel - Head(wire[h]).n}) ELSE fuel
        /\ up[h] /\ wire[h] # <<>>
    BY <2>1 DEF HostHandles
  <2>3. CASE Head(wire[h]).method = "ConsumeFuel"
    <3>1. PICK n : n = Head(wire[h]).n /\ n \in 0..FuelMax
      BY <2>2, <2>3, HostReads DEF Flow, HostTraffic, HostLane
    <3>2. PICK left : left = fuel - n /\ left \in Int /\ left <= Fuel
      BY <1>0, <3>1 DEF Counters
    <3>3. fuel' = Max({0, left})
      BY <2>2, <2>3, <3>1, <3>2
    <3>4. fuel' \in 0..Fuel
      BY <1>0, <3>2, <3>3, MaxIs
    <3> QED BY <2>2, <3>4 DEF Counters
  <2>4. CASE Head(wire[h]).method # "ConsumeFuel"
    BY <2>2, <2>4 DEF Counters
  <2> QED BY <2>3, <2>4
<1>3. CASE \E b \in Blocks : CountConsumption(b)
  <2>1. PICK b \in Blocks : CountConsumption(b)
    BY <1>3
  <2>2. PICK n : n = pc[b].n /\ n \in 0..FuelMax
    BY <2>1, VmFacts DEF CountConsumption, Flow, Numbered
  <2>3. llm_consumption' = Min({llm_consumption + n, FuelMax}) /\ UNCHANGED <<balances, fuel, consumed>>
    BY <2>1, <2>2 DEF CountConsumption
  <2>4. PICK k \in Int : k = llm_consumption + n /\ k >= 0
    BY <1>0, <2>2 DEF Counters
  <2>5. llm_consumption' \in 0..FuelMax
    BY <1>0, <2>3, <2>4, MinIs
  <2> QED BY <2>3, <2>5 DEF Counters
<1>4. CASE \E b \in Blocks : ModuleReplies(b)
  <2>1. PICK b \in Blocks : ModuleReplies(b)
    BY <1>4
  <2>2. UNCHANGED <<balances, fuel, llm_consumption>>
    BY <2>1 DEF ModuleReplies
  <2>3. CASE UNCHANGED consumed
    BY <2>2, <2>3 DEF Counters
  <2>4. CASE Replied(b) /\ consumed' = Append(consumed, Head(answer[pc[b].call]).n)
    <3>1. PICK m : m = pc[b].call /\ Delivered(b, m)
      BY <2>4, ModAnswer, VmFacts DEF Flow, Replied
    <3>2. PICK kind \in Kinds, n \in 0..FuelMax : answer[m] = <<[to |-> b, kind |-> kind, n |-> n]>>
      BY <3>1 DEF Delivered
    <3> DEFINE r == [to |-> b, kind |-> kind, n |-> n]
    <3>3. r.n = n
      OBVIOUS
    <3> HIDE DEF r
    <3>4. answer[m] = <<r>> /\ Head(<<r>>) = r
      <4>1. <<r>> \in Seq({r}) /\ Len(<<r>>) = 1 /\ <<r>>[1] = r
        OBVIOUS
      <4>2. Head(<<r>>) = <<r>>[1]
        BY ONLY <4>1, Single
      <4> QED BY <3>2, <4>1, <4>2 DEF r
    <3>5. consumed' = Append(consumed, n)
      BY <2>4, <3>1, <3>3, <3>4
    <3>6. consumed' \in Seq(0..FuelMax)
      BY <3>5, AppendProperties DEF Counters
    <3> QED BY <2>2, <3>6 DEF Counters
  <2> QED BY <2>1, <2>3, <2>4 DEF ModuleReplies
<1>5. CASE \E a \in Vms : VmHears(a) \/ \E n \in {-1, 0} \cup Values : get_balance(a, n)
  <2>1. PICK a \in Vms : VmHears(a) \/ \E n \in {-1, 0} \cup Values : get_balance(a, n)
    BY <1>5
  <2>2. CASE UNCHANGED <<fuel, consumed, llm_consumption, balances>>
    BY <2>2 DEF Counters
  <2>3. CASE Answered(a) /\ VmHears(a) /\ pc[a].call = "GetBalance" /\ Head(reply[HostFor(pc[a].call)]).ok
    <3>1. Head(reply[HostFor(pc[a].call)]).n = Balance
      BY <2>3, HostAnswer DEF Flow
    <3>2. UNCHANGED <<fuel, consumed, llm_consumption, balances>> \/ balances' = Head(reply[HostFor(pc[a].call)]).n
      BY <2>3 DEF VmHears, Remember, UseBalance, moneyVars
    <3>3. UNCHANGED <<fuel, consumed, llm_consumption>>
      BY <2>3 DEF VmHears, UseBalance, moneyVars
    <3> QED BY <3>1, <3>2, <3>3 DEF Counters
  <2>4. CASE VmHears(a)
    BY <2>2, <2>3, <2>4 DEF VmHears, moneyVars
  <2>5. CASE \E n \in {-1, 0} \cup Values : get_balance(a, n)
    BY <2>2, <2>5 DEF get_balance, UseBalance, moneyVars
  <2> QED BY <2>1, <2>4, <2>5
<1>6. CASE Next
  <2>1. CASE \/ (\E a \in Vms : Query(a) \/ VmEnds(a)) \/ RunNondet \/ (\E slot \in Slots : storage_write(slot))
             \/ RunStep
             \/ \E b \in Blocks : \/ WebRequest(b) \/ ExecPrompt(b) \/ Prompt(b)
                                  \/ ConsumeFuel(b) \/ TakeBlock(b)
             \/ \E h \in Hosts : HostCloses(h)
             \/ \E m \in Modules : ModuleAnswers(m) \/ ModuleCloses(m)
    <3>1. UNCHANGED moneyVars
      BY <2>1 DEF Query, VmEnds, RunNondet, storage_write, RunStep, Setup, AwaitNondetVms, NotifyDisagreement,
           ConsumeResult, NotifyFinished, Acknowledged, WebRequest, ExecPrompt, Prompt, ConsumeFuel, TakeBlock,
           HostCloses, ModuleAnswers, ModuleCloses
    <3> QED BY <1>1, <3>1
  <2> QED BY <1>2, <1>3, <1>4, <1>5, <1>6, <2>1, Steps
<1> QED BY <1>1, <1>6 DEF vars, moneyVars

(*----- everyone gets its own answer --------------------------------------*)

LEMMA InitTraffic == ASSUME Init PROVE Judged /\ Traffic
<1>1. \A a \in Vms : Idle(pc[a], IF a = Main THEN "setup" ELSE "off")
  BY IdleFields DEF Init
<1>2. \A a \in Vms : pc[a].at \notin {"host", "module", "charge", "count"} /\ pc[a].call = "" /\ pc[a].n = 0
  BY <1>1 DEF Idle
<1>3. Configured /\ up = [h \in Hosts |-> TRUE] /\ hostLock = [h \in Hosts |-> NoOne]
      /\ wire = [h \in Hosts |-> <<>>] /\ reply = [h \in Hosts |-> <<>>]
  BY DEF Init, Configured
<1>4. ASSUME NEW h \in Hosts PROVE HostLane(h)
  <2>1. wire[h] = <<>> /\ reply[h] = <<>> /\ hostLock[h] = NoOne /\ up[h] = TRUE /\ DOMAIN wire[h] = {}
    BY <1>3
  <2>2. \A a \in Vms : a # NoOne /\ ~Waits(a, h)
    BY <1>2, VmFacts DEF Waits
  <2>3. wire[h] \in Seq(Requests) /\ reply[h] \in Seq(Replies)
    BY <2>1
  <2> QED BY <2>1, <2>2, <2>3 DEF HostLane
<1>5. HostTraffic
  BY <1>3, <1>4 DEF HostTraffic, IsFun
<1>6. /\ modLock = [m \in Modules |-> NoOne] /\ stream = [m \in Modules |-> "none"]
      /\ asked = [m \in Modules |-> <<>>] /\ answer = [m \in Modules |-> <<>>]
  BY DEF Init
<1>7. \A m \in Modules : ModLane(m)
  BY <1>2, <1>6, VmFacts DEF ModLane, CallsModule
<1>8. ModTraffic
  BY <1>6, <1>7 DEF ModTraffic, IsFun
<1>9. \A a \in Vms : Numbered(a)
  <2> TAKE a \in Vms
  <2>1. pc[a].at \notin {"charge", "count"} /\ pc[a].call # "GetBalance"
    BY <1>2
  <2>2. pc[a].n \in Int
    BY <1>2, ZeroInt, Zenon
  <2> QED BY <2>1, <2>2 DEF Numbered
<1>10. Counters
  <2>1. balances = -1 /\ fuel = Fuel /\ llm_consumption = 0 /\ consumed = <<>>
    BY DEF Init
  <2>2. Fuel \in 0..Fuel /\ 0 \in 0..FuelMax /\ <<>> \in Seq(0..FuelMax)
    BY HostRunAssumption
  <2> QED BY <2>1, <2>2 DEF Counters
<1>11. Judged
  <2>1. pc[Main].at = "setup" /\ pc[Main].call = ""
    BY <1>1, VmFacts DEF Idle
  <2>2. ~Decided
    BY <2>1 DEF Decided, Reporting
  <2>3. fate = [c \in Queue!Calls |-> "unused"] /\ verdict = [kind |-> "pending", call |-> -1]
    BY DEF Init, Queue!Init
  <2>4. verdict.kind = "pending" /\ verdict.call = -1 /\ -1 \in Int
    BY <2>3
  <2>5. \A b \in Blocks : fate[b] = "unused"
    BY <2>3, VmFacts
  <2> QED BY <2>2, <2>4, <2>5 DEF Judged
<1>12. crossed = FALSE
  BY DEF Init
<1> QED BY <1>5, <1>8, <1>9, <1>10, <1>11, <1>12 DEF Traffic

LEMMA StepTraffic ==
    ASSUME Placement, Judged, Traffic, [Next]_vars
    PROVE  Judged' /\ Traffic'
<1>1. Flow /\ Counters /\ crossed = FALSE /\ fuel \in Int
  BY HostRunAssumption DEF Traffic, Flow, Counters
<1>2. Flow' /\ Counters' /\ crossed' = FALSE /\ Judged'
  BY <1>1, JudgedStep, StepFlow, CountersStep, NotCrossed
<1> QED BY <1>2 DEF Traffic, Flow

LEMMA TrafficHolds == Spec => [](Judged /\ Traffic)
BY PlacementHolds, InitTraffic, StepTraffic, PTL DEF Spec

LEMMA TrafficTypes == ASSUME Placement, Traffic PROVE EveryoneGetsItsOwnAnswer
<1>1. ASSUME NEW a \in Vms
      PROVE  pc[a] \in [at : {"setup", "off", "ready", "wait", "host", "module", "prompt", "charge", "count",
                              "await", "notify", "report", "finish", "exit"},
                        call : {""} \cup Range(Methods) \cup Modules, n : Int]
  <2>1. PICK at, call, n : pc[a] = At(at, call, n) /\ Fits(a, at, call) /\ at = pc[a].at /\ call = pc[a].call /\ n = pc[a].n
    BY DEF Placement, Placed
  <2>2. n \in Int
    BY <2>1 DEF Traffic, Numbered
  <2>3. at \in {"setup", "off", "ready", "wait", "host", "module", "prompt", "charge", "count",
                "await", "notify", "report", "finish", "exit"}
    BY <2>1 DEF Fits, PlacesOf
  <2>4. call \in {""} \cup Names \cup Modules
    BY <2>1, NameFacts DEF Fits
  <2> QED BY <2>1, <2>2, <2>3, <2>4 DEF At, Names
<1>2. pc = [a \in Vms |-> pc[a]]
  BY DEF Placement, IsFun
<1>3. \A h \in Hosts : hostLock[h] \in Vms \cup {NoOne}
  BY DEF Traffic, HostTraffic, HostLane
<1>4. hostLock \in [Hosts -> Vms \cup {NoOne}]
  BY <1>3 DEF Traffic, HostTraffic, IsFun
<1>5. \A m \in Modules : modLock[m] \in Vms \cup {NoOne}
  BY DEF Traffic, ModTraffic, ModLane
<1>6. modLock \in [Modules -> Vms \cup {NoOne}]
  BY <1>5 DEF Traffic, ModTraffic, IsFun
<1>7. ASSUME NEW h \in Hosts PROVE Len(reply[h]) <= 1
  <2>1. HostLane(h)
    BY DEF Traffic, HostTraffic
  <2>2. reply[h] = <<>> \/ Len(reply[h]) = 1
    BY <2>1 DEF HostLane, Asking, Lost, Told
  <2>3. PICK k : k = Len(reply[h])
    OBVIOUS
  <2>4. Len(<<>>) = 0
    OBVIOUS
  <2>5. k = 0 \/ k = 1
    BY <2>2, <2>3, <2>4
  <2>6. k <= 1
    BY ONLY <2>5
  <2> QED BY <2>3, <2>6
<1>8. TypeOK
  BY <1>1, <1>2, <1>4, <1>6, <1>7 DEF TypeOK, Traffic, Counters
<1> QED BY <1>8 DEF EveryoneGetsItsOwnAnswer, Traffic

\* Whoever reads an answer of a host or of a module asked the question it answers: the lock
\* of a connection is held from the request to its answer, and what is told without one is
\* ahead of it (host/mod.rs, modules.rs).
THEOREM AnswersAreNotCrossed == Spec => []EveryoneGetsItsOwnAnswer
BY PlacementHolds, TrafficHolds, TrafficTypes, PTL

(*----- what a VM is told of the balance ----------------------------------*)

Money ==
  /\ sent \in Nat /\ sent <= Balance /\ DOMAIN seen = Vms
  /\ \A a \in Vms : seen[a] = <<>> \/ \E k \in Int : seen[a] = <<Balance - k, k>>

LEMMA UseBalanceKeeps ==
    ASSUME Money, NEW a \in Vms, NEW n \in {-1, 0} \cup Values, UseBalance(a, n, Balance)
    PROVE  Money'
<1>0. sent \in Nat /\ Balance \in Nat /\ n \in Int
  BY HostRunAssumption DEF Money
<1>1. sent' \in Nat /\ sent' <= Balance
  <2>1. sent' = IF n > 0 /\ n + sent <= Balance THEN sent + n ELSE sent
    BY DEF UseBalance
  <2> QED BY <1>0, <2>1 DEF Money
<1>2. seen' = seen \/ \E k \in Int : seen' = [seen EXCEPT ![a] = <<Balance - k, k>>]
  <2>0. PICK p, q : /\ p = [seen EXCEPT ![a] = <<Balance, 0>>]
                    /\ q = [seen EXCEPT ![a] = <<Balance - sent, sent>>]
    OBVIOUS
  <2>9. seen' = CASE n = -1 -> p [] n = 0 -> q [] n > 0 -> seen
    BY <2>0 DEF UseBalance
  <2>1. CASE n = -1
    <3>1. seen' = p
      BY ONLY <2>1, <2>9
    <3>2. Balance = Balance - 0
      BY <1>0
    <3>3. p = [seen EXCEPT ![a] = <<Balance - 0, 0>>]
      BY ONLY <2>0, <3>2, Zenon
    <3>4. 0 \in Int
      OBVIOUS
    <3> QED BY ONLY <3>1, <3>3, <3>4, Zenon
  <2>2. CASE n = 0
    <3>1. seen' = q
      BY ONLY <2>2, <2>9
    <3>2. sent \in Int
      BY <1>0
    <3> QED BY ONLY <2>0, <3>1, <3>2, Zenon
  <2>3. CASE n > 0
    <3>1. n # -1 /\ n # 0
      BY ONLY <1>0, <2>3
    <3> QED BY ONLY <2>3, <2>9, <3>1
  <2>4. \A v \in Values : v = 0 \/ v > 0
    BY HostRunAssumption
  <2> QED BY <2>1, <2>2, <2>3, <2>4
<1>3. DOMAIN seen' = Vms /\ \A x \in Vms : seen'[x] = <<>> \/ \E k \in Int : seen'[x] = <<Balance - k, k>>
  <2>1. CASE seen' = seen
    BY <2>1 DEF Money
  <2>2. CASE \E k \in Int : seen' = [seen EXCEPT ![a] = <<Balance - k, k>>]
    <3>1. PICK k \in Int : seen' = [seen EXCEPT ![a] = <<Balance - k, k>>]
      BY <2>2
    <3>2. /\ DOMAIN seen' = Vms /\ seen'[a] = <<Balance - k, k>>
          /\ \A x \in Vms \ {a} : seen'[x] = seen[x]
      BY <3>1 DEF Money
    <3> QED BY <3>2 DEF Money
  <2> QED BY <1>2, <2>1, <2>2
<1> QED BY <1>1, <1>3 DEF Money

LEMMA MoneyStep ==
    ASSUME Placement, Traffic, Money, [Next]_vars
    PROVE  Money'
<1>1. CASE UNCHANGED <<sent, seen>>
  BY <1>1 DEF Money
<1>2. ASSUME NEW a \in Vms, NEW n \in {-1, 0} \cup Values, get_balance(a, n) PROVE Money'
  <2>1. CASE balances # -1 /\ UseBalance(a, n, balances)
    <3>1. balances = Balance
      BY <2>1 DEF Traffic, Counters
    <3>2. UseBalance(a, n, Balance)
      BY <2>1, <3>1
    <3> QED BY <3>2, UseBalanceKeeps
  <2> QED BY <1>1, <1>2, <2>1 DEF get_balance, moneyVars
<1>3. ASSUME NEW a \in Vms, VmHears(a) PROVE Money'
  <2>1. CASE Answered(a) /\ pc[a].call = "GetBalance" /\ Head(reply[HostFor(pc[a].call)]).ok
             /\ UseBalance(a, pc[a].n, Head(reply[HostFor(pc[a].call)]).n)
    <3>1. Head(reply[HostFor(pc[a].call)]).n = Balance
      BY <2>1, HostAnswer DEF Traffic
    <3>2. PICK n : n = pc[a].n /\ n \in {-1, 0} \cup Values /\ UseBalance(a, n, Balance)
      BY <2>1, <3>1 DEF Traffic, Numbered
    <3> QED BY <3>2, UseBalanceKeeps
  <2> QED BY <1>1, <1>3, <2>1 DEF VmHears, moneyVars
<1>4. CASE Next
  <2>1. CASE \/ (\E a \in Vms : Query(a) \/ VmEnds(a)) \/ RunNondet \/ (\E slot \in Slots : storage_write(slot))
             \/ RunStep
             \/ \E b \in Blocks : \/ WebRequest(b) \/ ExecPrompt(b) \/ Prompt(b) \/ ModuleReplies(b)
                                  \/ ConsumeFuel(b) \/ CountConsumption(b) \/ TakeBlock(b)
             \/ \E h \in Hosts : HostHandles(h) \/ HostCloses(h)
             \/ \E m \in Modules : ModuleAnswers(m) \/ ModuleCloses(m)
    <3>1. UNCHANGED <<sent, seen>>
      BY <2>1 DEF Query, VmEnds, RunNondet, storage_write, RunStep, Setup, AwaitNondetVms, NotifyDisagreement,
           ConsumeResult, NotifyFinished, Acknowledged, WebRequest, ExecPrompt, Prompt, ModuleReplies, ConsumeFuel,
           CountConsumption, TakeBlock, HostHandles, HostCloses, ModuleAnswers, ModuleCloses, moneyVars
    <3> QED BY <1>1, <3>1
  <2> QED BY <1>2, <1>3, <1>4, <2>1, Steps
<1> QED BY <1>1, <1>4 DEF vars, moneyVars

\* Whichever VM fills the balance cache, in whatever order the answers come: a VM is told
\* what the host has, less what the contract had sent by then if it asks for its own, and
\* the messages of the contract never send more than that (wasi/genlayer_sdk.rs).
THEOREM BalanceIsTheHosts == Spec => []BalanceSeen
<1>1. Init => Money
  <2> SUFFICES ASSUME Init PROVE Money
    OBVIOUS
  <2>1. sent = 0 /\ seen = [a \in Vms |-> <<>>]
    BY DEF Init
  <2> QED BY <2>1, HostRunAssumption DEF Money
<1>2. Placement /\ Judged /\ Traffic /\ Money /\ [Next]_vars => Money'
  BY MoneyStep
<1>3. Money => BalanceSeen
  <2> SUFFICES ASSUME Money PROVE BalanceSeen
    OBVIOUS
  <2>1. ASSUME NEW a \in Vms, seen[a] # <<>> PROVE seen[a][1] = Balance - seen[a][2]
    <3>1. PICK k \in Int : seen[a] = <<Balance - k, k>>
      BY <2>1 DEF Money
    <3> QED BY <3>1
  <2> QED BY <2>1 DEF BalanceSeen, Money
<1> QED BY <1>1, <1>2, <1>3, PlacementHolds, TrafficHolds, PTL DEF Spec

(*----- the order of the notifications ------------------------------------*)

Notices == {"NotifyNondetDisagreement", "ConsumeResult", "NotifyFinished"}

\* What the hosts have heard of the end of the run: nothing, the result, or all of it.
NoneHeard == \A i \in DOMAIN heard : heard[i] = "NotifyNondetDisagreement"
ResultHeard ==
  \E i \in DOMAIN heard :
    /\ heard[i] = "ConsumeResult"
    /\ \A k \in DOMAIN heard \ {i} : heard[k] = "NotifyNondetDisagreement"
BothHeard ==
  \E i, j \in DOMAIN heard :
    /\ i < j /\ heard[i] = "ConsumeResult" /\ heard[j] = "NotifyFinished"
    /\ \A k \in DOMAIN heard \ {i, j} : heard[k] = "NotifyNondetDisagreement"

\* The connection of the call that the main VM waits for has an answer.
MainTold == reply[Lanes[pc[Main].call]] # <<>>

Notified ==
  /\ heard \in Seq(Notices)
  /\ ~Reporting => NoneHeard
  /\ pc[Main].call = "ConsumeResult" => IF MainTold THEN ResultHeard ELSE NoneHeard
  /\ pc[Main].call = "NotifyFinished" => IF MainTold THEN BothHeard ELSE ResultHeard
  /\ pc[Main].at = "finish" => ResultHeard
  /\ pc[Main].at = "exit" => /\ NoneHeard \/ ResultHeard \/ BothHeard
                             /\ outcome # "none" /\ (\A h \in Hosts : up[h]) => BothHeard

LEMMA HeardSame ==
    ASSUME heard' = heard
    PROVE  /\ NoneHeard' <=> NoneHeard
           /\ ResultHeard' <=> ResultHeard
           /\ BothHeard' <=> BothHeard
BY DEF NoneHeard, ResultHeard, BothHeard

(* One more notification, after what has been heard.                       *)
LEMMA HeardMore ==
    ASSUME heard \in Seq(Notices), NEW method \in Notices, heard' = Append(heard, method)
    PROVE  /\ heard' \in Seq(Notices)
           /\ method = "NotifyNondetDisagreement" =>
                /\ NoneHeard => NoneHeard'
                /\ ResultHeard => ResultHeard'
                /\ BothHeard => BothHeard'
           /\ method = "ConsumeResult" /\ NoneHeard => ResultHeard'
           /\ method = "NotifyFinished" /\ ResultHeard => BothHeard'
<1>1. PICK l \in Nat : /\ l = Len(heard) /\ DOMAIN heard = 1..l
  BY DEF Notices
<1>2. /\ heard' \in Seq(Notices) /\ DOMAIN heard' = 1..(l + 1)
      /\ heard'[l + 1] = method /\ \A i \in 1..l : heard'[i] = heard[i]
  BY <1>1, AppendProperties
<1>3. /\ \A k \in 1..(l + 1) : k \in 1..l \/ k = l + 1
      /\ \A k \in 1..l : k \in 1..(l + 1) /\ k < l + 1
      /\ l + 1 \in 1..(l + 1)
  BY <1>1
<1>4. ASSUME method = "NotifyNondetDisagreement", NoneHeard PROVE NoneHeard'
  BY <1>1, <1>2, <1>3, <1>4 DEF NoneHeard
<1>5. ASSUME method = "NotifyNondetDisagreement", ResultHeard PROVE ResultHeard'
  BY <1>1, <1>2, <1>3, <1>5 DEF ResultHeard
<1>6. ASSUME method = "NotifyNondetDisagreement", BothHeard PROVE BothHeard'
  <2>1. PICK i, j \in 1..l : /\ i < j /\ heard[i] = "ConsumeResult" /\ heard[j] = "NotifyFinished"
                             /\ \A k \in (1..l) \ {i, j} : heard[k] = "NotifyNondetDisagreement"
    BY <1>1, <1>6 DEF BothHeard
  <2>2. \A k \in (1..(l + 1)) \ {i, j} : heard'[k] = "NotifyNondetDisagreement"
    BY <1>2, <1>3, <1>6, <2>1
  <2>3. i \in DOMAIN heard' /\ j \in DOMAIN heard' /\ heard'[i] = "ConsumeResult" /\ heard'[j] = "NotifyFinished"
    BY <1>2, <1>3, <2>1
  <2> QED BY <1>2, <2>1, <2>2, <2>3 DEF BothHeard
<1>7. ASSUME method = "ConsumeResult", NoneHeard PROVE ResultHeard'
  BY <1>1, <1>2, <1>3, <1>7 DEF NoneHeard, ResultHeard
<1>8. ASSUME method = "NotifyFinished", ResultHeard PROVE BothHeard'
  <2>1. PICK i \in 1..l : /\ heard[i] = "ConsumeResult"
                          /\ \A k \in (1..l) \ {i} : heard[k] = "NotifyNondetDisagreement"
    BY <1>1, <1>8 DEF ResultHeard
  <2>2. PICK j : j = l + 1
    OBVIOUS
  <2>3. \A k \in (1..(l + 1)) \ {i, j} : heard'[k] = "NotifyNondetDisagreement"
    BY <1>2, <1>3, <2>1, <2>2
  <2>4. i \in DOMAIN heard' /\ j \in DOMAIN heard' /\ i < j /\ heard'[i] = "ConsumeResult" /\ heard'[j] = "NotifyFinished"
    BY <1>2, <1>3, <1>8, <2>1, <2>2
  <2> QED BY <1>2, <2>3, <2>4 DEF BothHeard
<1> QED BY <1>2, <1>4, <1>5, <1>6, <1>7, <1>8

(* What a VM does of itself, it does before the end of the run.            *)
VmAction ==
  \/ \E a \in Vms : \/ Query(a) \/ VmHears(a) \/ VmEnds(a)
                    \/ \E n \in {-1, 0} \cup Values : get_balance(a, n)
  \/ RunNondet \/ (\E slot \in Slots : storage_write(slot))
  \/ \E b \in Blocks : \/ WebRequest(b) \/ ExecPrompt(b) \/ Prompt(b) \/ ModuleReplies(b)
                       \/ ConsumeFuel(b) \/ CountConsumption(b) \/ TakeBlock(b)

LEMMA VmActionWorks ==
    ASSUME Placement, VmAction
    PROVE  Working /\ Working' /\ UNCHANGED <<report, verdict, conf>>
<1>1. Works
  BY CallsWork, HearsWork, BlocksWork, NondetWorks, VmFacts DEF VmAction
<1>2. Working
  <2>1. ASSUME NEW a \in Vms,
               \/ pc[a].at \in {"ready", "prompt", "module", "charge", "count"}
               \/ pc[a].at = "host" /\ pc[a].call \notin {"ConsumeResult", "NotifyFinished"}
        PROVE  Working
    BY <2>1, ReadyActive, ActiveWorks
  <2>2. CASE \E a \in Vms : \/ Query(a) \/ VmHears(a) \/ VmEnds(a)
                            \/ \E n \in {-1, 0} \cup Values : get_balance(a, n)
    BY <2>1, <2>2 DEF Query, VmHears, VmEnds, get_balance, MayCall, Ready, Answered, ReadFails
  <2>3. CASE RunNondet \/ (\E slot \in Slots : storage_write(slot))
    BY <2>1, <2>3, VmFacts DEF RunNondet, storage_write, MayCall, Ready
  <2>4. CASE \E b \in Blocks : \/ WebRequest(b) \/ ExecPrompt(b) \/ Prompt(b) \/ ModuleReplies(b)
                               \/ ConsumeFuel(b) \/ CountConsumption(b)
    BY <2>1, <2>4, VmFacts DEF WebRequest, ExecPrompt, Prompt, ModuleReplies, ConsumeFuel, CountConsumption,
         MayCall, Ready, Replied, NoReply
  <2>5. CASE \E b \in Blocks : TakeBlock(b)
    BY <2>5, BusyWorks DEF TakeBlock, AllOff
  <2> QED BY <2>2, <2>3, <2>4, <2>5 DEF VmAction
<1>3. Working'
  BY <1>1, <1>2 DEF Works, Working, Decided, Reporting
<1>4. UNCHANGED conf
  BY DEF VmAction, Query, VmHears, VmEnds, get_balance, RunNondet, storage_write, WebRequest, ExecPrompt, Prompt,
     ModuleReplies, ConsumeFuel, CountConsumption, TakeBlock
<1> QED BY <1>1, <1>2, <1>3, <1>4 DEF Works, queueVars

LEMMA Actions ==
    ASSUME Next
    PROVE  \/ VmAction \/ RunStep
           \/ \E h \in Hosts : HostHandles(h) \/ HostCloses(h)
           \/ \E m \in Modules : ModuleAnswers(m) \/ ModuleCloses(m)
BY Steps DEF VmAction

(* The main VM has gone to one of the places of the end.                   *)
LEMMA MainAt ==
    ASSUME Placement, NEW at, Goto(Main, at),
           at \in {"ready", "await", "notify", "report", "finish", "exit"}
    PROVE  /\ pc'[Main].at = at /\ pc'[Main].call \notin {"ConsumeResult", "NotifyFinished"}
           /\ at \in {"ready", "await", "notify", "report"} => ~Reporting'
<1>1. pc'[Main].at = at /\ pc'[Main].call = ""
  BY MovedIdle, VmFacts
<1> QED BY <1>1 DEF Reporting

LEMMA MainAsks ==
    ASSUME Placement, HostTraffic, UNCHANGED conf, NEW method \in {"ConsumeResult", "NotifyFinished"}, Ask(Main, method, 0)
    PROVE  /\ pc'[Main].at = "host" /\ pc'[Main].call = method /\ Reporting'
           /\ ~MainTold'
<1>1. PICK g \in Hosts : HostFor(method) = g /\ Lanes[method] = g /\ Lanes' = Lanes
  <2>1. method \in Names
    BY NameFacts
  <2>2. Lanes[method] = HostFor(method) /\ Lanes[method] \in Hosts
    BY <2>1, LaneTypes DEF Lanes, HostTraffic
  <2> QED BY <2>2, LanesSame
<1>2. hostLock[g] = NoOne /\ reply' = reply /\ pc' = [pc EXCEPT ![Main] = At("host", method, 0)]
  BY <1>1 DEF Ask
<1>3. reply[g] = <<>>
  BY <1>1, <1>2 DEF HostTraffic, HostLane
<1>4. pc'[Main] = At("host", method, 0)
  BY <1>2, VmFacts DEF Placement
<1>5. pc'[Main].at = "host" /\ pc'[Main].call = method
  BY <1>4, AtFields
<1> QED BY <1>1, <1>2, <1>3, <1>5 DEF MainTold, Reporting

(* When the main VM cannot go on, some connection is gone.                 *)
LEMMA SomeGone ==
    ASSUME Placement, HostTraffic,
           (\E method \in Names : Unreachable(method)) \/ ReadFails(Main)
    PROVE  \E h \in Hosts : up[h] = FALSE
<1>1. CASE \E method \in Names : Unreachable(method)
  <2>1. PICK method \in Names : Unreachable(method)
    BY <1>1
  <2>2. HostFor(method) \in Hosts /\ ~up[HostFor(method)]
    BY <2>1, LaneTypes DEF Lanes, HostTraffic, Unreachable
  <2> QED BY <2>2 DEF HostTraffic, HostLane
<1>2. CASE ReadFails(Main)
  <2>1. pc[Main].at = "host" /\ pc[Main].call \in Names
    BY <1>2, NameFacts, VmFacts DEF ReadFails, Placement, Placed, Fits
  <2>2. HostFor(pc[Main].call) \in Hosts /\ ~up[HostFor(pc[Main].call)]
    BY <1>2, <2>1, LaneTypes DEF Lanes, HostTraffic, ReadFails
  <2> QED BY <2>2 DEF HostTraffic, HostLane
<1> QED BY <1>1, <1>2

LEMMA NotifiedRun ==
    ASSUME Placement, Traffic, Notified, RunStep
    PROVE  Notified'
<1>1. HostTraffic
  BY DEF Traffic
<1>2. heard' = heard /\ UNCHANGED <<conf, up>>
  BY DEF RunStep, Setup, AwaitNondetVms, NotifyDisagreement, ConsumeResult, NotifyFinished, Acknowledged,
     hostVars, Tell, Ask, Answered, ReadFails
<1>3. /\ NoneHeard' <=> NoneHeard
      /\ ResultHeard' <=> ResultHeard
      /\ BothHeard' <=> BothHeard
      /\ heard' \in Seq(Notices)
  BY <1>2, HeardSame DEF Notified
<1>4. ASSUME ~Reporting', NoneHeard PROVE Notified'
  <2>1. pc'[Main].call \notin {"ConsumeResult", "NotifyFinished"} /\ pc'[Main].at \notin {"finish", "exit"}
    BY <1>4 DEF Reporting
  <2>2. NoneHeard' /\ heard' \in Seq(Notices)
    BY <1>3, <1>4
  <2> QED BY ONLY <2>1, <2>2 DEF Notified, Notices
<1>5. ASSUME pc'[Main].call \notin {"ConsumeResult", "NotifyFinished"}, pc'[Main].at = "exit",
             NoneHeard \/ ResultHeard \/ BothHeard,
             outcome' # "none" /\ (\A h \in Hosts : up[h]) => BothHeard
      PROVE  Notified'
  <2>1. Reporting' /\ pc'[Main].at # "finish"
    BY <1>5 DEF Reporting
  <2>2. NoneHeard' \/ ResultHeard' \/ BothHeard'
    BY <1>3, <1>5
  <2>3. outcome' # "none" /\ (\A h \in Hosts : up'[h]) => BothHeard'
    BY <1>2, <1>3, <1>5
  <2>4. pc'[Main].call \notin {"ConsumeResult", "NotifyFinished"} /\ pc'[Main].at = "exit"
    BY <1>5
  <2> QED BY ONLY <1>3, <2>1, <2>2, <2>3, <2>4 DEF Notified, Notices
<1>6. CASE Setup \/ AwaitNondetVms
  <2>1. (NoneHeard /\ outcome = "none") \/ ~Setup
    BY VmFacts DEF Setup, Notified, Placement, Stages, Ended, Decided, Reporting, Placed, Fits
  <2>2. NoneHeard
    BY <1>6, VmFacts DEF Setup, AwaitNondetVms, Notified, Placement, Placed, Fits, Reporting
  <2>3. CASE \E at \in {"ready", "notify", "report"} : Goto(Main, at)
    BY <1>4, <2>2, <2>3, MainAt
  <2>4. CASE Setup /\ Goto(Main, "exit") /\ UNCHANGED outcome
    BY <1>5, <2>1, <2>4, MainAt
  <2> QED BY <1>6, <2>3, <2>4 DEF Setup, AwaitNondetVms
<1>7. CASE NotifyDisagreement
  <2>1. NoneHeard
    BY <1>7, VmFacts DEF NotifyDisagreement, Notified, Placement, Placed, Fits, Reporting
  <2>2. CASE Goto(Main, "report")
    BY <1>4, <2>1, <2>2, MainAt
  <2>3. CASE Unreachable("NotifyNondetDisagreement") /\ Abandon
    <3>1. \E h \in Hosts : up[h] = FALSE
      BY <1>1, <2>3, SomeGone, NameFacts
    <3>2. Goto(Main, "exit")
      BY <2>3 DEF Abandon
    <3> QED BY <1>5, <2>1, <3>1, <3>2, MainAt
  <2> QED BY <1>7, <2>2, <2>3 DEF NotifyDisagreement
<1>8. CASE ConsumeResult
  <2>1. NoneHeard
    BY <1>8, VmFacts DEF ConsumeResult, Notified, Placement, Placed, Fits, Reporting
  <2>2. CASE Ask(Main, "ConsumeResult", 0)
    <3>1. pc'[Main].at = "host" /\ pc'[Main].call = "ConsumeResult" /\ Reporting' /\ ~MainTold'
      BY <1>1, <1>2, <2>2, MainAsks
    <3>2. NoneHeard'
      BY <1>3, <2>1
    <3> QED BY ONLY <1>3, <3>1, <3>2 DEF Notified, Notices
  <2>3. CASE Unreachable("ConsumeResult") /\ Abandon
    <3>1. \E h \in Hosts : up[h] = FALSE
      BY <1>1, <2>3, SomeGone, NameFacts
    <3>2. Goto(Main, "exit")
      BY <2>3 DEF Abandon
    <3> QED BY <1>5, <2>1, <3>1, <3>2, MainAt
  <2> QED BY <1>8, <2>2, <2>3 DEF ConsumeResult
<1>9. CASE NotifyFinished
  <2>1. ResultHeard
    BY <1>9 DEF NotifyFinished, Notified
  <2>2. CASE Ask(Main, "NotifyFinished", 0)
    <3>1. pc'[Main].at = "host" /\ pc'[Main].call = "NotifyFinished" /\ Reporting' /\ ~MainTold'
      BY <1>1, <1>2, <2>2, MainAsks
    <3>2. ResultHeard'
      BY <1>3, <2>1
    <3> QED BY ONLY <1>3, <3>1, <3>2 DEF Notified, Notices
  <2>3. CASE Unreachable("NotifyFinished") /\ Abandon
    <3>1. \E h \in Hosts : up[h] = FALSE
      BY <1>1, <2>3, SomeGone, NameFacts
    <3>2. Goto(Main, "exit")
      BY <2>3 DEF Abandon
    <3> QED BY <1>5, <2>1, <3>1, <3>2, MainAt
  <2> QED BY <1>9, <2>2, <2>3 DEF NotifyFinished
<1>10. CASE Acknowledged
  <2>1. pc[Main].call \in {"ConsumeResult", "NotifyFinished"}
    BY <1>10 DEF Acknowledged
  <2>2. Lanes[pc[Main].call] = HostFor(pc[Main].call)
    BY <2>1, NameFacts DEF Lanes
  <2>3. CASE Answered(Main) /\ Goto(Main, IF pc[Main].call = "ConsumeResult" THEN "finish" ELSE "exit")
    <3>1. MainTold
      BY <2>2, <2>3 DEF MainTold, Answered
    <3>2. CASE pc[Main].call = "ConsumeResult"
      <4>1. Goto(Main, "finish") /\ ResultHeard
        BY <2>3, <3>1, <3>2 DEF Notified
      <4>2. pc'[Main].at = "finish" /\ pc'[Main].call \notin {"ConsumeResult", "NotifyFinished"} /\ Reporting'
        BY <4>1, MainAt DEF Reporting
      <4>3. ResultHeard'
        BY <1>3, <4>1
      <4> QED BY ONLY <1>3, <4>2, <4>3 DEF Notified, Notices
    <3>3. CASE pc[Main].call # "ConsumeResult"
      <4>1. Goto(Main, "exit") /\ BothHeard
        BY <2>1, <2>3, <3>1, <3>3 DEF Notified
      <4> QED BY <1>5, <4>1, MainAt
    <3> QED BY <3>2, <3>3
  <2>4. CASE ReadFails(Main) /\ Abandon
    <3>1. \E h \in Hosts : up[h] = FALSE
      BY <1>1, <2>4, SomeGone
    <3>2. Goto(Main, "exit") /\ (NoneHeard \/ ResultHeard \/ BothHeard)
      BY <2>1, <2>4 DEF Abandon, Notified
    <3> QED BY <1>5, <3>1, <3>2, MainAt
  <2> QED BY <1>10, <2>3, <2>4 DEF Acknowledged
<1> QED BY <1>6, <1>7, <1>8, <1>9, <1>10 DEF RunStep

LEMMA NotifiedHost ==
    ASSUME Placement, Traffic, Notified, pc[Main].at # "exit", NEW h \in Hosts, HostHandles(h)
    PROVE  Notified'
<1>1. UNCHANGED <<conf, pc, up, outcome>> /\ Lanes' = Lanes /\ up[h] /\ wire[h] # <<>> /\ HostTraffic
  BY LanesSame DEF HostHandles, queueVars, Traffic
<1>2. PICK r : /\ r = Head(wire[h])
               /\ heard' = IF r.method \in Notices THEN Append(heard, r.method) ELSE heard
  BY DEF HostHandles, Notices
<1>3. (Reporting' <=> Reporting) /\ pc' = pc
  BY <1>1 DEF Reporting
<1>4. /\ \A g \in Hosts \ {h} : reply'[g] = reply[g]
      /\ r.method \in Silent => reply'[h] = reply[h]
      /\ r.method \notin Silent => reply'[h] # <<>>
  <2>1. DOMAIN reply = Hosts /\ reply[h] \in Seq(Replies)
    BY <1>1 DEF HostTraffic, HostLane
  <2>2. PICK v : reply' = [reply EXCEPT ![h] = IF r.method \in Silent THEN @ ELSE Append(@, v)]
    BY <1>2 DEF HostHandles
  <2>3. Append(reply[h], v) # <<>>
    <3>1. reply[h] = <<>>
      BY <1>1, HostReads
    <3>2. Append(<<>>, v) = <<v>> /\ <<v>> # <<>>
      OBVIOUS
    <3> QED BY <3>1, <3>2
  <2> QED BY <2>1, <2>2, <2>3
<1>5. CASE r.method \in Silent
  <2>1. reply'[h] = reply[h] /\ \A g \in Hosts : reply'[g] = reply[g]
    BY <1>4, <1>5
  <2>2. pc[Main].call \in {"ConsumeResult", "NotifyFinished"} => (MainTold' <=> MainTold)
    <3>1. SUFFICES ASSUME pc[Main].call \in {"ConsumeResult", "NotifyFinished"} PROVE MainTold' <=> MainTold
      OBVIOUS
    <3>2. PICK g \in Hosts : g = Lanes[pc[Main].call]
      BY <1>1, <3>1, LaneTypes, NameFacts DEF HostTraffic
    <3> QED BY <1>1, <2>1, <3>2 DEF MainTold
  <2>3. /\ heard' \in Seq(Notices)
        /\ NoneHeard => NoneHeard'
        /\ ResultHeard => ResultHeard'
        /\ BothHeard => BothHeard'
    <3>1. CASE r.method = "NotifyNondetDisagreement"
      <4>1. r.method \in Notices /\ heard' = Append(heard, r.method) /\ heard \in Seq(Notices)
        BY <1>2, <3>1 DEF Notices, Notified
      <4> QED BY <3>1, <4>1, HeardMore
    <3>2. CASE r.method # "NotifyNondetDisagreement"
      <4>1. heard' = heard
        BY <1>2, <1>5, <3>2 DEF Silent, Notices
      <4> QED BY <4>1, HeardSame DEF Notified
    <3> QED BY <3>1, <3>2
  <2> QED BY <1>1, <1>3, <2>2, <2>3 DEF Notified, Notices
<1>6. CASE r.method \notin Silent
  <2>9. PICK a \in Vms : /\ hostLock[h] = a /\ r = Request(a) /\ pc[a].at = "host" /\ Lanes[pc[a].call] = h
                         /\ reply[h] = <<>>
    BY <1>1, <1>2, <1>6, HostReads
  <2>1. /\ hostLock[h] = a /\ r = Request(a) /\ pc[a].at = "host" /\ Lanes[pc[a].call] = h
        /\ r.method = pc[a].call /\ reply[h] = <<>>
    BY <2>9 DEF Request
  <2>2. pc[a].call \in AsksOf(a)
    BY <2>1 DEF Placement, Placed, Fits
  <2>3. CASE a = Main /\ pc[a].call \in {"ConsumeResult", "NotifyFinished"}
    <3>1. ~MainTold
      BY <2>1, <2>3 DEF MainTold
    <3>2. MainTold'
      <4>1. Lanes'[pc'[Main].call] = h
        BY <1>1, <2>1, <2>3
      <4>2. reply'[h] # <<>>
        BY <1>4, <1>6
      <4> QED BY <4>1, <4>2 DEF MainTold
    <3>3. r.method \in Notices /\ heard' = Append(heard, r.method) /\ heard \in Seq(Notices)
      BY <1>2, <2>1, <2>3 DEF Notices, Notified
    <3>4. pc[Main].call = "ConsumeResult" => ResultHeard'
      BY <2>1, <2>3, <3>1, <3>3, HeardMore DEF Notified
    <3>5. pc[Main].call = "NotifyFinished" => BothHeard'
      BY <2>1, <2>3, <3>1, <3>3, HeardMore DEF Notified
    <3>6. Reporting /\ pc[Main].at = "host" /\ heard' \in Seq(Notices)
      BY <2>1, <2>3, <3>3, HeardMore DEF Reporting
    <3> QED BY <1>3, <3>2, <3>4, <3>5, <3>6 DEF Notified, Notices
  <2>4. CASE pc[a].call \notin {"ConsumeResult", "NotifyFinished"}
    <3>1. heard' = heard
      BY <1>2, <1>6, <2>1, <2>4 DEF Silent, Notices
    <3>2. (NoneHeard' <=> NoneHeard) /\ (ResultHeard' <=> ResultHeard) /\ (BothHeard' <=> BothHeard)
          /\ heard' \in Seq(Notices)
      BY <3>1, HeardSame DEF Notified
    <3>3. pc[Main].call \in {"ConsumeResult", "NotifyFinished"} => (MainTold' <=> MainTold)
      <4>1. SUFFICES ASSUME pc[Main].call \in {"ConsumeResult", "NotifyFinished"} PROVE MainTold' <=> MainTold
        OBVIOUS
      <4>2. Main \in Vms /\ pc[Main].at = "host" /\ a # Main
        BY <2>4, <4>1, VmFacts DEF Placement, Placed, Fits, Modules
      <4>3. PICK g \in Hosts : g = Lanes[pc[Main].call] /\ Waits(Main, g)
        BY <1>1, <4>1, <4>2, LaneTypes, NameFacts DEF Waits, HostTraffic
      <4>4. g # h
        BY <1>1, <2>1, <4>2, <4>3 DEF HostTraffic, HostLane
      <4>5. reply'[g] = reply[g] /\ Lanes'[pc'[Main].call] = g
        BY <1>1, <1>4, <4>3, <4>4
      <4> QED BY <4>3, <4>5 DEF MainTold
    <3> QED BY <1>1, <1>3, <3>2, <3>3 DEF Notified, Notices
  <2>5. a # Main => pc[a].call \notin {"ConsumeResult", "NotifyFinished"}
    BY <2>2 DEF AsksOf
  <2> QED BY <2>3, <2>4, <2>5
<1> QED BY <1>5, <1>6

LEMMA NotifiedStep ==
    ASSUME Placement, Traffic, Notified, [Next]_vars
    PROVE  Notified'
<1>1. CASE UNCHANGED <<conf, pc, reply, up, outcome, heard>>
  <2>1. Lanes' = Lanes
    BY <1>1, LanesSame
  <2>2. (MainTold' <=> MainTold) /\ (Reporting' <=> Reporting) /\ pc' = pc
    BY <1>1, <2>1 DEF MainTold, Reporting
  <2> QED BY <1>1, <2>2, HeardSame DEF Notified, Notices
<1>2. CASE Next
  <2>0. pc[Main].at # "exit"
    BY <1>2 DEF Next
  <2>1. CASE VmAction
    <3>1. ~Reporting /\ ~Reporting'
      BY <2>1, VmActionWorks DEF Working, Decided
    <3>2. heard' = heard
      BY <2>1 DEF VmAction, Query, VmHears, VmEnds, get_balance, RunNondet, storage_write, WebRequest, ExecPrompt,
         Prompt, ModuleReplies, ConsumeFuel, CountConsumption, TakeBlock
    <3>3. NoneHeard' /\ heard' \in Seq(Notices)
      BY <3>1, <3>2, HeardSame DEF Notified
    <3>4. pc'[Main].call \notin {"ConsumeResult", "NotifyFinished"} /\ pc'[Main].at \notin {"finish", "exit"}
      BY <3>1 DEF Reporting
    <3> QED BY ONLY <3>3, <3>4 DEF Notified, Notices
  <2>2. CASE RunStep
    BY <2>2, NotifiedRun
  <2>3. CASE \E h \in Hosts : HostHandles(h)
    BY <2>0, <2>3, NotifiedHost
  <2>4. CASE \E h \in Hosts : HostCloses(h)
    <3>1. UNCHANGED <<conf, pc, reply, outcome, heard>>
      BY <2>4 DEF HostCloses, queueVars
    <3>2. (MainTold' <=> MainTold) /\ (Reporting' <=> Reporting) /\ pc' = pc
      BY <3>1, LanesSame DEF MainTold, Reporting
    <3> QED BY <2>0, <3>1, <3>2, HeardSame DEF Notified, Notices
  <2>5. CASE \E m \in Modules : ModuleAnswers(m) \/ ModuleCloses(m)
    BY <1>1, <2>5 DEF ModuleAnswers, ModuleCloses, hostVars, queueVars
  <2> QED BY <1>2, <2>1, <2>2, <2>3, <2>4, <2>5, Actions
<1> QED BY <1>1, <1>2 DEF vars

LEMMA InitNotified == ASSUME Init PROVE Notified
<1>1. heard = <<>> /\ DOMAIN heard = {}
  <2>1. heard = <<>>
    BY DEF Init
  <2> QED BY <2>1
<1>2. Idle(pc[Main], "setup")
  BY VmFacts, IdleFields DEF Init
<1>3. pc[Main].at = "setup" /\ pc[Main].call = ""
  BY <1>2 DEF Idle
<1>4. <<>> \in Seq(Notices)
  OBVIOUS
<1>5. NoneHeard
  BY <1>1 DEF NoneHeard
<1> QED BY <1>1, <1>3, <1>4, <1>5 DEF Notified

LEMMA NotifiedIsLast == ASSUME Notified PROVE FinishedIsLast
<1> DEFINE Ends == {i \in DOMAIN heard : heard[i] # "NotifyNondetDisagreement"}
<1>1. NoneHeard \/ ResultHeard \/ BothHeard
  BY DEF Notified, Reporting
<1>2. PICK l \in Nat : DOMAIN heard = 1..l
  BY DEF Notified, Notices
<1>3. pc[Main].at = "exit" /\ outcome # "none" /\ (\A h \in Hosts : up[h]) => "NotifyFinished" \in Range(heard)
  <2>1. SUFFICES ASSUME BothHeard PROVE "NotifyFinished" \in Range(heard)
    BY DEF Notified
  <2>2. PICK j \in DOMAIN heard : heard[j] = "NotifyFinished"
    BY <2>1 DEF BothHeard
  <2> QED BY <2>2 DEF Range
<1>4. /\ \A i, j \in Ends : i < j => heard[i] = "ConsumeResult" /\ heard[j] = "NotifyFinished"
      /\ \A j \in Ends : heard[j] = "NotifyFinished" => \E i \in Ends : i < j
  <2>1. CASE NoneHeard
    BY <2>1 DEF NoneHeard
  <2>2. CASE ResultHeard
    <3>1. PICK i \in 1..l : /\ heard[i] = "ConsumeResult"
                            /\ \A k \in (1..l) \ {i} : heard[k] = "NotifyNondetDisagreement"
      BY <1>2, <2>2 DEF ResultHeard
    <3>2. Ends = {i} /\ ~(i < i)
      BY <1>2, <3>1
    <3> QED BY <3>1, <3>2
  <2>3. CASE BothHeard
    <3>1. PICK i, j \in 1..l : /\ i < j /\ heard[i] = "ConsumeResult" /\ heard[j] = "NotifyFinished"
                               /\ \A k \in (1..l) \ {i, j} : heard[k] = "NotifyNondetDisagreement"
      BY <1>2, <2>3 DEF BothHeard
    <3>2. Ends = {i, j} /\ ~(i < i) /\ ~(j < j) /\ ~(j < i)
      BY <1>2, <3>1
    <3> QED BY <3>1, <3>2
  <2> QED BY <1>1, <2>1, <2>2, <2>3
<1> QED BY <1>3, <1>4 DEF FinishedIsLast

\* Whatever connections break, a host that hears that the run is finished has the result
\* already and hears either only once; and a run with a result whose hosts stay up ends by
\* saying so (exe/run.rs, host/mod.rs).
THEOREM FinishedComesLast == Spec => []FinishedIsLast
<1>1. Placement /\ Judged /\ Traffic /\ Notified /\ [Next]_vars => Notified'
  BY NotifiedStep
<1> QED BY <1>1, InitNotified, NotifiedIsLast, PlacementHolds, TrafficHolds, PTL DEF Spec

(*----- the report --------------------------------------------------------*)

\* Neither the main VM nor a block met an internal error.
Clean == outcome # "internal" /\ ~Failed

\* How the main VM ended is not changed any more, nor that a block failed.
EndsStay ==
  /\ outcome # "none" => outcome' = outcome
  /\ \A b \in Blocks : fate[b] = "failed" => fate'[b] = "failed"

LEMMA NotEnded ==
    ASSUME Placement, pc[Main].at \in {"setup", "ready", "host", "wait"}, ~Reporting
    PROVE  outcome = "none"
BY DEF Placement, Stages, Ended, Decided

(* An end makes the run unclean if it is an internal error.                *)
LEMMA EndsEnd ==
    ASSUME Placement, NEW a \in Vms, Active(a), VmError(a) \/ InternalError(a), UNCHANGED conf
    PROVE  EndsStay /\ (InternalError(a) => ~Clean')
<1>1. CASE a = Main
  <2>1. outcome = "none"
    BY <1>1, NotEnded DEF Active
  <2>2. fate' = fate /\ (InternalError(a) => outcome' = "internal")
    BY <1>1 DEF VmError, InternalError, MainEnds
  <2> QED BY <2>1, <2>2 DEF EndsStay, Clean
<1>2. CASE a # Main
  <2>1. a \in Blocks /\ ~Off(a)
    BY <1>2, VmFacts DEF Active
  <2>2. PICK how : BlockEnds(a, how) /\ (InternalError(a) => BlockEnds(a, "failed"))
    BY <1>2 DEF VmError, InternalError
  <2>3. CASE conf.role = "leader"
    <3>1. pc[Main].at = "wait" /\ pc[Main].call = ""
      BY <2>1, <2>3, VmFacts DEF Placement, Leads, Placed, Fits
    <3>2. outcome = "none"
      BY <3>1, NotEnded DEF Reporting
    <3>3. fate' = fate
      BY <2>2, <2>3 DEF BlockEnds, LeaderBlockEnds
    <3>4. InternalError(a) => outcome' = "internal"
      BY <2>2, <2>3 DEF BlockEnds, LeaderBlockEnds
    <3> QED BY <3>2, <3>3, <3>4 DEF EndsStay, Clean
  <2>4. CASE conf.role # "leader"
    <3>1. /\ fate[a] = "submitted" /\ outcome' = outcome
          /\ \E f : fate' = [fate EXCEPT ![a] = f]
      BY <2>2, <2>4 DEF BlockEnds, ValidatorBlockEnds, Queue!Settle
    <3>2. \A b \in Blocks \ {a} : fate'[b] = fate[b]
      BY <3>1 DEF Placement
    <3>3. InternalError(a) => fate'[a] = "failed"
      BY <2>2, <2>4 DEF BlockEnds, ValidatorBlockEnds
    <3>4. EndsStay
      BY <3>1, <3>2 DEF EndsStay
    <3>5. InternalError(a) => Failed'
      BY <2>1, <3>3 DEF Failed
    <3> QED BY <3>4, <3>5 DEF Clean
  <2> QED BY <2>3, <2>4
<1> QED BY <1>1, <1>2

LEMMA EndsSame == ASSUME UNCHANGED <<fate, outcome>> PROVE EndsStay
BY DEF EndsStay

LEMMA EndsStayStep == ASSUME Placement, [Next]_vars PROVE EndsStay
<1>1. CASE UNCHANGED vars
  BY <1>1, EndsSame DEF vars
<1>2. CASE RunStep
  <2>1. CASE Setup
    <3>1. pc[Main].call = ""
      BY <2>1, VmFacts DEF Setup, Placement, Placed, Fits
    <3>2. outcome = "none" /\ fate' = fate
      BY <2>1, <3>1, NotEnded DEF Setup, Reporting
    <3> QED BY <3>2 DEF EndsStay
  <2>2. CASE ~Setup
    <3>1. UNCHANGED <<fate, outcome>>
      BY <1>2, <2>2 DEF RunStep, AwaitNondetVms, NotifyDisagreement, ConsumeResult, NotifyFinished, Acknowledged,
         queueVars, Queue!Decide
    <3> QED BY <3>1, EndsSame
  <2> QED BY <2>1, <2>2
<1>3. ASSUME NEW a \in Vms, \/ Query(a) \/ VmHears(a) \/ (\E n \in {-1, 0} \cup Values : get_balance(a, n))
                            \/ WebRequest(a) \/ ExecPrompt(a) \/ Prompt(a) \/ ModuleReplies(a)
                            \/ ConsumeFuel(a) \/ CountConsumption(a)
      PROVE  EndsStay
  <2>1. Active(a) /\ UNCHANGED conf
    <3>1. UNCHANGED conf
      BY <1>3 DEF Query, VmHears, get_balance, WebRequest, ExecPrompt, Prompt, ModuleReplies, ConsumeFuel,
         CountConsumption
    <3>2. \/ pc[a].at \in {"ready", "prompt", "module", "charge", "count"}
          \/ pc[a].at = "host" /\ pc[a].call \notin {"ConsumeResult", "NotifyFinished"}
      BY <1>3 DEF Query, VmHears, get_balance, WebRequest, ExecPrompt, Prompt, ModuleReplies, ConsumeFuel,
         CountConsumption, MayCall, Ready, Answered, ReadFails, Replied, NoReply
    <3> QED BY <3>1, <3>2, ReadyActive
  <2>2. CASE VmError(a) \/ InternalError(a)
    BY <2>1, <2>2, EndsEnd
  <2>3. CASE UNCHANGED queueVars
    BY <2>3, EndsSame DEF queueVars
  <2> QED BY <1>3, <2>2, <2>3 DEF Query, VmHears, get_balance, WebRequest, ExecPrompt, Prompt, ModuleReplies,
             ConsumeFuel, CountConsumption, AskOrFail
<1>4. ASSUME NEW a \in Vms, VmEnds(a) PROVE EndsStay
  <2>1. Active(a) /\ UNCHANGED conf
    BY <1>4, ReadyActive DEF VmEnds, Ready
  <2>2. CASE a = Main
    <3>1. VmError(a)
      BY <1>4, <2>2 DEF VmEnds, VmError
    <3> QED BY <2>1, <3>1, EndsEnd
  <2>3. CASE a # Main
    <3>1. a \in Blocks /\ ~Off(a)
      BY <2>1, <2>3, VmFacts DEF Active
    <3>2. PICK how : BlockEnds(a, how)
      BY <1>4, <2>3 DEF VmEnds
    <3>3. CASE conf.role = "leader"
      <4>1. pc[Main].at = "wait" /\ pc[Main].call = ""
        BY <3>1, <3>3, VmFacts DEF Placement, Leads, Placed, Fits
      <4>2. outcome = "none" /\ fate' = fate
        BY <3>2, <3>3, <4>1, NotEnded DEF Reporting, BlockEnds, LeaderBlockEnds
      <4> QED BY <4>2 DEF EndsStay
    <3>4. CASE conf.role # "leader"
      <4>1. /\ fate[a] = "submitted" /\ outcome' = outcome
            /\ \E f : fate' = [fate EXCEPT ![a] = f]
        BY <3>2, <3>4 DEF BlockEnds, ValidatorBlockEnds, Queue!Settle
      <4> QED BY <4>1 DEF EndsStay, Placement
    <3> QED BY <3>3, <3>4
  <2> QED BY <2>2, <2>3
<1>5. CASE RunNondet
  <2>1. outcome = "none"
    <3>1. pc[Main].at = "ready" /\ Active(Main)
      BY <1>5, VmFacts, ReadyActive DEF RunNondet, MayCall, Ready
    <3> QED BY <3>1, NotEnded DEF Active
  <2>2. fate' = fate \/ (fate[next] = "unused" /\ \E f : fate' = [fate EXCEPT ![next] = f])
    BY <1>5 DEF RunNondet, Queue!Submit
  <2> QED BY <2>1, <2>2 DEF EndsStay, Placement
<1>6. ASSUME NEW b \in Blocks, TakeBlock(b) PROVE EndsStay
  <2>1. outcome' = outcome /\ (fate' = fate \/ (fate[b] = "submitted" /\ \E f : fate' = [fate EXCEPT ![b] = f]))
    BY <1>6 DEF TakeBlock, Queue!Skip, queueVars
  <2> QED BY <2>1 DEF EndsStay, Placement
<1>7. CASE Next
  <2>1. CASE \/ (\E slot \in Slots : storage_write(slot))
             \/ (\E h \in Hosts : HostHandles(h) \/ HostCloses(h))
             \/ (\E m \in Modules : ModuleAnswers(m) \/ ModuleCloses(m))
    BY <2>1, EndsSame DEF storage_write, HostHandles, HostCloses, ModuleAnswers, ModuleCloses, queueVars
  <2> QED BY <1>2, <1>3, <1>4, <1>5, <1>6, <1>7, <2>1, Steps, VmFacts
<1> QED BY <1>1, <1>7

LEMMA CleanBefore == ASSUME Placement, [Next]_vars, Clean' PROVE Clean
BY EndsStayStep DEF Clean, EndsStay, Failed

\* A block that is between the answer of its prompt and the end of what is done with it.
Prompted(b) == pc[b].at \in {"charge", "count"}

\* A step leaves the prompt of block b alone.
Untouched(b) == pc'[b] = pc[b] \/ (~Prompted(b) /\ ~Prompted(b)')

LEMMA GoesUntouched ==
    ASSUME Placement, NEW a \in Vms, NEW at, NEW call, NEW n,
           pc' = [pc EXCEPT ![a] = At(at, call, n)], ~Prompted(a), at \notin {"charge", "count"}
    PROVE  \A b \in Blocks : Untouched(b)
<1>1. pc'[a].at = at /\ \A x \in Vms \ {a} : pc'[x] = pc[x]
  BY Moved
<1> QED BY <1>1, VmFacts DEF Untouched, Prompted

LEMMA LeavesUntouched ==
    ASSUME NEW a \in Vms, Leaves(a)
    PROVE  (\A b \in Blocks \ {a} : Untouched(b)) /\ ~Prompted(a)'
<1>1. ~Prompted(a)'
  BY DEF Leaves, Prompted
<1>2. ASSUME NEW b \in Blocks, b # a PROVE Untouched(b)
  BY <1>2, VmFacts DEF Leaves, Untouched
<1> QED BY <1>1, <1>2

LEMMA GotoUntouched ==
    ASSUME Placement, NEW a \in Vms, NEW at, Goto(a, at), ~Prompted(a), at \notin {"charge", "count"}
    PROVE  \A b \in Blocks : Untouched(b)
<1>1. PICK call, n : call = "" /\ n = 0 /\ pc' = [pc EXCEPT ![a] = At(at, call, n)]
  BY DEF Goto
<1>2. pc' = [pc EXCEPT ![a] = At(at, call, n)]
  BY <1>1
<1> QED BY ONLY Placement, a \in Vms, <1>2, GoesUntouched, ~Prompted(a), at \notin {"charge", "count"}

LEMMA EndUntouched ==
    ASSUME Placement, NEW a \in Vms, Active(a), VmError(a) \/ InternalError(a), UNCHANGED conf, ~Prompted(a)
    PROVE  \A b \in Blocks : Untouched(b)
BY EndKeeps, LeavesUntouched DEF Untouched

LEMMA AskUntouched ==
    ASSUME Placement, NEW a \in Vms, Ready(a), NEW method, NEW n, AskOrFail(a, method, n), UNCHANGED conf
    PROVE  \A b \in Blocks : Untouched(b)
<1>1. Active(a) /\ ~Prompted(a)
  BY ReadyActive DEF Ready, Prompted
<1>2. CASE Ask(a, method, n)
  <2>1. PICK at : at = "host" /\ pc' = [pc EXCEPT ![a] = At(at, method, n)]
    BY <1>2 DEF Ask
  <2>2. at \notin {"charge", "count"}
    BY <2>1
  <2> QED BY ONLY Placement, a \in Vms, <1>1, <2>1, <2>2, GoesUntouched
<1>3. CASE InternalError(a)
  BY <1>1, <1>3, EndUntouched
<1> QED BY <1>2, <1>3 DEF AskOrFail

LEMMA SendUntouched ==
    ASSUME Placement, NEW a \in Vms, NEW m, NEW n, Send(a, m, n), ~Prompted(a)
    PROVE  \A b \in Blocks : Untouched(b)
<1>1. PICK at : at = "module" /\ pc' = [pc EXCEPT ![a] = At(at, m, n)]
  BY DEF Send
<1>2. at \notin {"charge", "count"}
  BY <1>1
<1> QED BY ONLY Placement, a \in Vms, ~Prompted(a), <1>1, <1>2, GoesUntouched

\* A prompt is answered, charged or counted.
PromptStep == \E b \in Blocks : ModuleReplies(b) \/ ConsumeFuel(b) \/ CountConsumption(b)

LEMMA CallsUntouched ==
    ASSUME Placement, NEW a \in Vms,
           \/ Query(a) \/ VmHears(a) \/ VmEnds(a) \/ (\E n \in {-1, 0} \cup Values : get_balance(a, n))
           \/ WebRequest(a) \/ ExecPrompt(a) \/ Prompt(a)
    PROVE  \A b \in Blocks : Untouched(b)
<1>1. ~Prompted(a) /\ UNCHANGED conf
  BY DEF Query, VmHears, VmEnds, get_balance, WebRequest, ExecPrompt, Prompt, MayCall, Ready, Answered, ReadFails,
     Prompted
<1>2. CASE VmEnds(a) \/ VmError(a) \/ InternalError(a)
  <2>1. Active(a)
    <3>1. \/ pc[a].at \in {"ready", "prompt", "module", "charge", "count"}
          \/ pc[a].at = "host" /\ pc[a].call \notin {"ConsumeResult", "NotifyFinished"}
      BY DEF Query, VmHears, VmEnds, get_balance, WebRequest, ExecPrompt, Prompt, MayCall, Ready, Answered, ReadFails
    <3> QED BY <3>1, ReadyActive
  <2>2. CASE VmError(a) \/ InternalError(a)
    BY <1>1, <2>1, <2>2, EndUntouched
  <2>3. CASE VmEnds(a)
    <3>1. CASE a = Main
      <4>1. VmError(a)
        BY <2>3, <3>1 DEF VmEnds, VmError
      <4> QED BY <2>2, <4>1
    <3>2. CASE a # Main
      <4>1. a \in Blocks /\ ~Off(a)
        BY <2>1, <3>2, VmFacts DEF Active
      <4>2. PICK how : BlockEnds(a, how)
        BY <2>3, <3>2 DEF VmEnds
      <4>3. Leaves(a)
        BY <1>1, <4>1, <4>2, BlockEndsKeeps
      <4> QED BY <1>1, <4>3, LeavesUntouched DEF Untouched
    <3> QED BY <3>1, <3>2
  <2> QED BY <1>2, <2>2, <2>3
<1>3. CASE pc' = pc
  BY <1>3 DEF Untouched
<1>4. CASE Query(a)
  <2>1. Ready(a) /\ \E method : AskOrFail(a, method, 0)
    BY <1>4 DEF Query, MayCall
  <2> QED BY <1>1, <2>1, AskUntouched
<1>5. CASE ExecPrompt(a)
  <2>1. Ready(a) /\ \E method, n : AskOrFail(a, method, n)
    BY <1>5 DEF ExecPrompt, MayCall
  <2> QED BY <1>1, <2>1, AskUntouched
<1>6. CASE \E n \in {-1, 0} \cup Values : get_balance(a, n)
  <2>1. Ready(a) /\ (pc' = pc \/ \E method, n : AskOrFail(a, method, n))
    BY <1>6 DEF get_balance, MayCall
  <2> QED BY <1>1, <1>3, <2>1, AskUntouched
<1>7. CASE WebRequest(a) \/ Prompt(a)
  <2>1. InternalError(a) \/ \E m, n : Send(a, m, n)
    BY <1>7 DEF WebRequest, Prompt
  <2> QED BY <1>1, <1>2, <2>1, SendUntouched
<1>8. CASE VmHears(a)
  <2>1. \/ VmError(a) \/ InternalError(a) \/ Goto(a, "ready")
        \/ \E n : pc' = [pc EXCEPT ![a] = At("prompt", "", n)]
    BY <1>8 DEF VmHears
  <2>2. CASE Goto(a, "ready")
    BY <1>1, <2>2, GotoUntouched
  <2>3. CASE \E n : pc' = [pc EXCEPT ![a] = At("prompt", "", n)]
    <3>1. PICK at, call, n : at = "prompt" /\ call = "" /\ pc' = [pc EXCEPT ![a] = At(at, call, n)]
      BY <2>3
    <3>2. at \notin {"charge", "count"}
      BY <3>1
    <3> QED BY ONLY Placement, a \in Vms, <1>1, <3>1, <3>2, GoesUntouched
  <2> QED BY <1>2, <2>1, <2>2, <2>3
<1> QED BY <1>2, <1>4, <1>5, <1>6, <1>7, <1>8

LEMMA NondetUntouched ==
    ASSUME Placement, RunNondet \/ \E c \in Blocks : TakeBlock(c)
    PROVE  \A b \in Blocks : Untouched(b)
<1>1. CASE RunNondet
  <2>1. PICK c : /\ c = next /\ c \in Vms /\ c \in Blocks /\ c # Main
                 /\ Main \in Vms /\ ~Prompted(Main) /\ pc[Main].at = "ready"
    BY <1>1, VmFacts DEF RunNondet, MayCall, Ready, Prompted, Placement
  <2>2. CASE Goto(Main, "await")
    BY <2>1, <2>2, GotoUntouched
  <2>3. CASE conf.role = "leader" /\ pc' = [pc EXCEPT ![Main] = At("wait", "", 0), ![next] = At("ready", "", 0)]
    <3>1. pc'[c] = At("ready", "", 0) /\ \A x \in Vms \ {Main, c} : pc'[x] = pc[x]
      BY <2>1, <2>3 DEF Placement
    <3>2. pc'[c].at = "ready"
      BY <3>1, IdleFields DEF Idle
    <3>3. Off(c)
      BY <2>1, <2>3 DEF Placement, Leads
    <3>4. Untouched(c)
      BY <3>2, <3>3 DEF Untouched, Prompted, Off
    <3> QED BY <2>1, <3>1, <3>4, VmFacts DEF Untouched
  <2> QED BY <1>1, <2>2, <2>3 DEF RunNondet, Untouched
<1>2. CASE \E c \in Blocks : TakeBlock(c)
  <2>1. PICK c \in Blocks : pc[c].at = "off" /\ (pc' = pc \/ Goto(c, "ready"))
    BY <1>2 DEF TakeBlock
  <2>2. c \in Vms /\ ~Prompted(c)
    BY <2>1, VmFacts DEF Prompted
  <2> QED BY <2>1, <2>2, GotoUntouched DEF Untouched
<1> QED BY <1>1, <1>2

LEMMA RunUntouched ==
    ASSUME Placement, RunStep
    PROVE  \A b \in Blocks : Untouched(b)
<1>1. Main \in Vms /\ Main \notin Blocks
  BY VmFacts
<1>2. (\E at : Goto(Main, at)) \/ \E method : Ask(Main, method, 0)
  BY DEF RunStep, Setup, AwaitNondetVms, NotifyDisagreement, ConsumeResult, NotifyFinished, Acknowledged, Abandon
<1>3. \E q : pc' = [pc EXCEPT ![Main] = q]
  BY <1>2, Zenon DEF Goto, Ask
<1>4. PICK q : pc' = [pc EXCEPT ![Main] = q]
  BY <1>3
<1>5. ASSUME NEW b \in Blocks PROVE pc'[b] = pc[b]
  BY <1>1, <1>4, VmFacts DEF Placement
<1> QED BY <1>5 DEF Untouched

LEMMA StepUntouched ==
    ASSUME Placement, [Next]_vars, ~PromptStep
    PROVE  \A b \in Blocks : Untouched(b)
<1>1. CASE pc' = pc
  BY <1>1 DEF Untouched
<1>2. CASE Next
  <2>1. CASE \/ (\E slot \in Slots : storage_write(slot))
             \/ (\E h \in Hosts : HostHandles(h) \/ HostCloses(h))
             \/ (\E m \in Modules : ModuleAnswers(m) \/ ModuleCloses(m))
    BY <1>1, <2>1 DEF storage_write, HostHandles, HostCloses, ModuleAnswers, ModuleCloses
  <2> QED BY <1>2, <2>1, Steps, CallsUntouched, NondetUntouched, RunUntouched, VmFacts DEF PromptStep
<1> QED BY <1>1, <1>2 DEF vars

(* What a prompt consumed is counted, unless it is FuelMax.                *)
LEMMA SpentAppend ==
    ASSUME Counters, NEW n \in 0..FuelMax, consumed' = Append(consumed, n)
    PROVE  Spent \in Int /\ Spent' = Spent + (IF n # FuelMax THEN n ELSE 0)
<1> DEFINE Few(s) == {i \in DOMAIN s : s[i] # FuelMax}
<1>1. PICK s, e : s = consumed /\ e = consumed'
  OBVIOUS
<1>2. PICK l \in Nat : l = Len(s) /\ DOMAIN s = 1..l /\ s \in Seq(0..FuelMax)
  BY <1>1 DEF Counters
<1>3. /\ DOMAIN e = 1..(l + 1) /\ e[l + 1] = n /\ \A i \in 1..l : e[i] = s[i]
  BY <1>1, <1>2, AppendProperties
<1>4. Spent = SumFunctionOnSet(s, Few(s)) /\ Spent' = SumFunctionOnSet(e, Few(e))
  BY <1>1 DEF Spent
<1>5. \A i \in 1..l : s[i] \in Int
  BY <1>2, HostRunAssumption
<1>6. IsFiniteSet(Few(s)) /\ Few(s) \subseteq 1..l /\ l + 1 \notin Few(s)
  <2>1. Few(s) \subseteq 1..l /\ l + 1 \notin 1..l
    BY <1>2
  <2>2. IsFiniteSet(1..l)
    BY FS_Interval
  <2> HIDE DEF Few
  <2>3. IsFiniteSet(Few(s))
    BY <2>1, <2>2, FS_Subset
  <2> QED BY <2>1, <2>3
<1>7. IntsOn(s, Few(s)) /\ AgreeOn(s, e, Few(s)) /\ \A i \in Few(s) : s[i] \in Int /\ e[i] = s[i]
  BY <1>3, <1>5, <1>6 DEF IntsOn, AgreeOn
<1>8. Spent \in Int
  BY <1>4, <1>6, <1>7, SumType
<1>9. CASE n # FuelMax
  <2>1. Few(e) = Few(s) \cup {l + 1}
    BY <1>2, <1>3, <1>9
  <2>2. e[l + 1] \in Int
    BY <1>3, HostRunAssumption
  <2>3. SumFunctionOnSet(e, Few(s) \cup {l + 1}) = SumFunctionOnSet(s, Few(s)) + e[l + 1]
    BY <1>6, <1>7, <2>2, SumAdd
  <2> QED BY <1>3, <1>4, <1>8, <1>9, <2>1, <2>3
<1>10. CASE n = FuelMax
  <2>1. Few(e) = Few(s)
    BY <1>2, <1>3, <1>10
  <2>2. SumFunctionOnSet(e, Few(s)) = SumFunctionOnSet(s, Few(s))
    BY <1>6, <1>7, SumSame
  <2>3. Spent' = Spent
    BY <1>4, <2>1, <2>2
  <2> QED BY ONLY <1>8, <1>10, <2>3
<1> QED BY <1>8, <1>9, <1>10

\* What block b still has to count of what its prompt consumed, and what all of them have.
Owes(b) == IF Prompted(b) /\ pc[b].n # FuelMax THEN pc[b].n ELSE 0
Owed == SumFunctionOnSet([b \in Blocks |-> Owes(b)], Blocks)

LEMMA BlocksFinite == IsFiniteSet(Blocks)
BY HostRunAssumption, FS_Interval DEF Blocks

LEMMA OwesTypes ==
    ASSUME Traffic, NEW b \in Blocks
    PROVE  Owes(b) \in Int
BY HostRunAssumption, VmFacts DEF Traffic, Numbered, Prompted, Owes

\* One block's debt changes.
LEMMA OwedMoves ==
    ASSUME Traffic, Traffic', NEW b \in Blocks, \A c \in Blocks \ {b} : Owes(c)' = Owes(c)
    PROVE  Owed \in Int /\ Owed' = Owed + Owes(b)' - Owes(b)
<1>1. PICK f, e : f = [c \in Blocks |-> Owes(c)] /\ e = [c \in Blocks |-> Owes(c)']
  OBVIOUS
<1>2. Owed = SumFunctionOnSet(f, Blocks) /\ Owed' = SumFunctionOnSet(e, Blocks)
  BY <1>1 DEF Owed
<1>3. \A c \in Blocks : f[c] \in Int /\ e[c] \in Int
  <2>1. \A c \in Blocks : Owes(c) \in Int
    BY OwesTypes
  <2>2. \A c \in Blocks : Owes(c)' \in Int
    BY HostRunAssumption, VmFacts DEF Traffic, Numbered, Prompted, Owes
  <2> QED BY <1>1, <2>1, <2>2
<1>4. \A c \in Blocks \ {b} : e[c] = f[c]
  BY <1>1
<1>5. SumFunctionOnSet(e, Blocks) = SumFunctionOnSet(f, Blocks) + e[b] - f[b]
  BY <1>3, <1>4, BlocksFinite, SumUpdate
<1>6. SumFunctionOnSet(f, Blocks) \in Int
  BY <1>3, BlocksFinite, SumType
<1> QED BY <1>1, <1>2, <1>5, <1>6

LEMMA OwedSame ==
    ASSUME Traffic, Traffic', \A c \in Blocks : Owes(c)' = Owes(c)
    PROVE  Owed \in Int /\ Owed' = Owed
<1>1. [c \in Blocks |-> Owes(c)'] = [c \in Blocks |-> Owes(c)]
  OBVIOUS
<1>2. Owed' = Owed
  BY <1>1 DEF Owed
<1>0. PICK f : f = [c \in Blocks |-> Owes(c)]
  OBVIOUS
<1>3. f = [c \in Blocks |-> Owes(c)] /\ \A c \in Blocks : f[c] \in Int
  BY <1>0, OwesTypes
<1>4. SumFunctionOnSet(f, Blocks) \in Int
  BY <1>3, BlocksFinite, SumType
<1> QED BY <1>2, <1>3, <1>4 DEF Owed

\* Unless something failed, what the prompts consumed, FuelMax apart, is counted or will be.
AllCounted == \E c \in Nat : llm_consumption = Min({FuelMax, c}) /\ c + Owed = Spent
Accounted ==
  /\ \A b \in Blocks : pc[b].at = "count" => pc[b].n # FuelMax
  /\ Clean => AllCounted

LEMMA OwesUntouched == ASSUME NEW b, Untouched(b) PROVE Owes(b)' = Owes(b)
BY DEF Untouched, Owes, Prompted

\* The debts stay what they are, or only that of block b changes, with what is counted.
LEMMA AccountedSame ==
    ASSUME Traffic, Traffic', Accounted, Clean' => Clean, UNCHANGED <<consumed, llm_consumption>>,
           \A c \in Blocks : Owes(c)' = Owes(c) /\ (pc'[c].at = "count" => pc'[c].n # FuelMax)
    PROVE  Accounted'
<1>1. Owed' = Owed
  BY OwedSame
<1>2. Spent' = Spent
  BY DEF Spent
<1>3. AllCounted => AllCounted'
  BY <1>1, <1>2 DEF AllCounted
<1> QED BY <1>3 DEF Accounted

LEMMA UntouchedCount ==
    ASSUME Accounted, NEW b \in Blocks, Untouched(b)
    PROVE  pc'[b].at = "count" => pc'[b].n # FuelMax
BY DEF Accounted, Untouched, Prompted

(* What the answer to a prompt says it consumed is kept until it is told.   *)
LEMMA RepliesCharge ==
    ASSUME Placement, Traffic, NEW b \in Blocks, Replied(b), NEW r, r = Head(answer[pc[b].call]),
           pc' = [pc EXCEPT ![b] = At("charge", "", r.n)]
    PROVE  \E n \in 0..FuelMax : /\ r.n = n /\ pc'[b].at = "charge" /\ pc'[b].n = n
                                 /\ \A x \in Vms \ {b} : pc'[x] = pc[x]
<1>0. b \in Vms
  BY VmFacts
<1>1. PICK m : m = pc[b].call /\ Delivered(b, m)
  BY <1>0, ModAnswer DEF Traffic, Replied
<1>2. PICK kind \in Kinds, n \in 0..FuelMax : answer[m] = <<[to |-> b, kind |-> kind, n |-> n]>>
  BY <1>1 DEF Delivered
<1>3. PICK q : q = [to |-> b, kind |-> kind, n |-> n]
  OBVIOUS
<1>4. q.n = n
  BY ONLY <1>3
<1>5. r = q
  <2>1. PICK s : s = <<q>>
    OBVIOUS
  <2>2. s \in Seq({q}) /\ Len(s) = 1 /\ s[1] = q
    BY ONLY <2>1
  <2>3. Head(s) = s[1]
    BY ONLY <2>2, Single
  <2> QED BY <1>1, <1>2, <1>3, <2>1, <2>2, <2>3
<1>6. PICK at, call, k : at = "charge" /\ call = "" /\ k = n /\ pc' = [pc EXCEPT ![b] = At(at, call, k)]
  BY <1>5, <1>4
<1>7. pc'[b].at = at /\ pc'[b].n = k /\ \A x \in Vms \ {b} : pc'[x] = pc[x]
  <2>1. b \in Vms /\ pc' = [pc EXCEPT ![b] = At(at, call, k)]
    BY <1>0, <1>6
  <2> QED BY ONLY Placement, <2>1, Moved
<1> QED BY <1>5, <1>6, <1>7, <1>4

LEMMA AccountedReplies ==
    ASSUME Placement, Traffic, Traffic', Accounted, Clean' => Clean, NEW b \in Blocks, ModuleReplies(b)
    PROVE  Accounted'
<1>0. b \in Vms /\ UNCHANGED <<conf, llm_consumption>> /\ pc[b].at = "module" /\ ~Prompted(b)
  BY VmFacts DEF ModuleReplies, Replied, NoReply, Prompted
<1>1. CASE UNCHANGED consumed /\ \A c \in Blocks : Untouched(c)
  BY <1>0, <1>1, OwesUntouched, UntouchedCount, AccountedSame
<1>2. CASE InternalError(b) /\ UNCHANGED consumed
  <2>1. Active(b)
    BY <1>0, ReadyActive
  <2> QED BY <1>0, <1>1, <1>2, <2>1, EndUntouched
<1>3. CASE Goto(b, "ready") /\ UNCHANGED consumed
  BY <1>0, <1>1, <1>3, GotoUntouched
<1>4. CASE Replied(b) /\ consumed' = Append(consumed, Head(answer[pc[b].call]).n)
           /\ pc' = [pc EXCEPT ![b] = At("charge", "", Head(answer[pc[b].call]).n)]
  <2>1. PICK r : r = Head(answer[pc[b].call])
    OBVIOUS
  <2>2. PICK n \in 0..FuelMax : /\ r.n = n /\ pc'[b].at = "charge" /\ pc'[b].n = n
                               /\ \A x \in Vms \ {b} : pc'[x] = pc[x]
    BY <1>4, <2>1, RepliesCharge
  <2>5. consumed' = Append(consumed, n)
    BY <1>4, <2>1, <2>2
  <2>6. PICK at : at = "charge"
    OBVIOUS
  <2>7. pc'[b].at = at /\ pc'[b].n = n /\ \A x \in Vms \ {b} : pc'[x] = pc[x]
    BY <2>2, <2>6
  <2>8. PICK d \in Int : d = (IF n # FuelMax THEN n ELSE 0) /\ Owes(b)' = d /\ Owes(b) = 0
    <3>1. PICK d \in Int : d = IF n # FuelMax THEN n ELSE 0
      BY HostRunAssumption
    <3>2. pc'[b].n = n /\ Prompted(b)'
      BY <2>6, <2>7 DEF Prompted
    <3>3. Owes(b)' = d
      BY <3>1, <3>2, Zenon DEF Owes
    <3>4. Owes(b) = 0
      BY <1>0, Zenon DEF Owes
    <3> QED BY <3>1, <3>3, <3>4
  <2>9. \A c \in Blocks \ {b} : Owes(c)' = Owes(c) /\ Untouched(c)
    BY <2>7, VmFacts DEF Owes, Prompted, Untouched
  <2>10. Owed \in Int /\ Owed' = Owed + d
    <3>1. Owed \in Int /\ Owed' = Owed + Owes(b)' - Owes(b)
      BY <2>9, OwedMoves
    <3> QED BY <2>8, <3>1
  <2>11. Spent \in Int /\ Spent' = Spent + d
    <3>1. Spent \in Int /\ Spent' = Spent + (IF n # FuelMax THEN n ELSE 0)
      BY <2>5, SpentAppend DEF Traffic
    <3> QED BY <2>8, <3>1
  <2>12. ASSUME AllCounted PROVE AllCounted'
    <3>1. PICK c \in Nat : llm_consumption = Min({FuelMax, c}) /\ c + Owed = Spent
      BY <2>12 DEF AllCounted
    <3>2. llm_consumption' = Min({FuelMax, c}) /\ c + Owed' = Spent'
      BY <1>0, <2>10, <2>11, <3>1
    <3> QED BY <3>2 DEF AllCounted
  <2>13. \A c \in Blocks : pc'[c].at = "count" => pc'[c].n # FuelMax
    BY <2>6, <2>7, <2>9, UntouchedCount
  <2> QED BY <2>12, <2>13 DEF Accounted
<1> QED BY <1>2, <1>3, <1>4 DEF ModuleReplies

LEMMA AccountedFails ==
    ASSUME Placement, Accounted, NEW a \in Vms, Active(a), InternalError(a), UNCHANGED conf
    PROVE  Accounted'
<1>1. ~Clean'
  BY EndsEnd
<1>2. \A c \in Blocks : pc'[c].at = "count" => pc'[c].n # FuelMax
  <2>1. (\A c \in Blocks \ {a} : Untouched(c)) /\ ~Prompted(a)'
    BY EndKeeps, LeavesUntouched
  <2> QED BY <2>1, UntouchedCount DEF Prompted
<1> QED BY <1>1, <1>2 DEF Accounted

LEMMA AccountedCharge ==
    ASSUME Placement, Traffic, Traffic', Accounted, Clean' => Clean, NEW b \in Blocks, ConsumeFuel(b)
    PROVE  Accounted'
<1>0. b \in Vms /\ UNCHANGED <<conf, consumed, llm_consumption>> /\ pc[b].at = "charge" /\ Active(b)
  BY VmFacts, ReadyActive DEF ConsumeFuel, moneyVars
<1>1. CASE InternalError(b)
  BY <1>0, <1>1, AccountedFails
<1>2. CASE pc[b].n = FuelMax /\ VmError(b)
  <2>1. (\A c \in Blocks \ {b} : Untouched(c)) /\ ~Prompted(b)'
    BY <1>0, <1>2, EndKeeps, LeavesUntouched
  <2>2. Owes(b) = 0 /\ Owes(b)' = 0
    BY <1>2, <2>1 DEF Owes
  <2>3. \A c \in Blocks : Owes(c)' = Owes(c) /\ (pc'[c].at = "count" => pc'[c].n # FuelMax)
    BY <2>1, <2>2, OwesUntouched, UntouchedCount DEF Prompted
  <2> QED BY <1>0, <2>3, AccountedSame
<1>3. CASE pc[b].n # FuelMax /\ pc' = [pc EXCEPT ![b] = At("count", "", pc[b].n)]
  <2>1. PICK at, call, n : at = "count" /\ call = "" /\ n = pc[b].n /\ pc' = [pc EXCEPT ![b] = At(at, call, n)]
    BY <1>3
  <2>2. pc'[b].at = at /\ pc'[b].n = n /\ \A x \in Vms \ {b} : pc'[x] = pc[x]
    <3>1. b \in Vms /\ pc' = [pc EXCEPT ![b] = At(at, call, n)]
      BY <1>0, <2>1
    <3> QED BY ONLY Placement, <3>1, Moved
  <2>3. \A c \in Blocks : Owes(c)' = Owes(c) /\ (pc'[c].at = "count" => pc'[c].n # FuelMax)
    BY <1>0, <1>3, <2>1, <2>2, VmFacts DEF Owes, Prompted, Accounted
  <2> QED BY <1>0, <2>3, AccountedSame
<1> QED BY <1>1, <1>2, <1>3 DEF ConsumeFuel

LEMMA AccountedCounts ==
    ASSUME Placement, Traffic, Traffic', Accounted, Clean' => Clean, NEW b \in Blocks, CountConsumption(b)
    PROVE  Accounted'
<1>0. b \in Vms /\ UNCHANGED <<conf, consumed>> /\ pc[b].at = "count" /\ Active(b) /\ pc[b].n # FuelMax
  BY VmFacts, ReadyActive DEF CountConsumption, Accounted
<1>1. CASE InternalError(b)
  BY <1>0, <1>1, AccountedFails
<1>2. CASE Goto(b, "ready")
  <2>1. pc'[b].at = "ready" /\ \A x \in Vms \ {b} : pc'[x] = pc[x]
    BY <1>0, <1>2, MovedIdle
  <2>2. \A c \in Blocks : c # b => Owes(c)' = Owes(c) /\ pc'[c] = pc[c]
    BY <2>1, VmFacts DEF Owes, Prompted
  <2>3. PICK n \in Nat : n = pc[b].n /\ Owes(b) = n /\ Owes(b)' = 0
    <3>1. pc[b].n \in 0..FuelMax
      BY <1>0 DEF Traffic, Numbered
    <3> QED BY <1>0, <2>1, <3>1, HostRunAssumption DEF Owes, Prompted
  <2>4. Owed \in Int /\ Owed' = Owed - n
    <3>1. Owed \in Int /\ Owed' = Owed + Owes(b)' - Owes(b)
      BY <2>2, OwedMoves
    <3> QED BY <2>3, <3>1
  <2>5. Spent' = Spent
    BY <1>0 DEF Spent
  <2>6. llm_consumption' = Min({llm_consumption + n, FuelMax}) /\ llm_consumption \in Int /\ FuelMax \in Int
    BY <2>3, HostRunAssumption DEF CountConsumption, Traffic, Counters
  <2>7. ASSUME AllCounted PROVE AllCounted'
    <3>1. PICK c \in Nat : llm_consumption = Min({FuelMax, c}) /\ c + Owed = Spent
      BY <2>7 DEF AllCounted
    <3>2. PICK k \in Int : k = llm_consumption + n
      BY <2>6
    <3>3. PICK c1 \in Nat : c1 = c + n
      OBVIOUS
    <3>4. /\ llm_consumption' = IF k < FuelMax THEN k ELSE FuelMax
          /\ llm_consumption = IF FuelMax < c THEN FuelMax ELSE c
          /\ Min({FuelMax, c1}) = IF FuelMax < c1 THEN FuelMax ELSE c1
      BY <2>6, <3>1, <3>2, <3>3, MinIs
    <3>5. llm_consumption' = Min({FuelMax, c1})
      BY <2>6, <3>2, <3>3, <3>4
    <3>6. c1 + Owed' = Spent'
      BY <2>4, <2>5, <3>1, <3>3
    <3> QED BY <3>5, <3>6 DEF AllCounted
  <2>8. \A c \in Blocks : pc'[c].at = "count" => pc'[c].n # FuelMax
    BY <2>1, <2>2 DEF Accounted
  <2> QED BY <2>7, <2>8 DEF Accounted
<1> QED BY <1>1, <1>2 DEF CountConsumption

LEMMA AccountedStep ==
    ASSUME Placement, Traffic, Traffic', Accounted, [Next]_vars
    PROVE  Accounted'
<1>0. Clean' => Clean
  BY CleanBefore
<1>1. CASE PromptStep
  BY <1>0, <1>1, AccountedReplies, AccountedCharge, AccountedCounts DEF PromptStep
<1>2. CASE ~PromptStep
  <2>1. \A c \in Blocks : Untouched(c)
    BY <1>2, StepUntouched
  <2>2. UNCHANGED <<consumed, llm_consumption>>
    <3>1. CASE UNCHANGED vars
      BY <3>1 DEF vars
    <3>2. CASE Next
      BY <1>2, <3>2, Steps DEF PromptStep, Query, VmHears, VmEnds, get_balance, UseBalance, RunNondet, storage_write, RunStep,
           Setup, AwaitNondetVms, NotifyDisagreement, ConsumeResult, NotifyFinished, Acknowledged, WebRequest,
           ExecPrompt, Prompt, TakeBlock, HostHandles, HostCloses, ModuleAnswers, ModuleCloses, moneyVars
    <3> QED BY <3>1, <3>2
  <2> QED BY <1>0, <2>1, <2>2, OwesUntouched, UntouchedCount, AccountedSame
<1> QED BY <1>1, <1>2

Reported == report # <<>> => report = <<Result>>

LEMMA ReportedStep ==
    ASSUME Placement, Reported, [Next]_vars
    PROVE  Reported'
<1>1. ASSUME UNCHANGED <<outcome, verdict, llm_consumption>> PROVE Result' = Result
  BY <1>1 DEF Result, Merged
<1>2. CASE UNCHANGED <<outcome, verdict, llm_consumption, report>>
  BY <1>1, <1>2 DEF Reported
<1>3. CASE report = <<>> /\ report' = report
  BY <1>3 DEF Reported
<1>4. CASE VmAction
  <2>1. Working /\ report' = report
    BY <1>4, VmActionWorks
  <2>2. report = <<>>
    BY <2>1 DEF Working, Decided, Placement, Stages
  <2> QED BY <1>3, <2>1, <2>2
<1>5. CASE RunStep
  <2>1. CASE Setup \/ AwaitNondetVms
    <3>1. ~Reporting /\ report' = report
      BY <2>1, VmFacts DEF Setup, AwaitNondetVms, Reporting, Placement, Placed, Fits
    <3>2. report = <<>>
      BY <3>1 DEF Placement, Stages
    <3> QED BY <1>3, <3>1, <3>2
  <2>2. CASE ConsumeResult
    <3>1. UNCHANGED <<outcome, verdict, llm_consumption>> /\ (report' = report \/ report' = <<Result>>)
      BY <2>2 DEF ConsumeResult, moneyVars
    <3> QED BY <1>1, <1>2, <3>1 DEF Reported
  <2>3. CASE NotifyDisagreement \/ NotifyFinished \/ Acknowledged
    BY <1>2, <2>3 DEF NotifyDisagreement, NotifyFinished, Acknowledged, queueVars, moneyVars
  <2> QED BY <1>5, <2>1, <2>2, <2>3 DEF RunStep
<1>6. CASE \/ \E h \in Hosts : HostHandles(h) \/ HostCloses(h)
           \/ \E m \in Modules : ModuleAnswers(m) \/ ModuleCloses(m)
  BY <1>2, <1>6 DEF HostHandles, HostCloses, ModuleAnswers, ModuleCloses, queueVars, moneyVars
<1>7. CASE Next
  BY <1>4, <1>5, <1>6, <1>7, Actions
<1> QED BY <1>2, <1>7 DEF vars

LEMMA InitAccounted == ASSUME Init PROVE Accounted /\ Reported
<1>1. \A b \in Blocks : Idle(pc[b], "off")
  BY VmFacts, IdleFields DEF Init
<1>2. \A b \in Blocks : pc[b].at = "off"
  BY <1>1 DEF Idle
<1>3. Owed = 0
  <2>1. PICK f : f = [b \in Blocks |-> Owes(b)]
    OBVIOUS
  <2>2. \A b \in Blocks : f[b] = 0
    BY <1>2, <2>1 DEF Owes, Prompted
  <2>3. SumFunctionOnSet(f, Blocks) = 0
    BY <2>2, BlocksFinite, SumZero
  <2> QED BY <2>1, <2>3 DEF Owed
<1>4. Spent = 0
  <2>1. consumed = <<>>
    BY DEF Init
  <2>2. {i \in DOMAIN consumed : consumed[i] # FuelMax} = {}
    BY <2>1
  <2> QED BY <2>2, SumEmpty DEF Spent
<1>5. AllCounted
  <2>1. llm_consumption = 0 /\ FuelMax \in Nat
    BY HostRunAssumption DEF Init
  <2>2. PICK z \in Nat : z = 0
    OBVIOUS
  <2>3. Min({FuelMax, z}) = IF FuelMax < z THEN FuelMax ELSE z
    BY <2>1, MinIs
  <2>4. llm_consumption = Min({FuelMax, z}) /\ z + Owed = Spent
    BY <1>3, <1>4, <2>1, <2>2, <2>3
  <2> QED BY <2>4 DEF AllCounted
<1>6. report = <<>>
  BY DEF Init
<1> QED BY <1>2, <1>5, <1>6 DEF Accounted, Reported

(* The least of the blocks that disagreed.                                 *)
LEMMA LeastBad ==
    ASSUME NEW v \in Queue!Bad, \A d \in Queue!Bad : v <= d
    PROVE  Min(Queue!Bad) = v
<1>1. \A d \in Queue!Bad : d \in Int
  BY HostRunAssumption DEF Queue!Bad, Queue!Calls
<1>2. PICK s : s = Queue!Bad
  OBVIOUS
<1>3. PICK m : m = Min(s)
  OBVIOUS
<1>4. m \in s /\ \A y \in s : m <= y
  BY <1>2, <1>3 DEF Min
<1> QED BY <1>1, <1>2, <1>3, <1>4

LEMMA AccountedIsWhole ==
    ASSUME Placement, Judged, Traffic, Accounted, Reported
    PROVE  ReportIsWhole
<1> SUFFICES ASSUME report # <<>> PROVE ReportIsWhole
  BY DEF ReportIsWhole
<1>1. Decided /\ AllOff
  BY DEF Placement, Stages, Decided
<1>2. PICK r : r = Result /\ report[1] = r
  BY DEF Reported
<1>3. /\ r.ok = Merged /\ r.llm_consumption = llm_consumption
      /\ r.nondet_disagreement = IF Merged /\ verdict.kind = "disagreed" THEN verdict.call ELSE -1
  BY <1>2 DEF Result
<1>4. Merged <=> outcome # "internal" /\ ~Failed
  BY <1>1 DEF Merged, Judged
<1>5. \A b \in Blocks : pc[b].at = "off" /\ fate[b] # "submitted"
  BY <1>1 DEF AllOff, Off
<1>6. ASSUME Merged PROVE r.nondet_disagreement = IF Queue!Bad = {} THEN -1 ELSE Min(Queue!Bad)
  <2>1. CASE verdict.kind = "disagreed"
    <3>1. verdict.call \in Queue!Bad /\ \A d \in Queue!Bad : verdict.call <= d
      BY <1>1, <1>4, <1>6, <2>1 DEF Judged
    <3> QED BY <1>3, <1>6, <2>1, <3>1, LeastBad
  <2>2. CASE verdict.kind # "disagreed"
    BY <1>1, <1>3, <1>4, <1>6, <2>2 DEF Judged
  <2> QED BY <2>1, <2>2
<1>7. ASSUME Merged PROVE r.llm_consumption = Min({FuelMax, Spent})
  <2>1. Owed = 0
    <3>1. PICK f : f = [b \in Blocks |-> Owes(b)]
      OBVIOUS
    <3>2. \A b \in Blocks : f[b] = 0
      BY <1>5, <3>1 DEF Owes, Prompted
    <3>3. SumFunctionOnSet(f, Blocks) = 0
      BY <3>2, BlocksFinite, SumZero
    <3> QED BY <3>1, <3>3 DEF Owed
  <2>2. AllCounted
    BY <1>4, <1>7 DEF Accounted, Clean
  <2>3. PICK c \in Nat : llm_consumption = Min({FuelMax, c}) /\ c + Owed = Spent
    BY <2>2 DEF AllCounted
  <2>4. c = Spent
    BY <2>1, <2>3
  <2> QED BY <1>3, <2>3, <2>4
<1> QED BY <1>2, <1>3, <1>4, <1>5, <1>6, <1>7 DEF ReportIsWhole

\* A result is sent once every VM is done; it is a success only if nothing met an internal
\* error, and then names the first block that disagreed and all that the prompts consumed,
\* whatever blocks ran at the same time and whichever of them failed on the way (lib.rs
\* run_with, wasi/genlayer_sdk.rs).
THEOREM ReportsAreWhole == Spec => []ReportIsWhole
<1>1. Init => Accounted /\ Reported
  BY InitAccounted
<1>2. Placement /\ Traffic /\ Traffic' /\ Accounted /\ Reported /\ [Next]_vars => Accounted' /\ Reported'
  BY AccountedStep, ReportedStep
<1>3. Placement /\ Judged /\ Traffic /\ Accounted /\ Reported => ReportIsWhole
  BY AccountedIsWhole
<1> QED BY <1>1, <1>2, <1>3, PlacementHolds, TrafficHolds, PTL DEF Spec

(*----- the fuel ----------------------------------------------------------*)

\* The connection of ConsumeFuel.
FuelHost == HostFor("ConsumeFuel")

\* What a request takes off the fuel, and those of a connection.
Cost(r) == IF r.method = "ConsumeFuel" THEN r.n ELSE 0
Costs(w) == [i \in DOMAIN w |-> Cost(w[i])]
OnTheWay == SumFunction(Costs(wire[FuelHost]))

\* What the block b has yet to tell of.
Due(b) == IF pc[b].at = "charge" THEN pc[b].n ELSE 0
DueAll == SumFunctionOnSet([b \in Blocks |-> Due(b)], Blocks)

\* The fuel goes over one connection; while that is up, what the host knows of, what is on
\* the way to it and what it is yet to be told is what the prompts consumed.
Routed == \A h \in Hosts : \A i \in DOMAIN wire[h] : wire[h][i].method = "ConsumeFuel" => h = FuelHost
Balanced == \E d \in Nat : fuel = Max({0, Fuel - d}) /\ d + OnTheWay + DueAll = SumFunction(consumed)
FuelKnown == Routed /\ (up[FuelHost] => Balanced)

CostsInt(w) == \A i \in DOMAIN w : Cost(w[i]) \in Int

LEMMA CostsSeq ==
    ASSUME NEW S, NEW w \in Seq(S), CostsInt(w)
    PROVE  /\ Costs(w) \in Seq(Int) /\ Len(Costs(w)) = Len(w) /\ DOMAIN w = 1..Len(w)
           /\ \A i \in 1..Len(w) : Costs(w)[i] = Cost(w[i])
<1>1. PICK l \in Nat : l = Len(w) /\ DOMAIN w = 1..l
  OBVIOUS
<1>2. PICK c : c = Costs(w)
  OBVIOUS
<1>3. DOMAIN c = 1..l /\ \A i \in 1..l : c[i] = Cost(w[i])
  BY <1>1, <1>2 DEF Costs
<1>4. \A i \in 1..l : c[i] \in Int
  BY <1>1, <1>3 DEF CostsInt
<1>5. c = [i \in 1..l |-> c[i]]
  BY <1>1, <1>2, <1>3 DEF Costs
<1>6. c \in [1..l -> Int]
  BY <1>3, <1>4, <1>5
<1>7. c \in Seq(Int) /\ Len(c) = l
  BY <1>3, <1>6
<1> QED BY <1>1, <1>2, <1>3, <1>7

LEMMA CostsAppend ==
    ASSUME NEW S, NEW w \in Seq(S), CostsInt(w), NEW r, NEW v \in Seq(S), v = Append(w, r), Cost(r) \in Int
    PROVE  SumFunction(Costs(w)) \in Int /\ SumFunction(Costs(v)) = SumFunction(Costs(w)) + Cost(r)
<1>1. PICK l \in Nat : l = Len(w) /\ DOMAIN w = 1..l
  OBVIOUS
<1>2. Len(v) = l + 1 /\ v[l + 1] = r /\ \A i \in 1..l : v[i] = w[i]
  BY <1>1
<1>3. /\ Costs(w) \in Seq(Int) /\ Len(Costs(w)) = l
      /\ \A i \in 1..l : Costs(w)[i] = Cost(w[i])
  BY <1>1, CostsSeq
<1>4. CostsInt(v)
  <2>1. DOMAIN v = 1..(l + 1)
    BY <1>2
  <2>2. \A i \in 1..(l + 1) : i = l + 1 \/ i \in 1..l
    BY <1>1
  <2> QED BY <1>1, <1>2, <2>1, <2>2 DEF CostsInt
<1>5. /\ Costs(v) \in Seq(Int) /\ Len(Costs(v)) = l + 1
      /\ \A i \in 1..(l + 1) : Costs(v)[i] = Cost(v[i])
  BY <1>2, <1>4, CostsSeq
<1>6. PICK c, e, k : c = Costs(w) /\ e = Costs(v) /\ k = Cost(r)
  OBVIOUS
<1>7. /\ c \in Seq(Int) /\ e \in Seq(Int) /\ k \in Int /\ Len(c) = l /\ Len(e) = l + 1
      /\ e[l + 1] = k /\ \A i \in 1..l : e[i] = c[i]
  <2>1. l + 1 \in 1..(l + 1) /\ \A i \in 1..l : i \in 1..(l + 1)
    BY <1>1
  <2> QED BY <1>2, <1>3, <1>5, <1>6, <2>1
<1>8. e = Append(c, k)
  <2>1. Append(c, k) \in Seq(Int) /\ Len(Append(c, k)) = l + 1
        /\ Append(c, k)[l + 1] = k /\ \A i \in 1..l : Append(c, k)[i] = c[i]
    BY <1>7, AppendProperties
  <2>2. \A i \in 1..(l + 1) : i = l + 1 \/ i \in 1..l
    BY <1>1
  <2>3. \A i \in 1..Len(e) : e[i] = Append(c, k)[i]
    BY <1>7, <2>1, <2>2
  <2> QED BY <1>7, <2>1, <2>3, SeqEqual
<1> QED BY <1>6, <1>7, <1>8, SumAppend

LEMMA CostsTail ==
    ASSUME NEW S, NEW w \in Seq(S), w # <<>>, CostsInt(w)
    PROVE  /\ SumFunction(Costs(w)) = Cost(Head(w)) + SumFunction(Costs(Tail(w)))
           /\ SumFunction(Costs(Tail(w))) \in Int /\ Cost(Head(w)) \in Int
<1>1. PICK l \in Nat : Len(w) = l + 1 /\ DOMAIN w = 1..(l + 1) /\ Head(w) = w[1]
  <2>1. Len(w) \in Nat /\ Len(w) # 0 /\ DOMAIN w = 1..Len(w) /\ Head(w) = w[1]
    OBVIOUS
  <2>2. Len(w) - 1 \in Nat /\ Len(w) = (Len(w) - 1) + 1
    BY <2>1
  <2> QED BY <2>1, <2>2
<1>2. PICK t : t = Tail(w) /\ t \in Seq(S) /\ Len(t) = l /\ \A i \in 1..l : t[i] = w[i + 1]
  <2>1. PICK t : t = Tail(w)
    OBVIOUS
  <2>2. t \in Seq(S) /\ Len(t) = Len(w) - 1 /\ \A i \in 1..Len(t) : t[i] = w[i + 1]
    BY ONLY w \in Seq(S), w # <<>>, <2>1, HeadTailProperties
  <2> QED BY <1>1, <2>1, <2>2
<1>3. /\ Costs(w) \in Seq(Int) /\ Len(Costs(w)) = l + 1
      /\ \A i \in 1..(l + 1) : Costs(w)[i] = Cost(w[i])
  BY <1>1, CostsSeq
<1>4. \A i \in 1..l : i + 1 \in 1..(l + 1)
  BY <1>1
<1>5. CostsInt(t)
  BY <1>1, <1>2, <1>4 DEF CostsInt
<1>6. /\ Costs(t) \in Seq(Int) /\ Len(Costs(t)) = l
      /\ \A i \in 1..l : Costs(t)[i] = Cost(t[i])
  BY <1>2, <1>5, CostsSeq
<1>7. PICK c, e, k : c = Costs(w) /\ e = Costs(t) /\ k = Cost(Head(w))
  OBVIOUS
<1>8. /\ c \in Seq(Int) /\ e \in Seq(Int) /\ Len(c) = l + 1 /\ Len(e) = l /\ c[1] = k
      /\ \A i \in 1..l : e[i] = c[i + 1]
  <2>1. 1 \in 1..(l + 1)
    BY <1>1
  <2> QED BY <1>1, <1>2, <1>3, <1>4, <1>6, <1>7, <2>1
<1>9. c # <<>> /\ Head(c) = k
  BY <1>8
<1>10. Tail(c) = e
  <2>1. Tail(c) \in Seq(Int) /\ Len(Tail(c)) = l /\ \A i \in 1..l : Tail(c)[i] = c[i + 1]
    BY <1>8, <1>9, HeadTailProperties
  <2>2. \A i \in 1..Len(e) : e[i] = Tail(c)[i]
    BY <1>8, <2>1
  <2> QED BY <1>8, <2>1, <2>2, SeqEqual
<1>11. SumFunction(c) = k + SumFunction(e) /\ SumFunction(e) \in Int /\ k \in Int
  BY <1>8, <1>9, <1>10, SumTail
<1> QED BY <1>2, <1>7, <1>11

LEMMA ConfStays == ASSUME Placement, [Next]_vars PROVE conf' = conf /\ Lanes' = Lanes
<1>1. conf' = conf
  <2>1. CASE UNCHANGED vars
    BY <2>1 DEF vars
  <2>2. CASE Next
    BY <2>2, Actions, VmActionWorks DEF RunStep, Setup, AwaitNondetVms, NotifyDisagreement, ConsumeResult,
       NotifyFinished, Acknowledged, HostHandles, HostCloses, ModuleAnswers, ModuleCloses
  <2> QED BY <2>1, <2>2
<1> QED BY <1>1, LanesSame

LEMMA FuelHostFacts ==
    ASSUME Traffic
    PROVE  FuelHost \in Hosts /\ FuelHost = Lanes["ConsumeFuel"]
<1>1. PICK m : m = "ConsumeFuel" /\ m \in Names
  BY NameFacts
<1>2. Lanes[m] = HostFor(m) /\ Lanes[m] \in Hosts
  BY <1>1, LaneTypes DEF Lanes, Traffic, HostTraffic
<1> QED BY <1>1, <1>2 DEF FuelHost

LEMMA FuelHostStays == ASSUME UNCHANGED conf PROVE FuelHost' = FuelHost
BY DEF FuelHost, HostFor

LEMMA WireCosts ==
    ASSUME Traffic, NEW h \in Hosts
    PROVE  /\ wire[h] \in Seq(Requests) /\ CostsInt(wire[h]) /\ DOMAIN wire = Hosts /\ up[h] \in BOOLEAN
           /\ \A i \in DOMAIN wire[h] : wire[h][i] \in Requests
<1>1. wire[h] \in Seq(Requests) /\ DOMAIN wire = Hosts /\ up[h] \in BOOLEAN
  BY DEF Traffic, HostTraffic, HostLane
<1>2. \A i \in DOMAIN wire[h] : wire[h][i] \in Requests
  BY <1>1
<1>3. \A r \in Requests : Cost(r) \in Int
  BY DEF Requests, Cost
<1> QED BY <1>1, <1>2, <1>3 DEF CostsInt

\* Nothing about fuel is put on a connection.
WireQuiet ==
  \A h \in Hosts :
    \/ wire'[h] = wire[h]
    \/ \E r : r.method # "ConsumeFuel" /\ wire'[h] = Append(wire[h], r)
    \/ wire'[h] = <<>> /\ ~up'[h]

LEMMA QuietSame == ASSUME wire' = wire PROVE WireQuiet
BY DEF WireQuiet

LEMMA AskQuiet ==
    ASSUME Traffic, NEW a, NEW method, NEW n, Ask(a, method, n), method # "ConsumeFuel"
    PROVE  WireQuiet /\ UNCHANGED up
<1> DEFINE r == [from |-> a, method |-> method, n |-> n]
<1>1. r.method = method
  OBVIOUS
<1> HIDE DEF r
<1>2. wire' = [wire EXCEPT ![HostFor(method)] = Append(@, r)] /\ UNCHANGED up
  BY DEF Ask, r
<1>3. \A h \in Hosts : wire'[h] = wire[h] \/ wire'[h] = Append(wire[h], r)
  BY <1>2 DEF Traffic, HostTraffic
<1> QED BY <1>1, <1>2, <1>3 DEF WireQuiet

LEMMA TellQuiet ==
    ASSUME Traffic, NEW a, NEW method, NEW n, Tell(a, method, n), method # "ConsumeFuel"
    PROVE  WireQuiet /\ UNCHANGED up
<1> DEFINE r == [from |-> a, method |-> method, n |-> n]
<1>1. r.method = method
  OBVIOUS
<1> HIDE DEF r
<1>2. wire' = [wire EXCEPT ![HostFor(method)] = IF up[HostFor(method)] THEN Append(@, r) ELSE @] /\ UNCHANGED up
  BY DEF Tell, r
<1>3. \A h \in Hosts : wire'[h] = wire[h] \/ wire'[h] = Append(wire[h], r)
  BY <1>2 DEF Traffic, HostTraffic
<1> QED BY <1>1, <1>2, <1>3 DEF WireQuiet

LEMMA RoutedQuiet ==
    ASSUME Traffic, Traffic', WireQuiet, UNCHANGED conf, Routed
    PROVE  Routed' /\ (up'[FuelHost] => OnTheWay' = OnTheWay) /\ OnTheWay \in Int
<1>0. FuelHost' = FuelHost /\ FuelHost \in Hosts
  BY FuelHostStays, FuelHostFacts
<1>1. ASSUME NEW h \in Hosts, NEW i \in DOMAIN wire'[h], wire'[h][i].method = "ConsumeFuel" PROVE h = FuelHost
  <2>1. wire[h] \in Seq(Requests)
    BY WireCosts
  <2>2. CASE wire'[h] = wire[h]
    BY <1>1, <2>2 DEF Routed
  <2>3. CASE \E r : r.method # "ConsumeFuel" /\ wire'[h] = Append(wire[h], r)
    <3>1. PICK r : r.method # "ConsumeFuel" /\ wire'[h] = Append(wire[h], r)
      BY <2>3
    <3>2. PICK l \in Nat : l = Len(wire[h]) /\ DOMAIN wire[h] = 1..l
      BY <2>1
    <3>3. /\ DOMAIN wire'[h] = 1..(l + 1) /\ wire'[h][l + 1] = r
          /\ \A j \in 1..l : wire'[h][j] = wire[h][j]
      BY <2>1, <3>1, <3>2
    <3>4. i # l + 1 /\ i \in 1..l
      BY <1>1, <3>1, <3>3
    <3> QED BY <1>1, <3>2, <3>3, <3>4 DEF Routed
  <2>4. CASE wire'[h] = <<>>
    BY <1>1, <2>4
  <2> QED BY <2>2, <2>3, <2>4 DEF WireQuiet
<1>2. OnTheWay \in Int /\ (up'[FuelHost] => OnTheWay' = OnTheWay)
  <2>1. PICK g \in Hosts : g = FuelHost
    BY <1>0
  <2>2. PICK w, v : w = wire[g] /\ v = wire'[g] /\ w \in Seq(Requests) /\ v \in Seq(Requests) /\ CostsInt(w)
    <3>1. wire[g] \in Seq(Requests) /\ CostsInt(wire[g])
      BY WireCosts
    <3>2. wire'[g] \in Seq(Requests)
      <4>1. wire'[g] \in Seq(Requests')
        BY DEF Traffic, HostTraffic, HostLane
      <4>2. Requests' = Requests
        BY DEF Requests, Names
      <4> QED BY <4>1, <4>2
    <3> QED BY <3>1, <3>2
  <2>3. OnTheWay = SumFunction(Costs(w)) /\ OnTheWay' = SumFunction(Costs(v))
    BY <1>0, <2>1, <2>2 DEF OnTheWay, Costs, Cost
  <2>4. OnTheWay \in Int
    <3>1. Costs(w) \in Seq(Int)
      BY <2>2, CostsSeq
    <3>2. PICK z : z = 0 /\ z \in Int
      OBVIOUS
    <3> QED BY <2>3, <3>1, <3>2, SumAppend
  <2>5. ASSUME NEW r, r.method # "ConsumeFuel", v = Append(w, r) PROVE OnTheWay' = OnTheWay
    <3>1. Cost(r) = 0 /\ 0 \in Int
      BY <2>5 DEF Cost
    <3>2. PICK z \in Int : z = Cost(r) /\ z = 0
      BY <3>1
    <3>3. SumFunction(Costs(v)) = SumFunction(Costs(w)) + Cost(r)
      BY <2>2, <2>5, <3>2, CostsAppend
    <3>4. PICK s, k, e : s = OnTheWay /\ k = Cost(r) /\ e = OnTheWay'
      OBVIOUS
    <3>5. s \in Int /\ k = 0 /\ e = s + k
      BY <2>3, <2>4, <3>1, <3>3, <3>4
    <3>6. e = s
      BY ONLY <3>5
    <3> QED BY <3>4, <3>6
  <2>6. ASSUME up'[g] PROVE v = w \/ \E r : r.method # "ConsumeFuel" /\ v = Append(w, r)
    BY <2>2, <2>6 DEF WireQuiet
  <2>7. ASSUME up'[g] PROVE OnTheWay' = OnTheWay
    <3>1. CASE v = w
      BY <2>3, <3>1
    <3>2. CASE v # w
      <4>1. PICK r : r.method # "ConsumeFuel" /\ v = Append(w, r)
        BY <2>6, <2>7, <3>2
      <4> QED BY <4>1, <2>5
    <3> QED BY <3>1, <3>2
  <2> QED BY <2>1, <2>4, <2>7
<1> QED BY <1>0, <1>1, <1>2 DEF Routed

LEMMA DueTypes ==
    ASSUME Traffic, NEW b \in Blocks
    PROVE  Due(b) \in Int
BY HostRunAssumption, VmFacts DEF Traffic, Numbered, Due

LEMMA DueMoves ==
    ASSUME Traffic, Traffic', NEW b \in Blocks, \A c \in Blocks \ {b} : Due(c)' = Due(c)
    PROVE  DueAll \in Int /\ DueAll' = DueAll + Due(b)' - Due(b)
<1>1. PICK f, e : f = [c \in Blocks |-> Due(c)] /\ e = [c \in Blocks |-> Due(c)']
  OBVIOUS
<1>2. DueAll = SumFunctionOnSet(f, Blocks) /\ DueAll' = SumFunctionOnSet(e, Blocks)
  BY <1>1 DEF DueAll
<1>3. \A c \in Blocks : f[c] \in Int /\ e[c] \in Int
  <2>1. \A c \in Blocks : Due(c) \in Int
    BY DueTypes
  <2>2. \A c \in Blocks : Due(c)' \in Int
    BY HostRunAssumption, VmFacts DEF Traffic, Numbered, Due
  <2> QED BY <1>1, <2>1, <2>2
<1>4. \A c \in Blocks \ {b} : e[c] = f[c]
  BY <1>1
<1>5. SumFunctionOnSet(e, Blocks) = SumFunctionOnSet(f, Blocks) + e[b] - f[b]
  BY <1>3, <1>4, BlocksFinite, SumUpdate
<1>6. SumFunctionOnSet(f, Blocks) \in Int
  BY <1>3, BlocksFinite, SumType
<1> QED BY <1>1, <1>2, <1>5, <1>6

LEMMA DueSame ==
    ASSUME Traffic, Traffic', \A c \in Blocks : Due(c)' = Due(c)
    PROVE  DueAll \in Int /\ DueAll' = DueAll
<1>1. [c \in Blocks |-> Due(c)'] = [c \in Blocks |-> Due(c)]
  OBVIOUS
<1>2. DueAll' = DueAll
  BY <1>1 DEF DueAll
<1>0. PICK f : f = [c \in Blocks |-> Due(c)]
  OBVIOUS
<1>3. f = [c \in Blocks |-> Due(c)] /\ \A c \in Blocks : f[c] \in Int
  BY <1>0, DueTypes
<1>4. SumFunctionOnSet(f, Blocks) \in Int
  BY <1>3, BlocksFinite, SumType
<1> QED BY <1>2, <1>3, <1>4 DEF DueAll

LEMMA DueUntouched == ASSUME NEW b, Untouched(b) PROVE Due(b)' = Due(b)
BY DEF Untouched, Due, Prompted

LEMMA ClosesQuiet ==
    ASSUME Traffic, NEW h \in Hosts, HostCloses(h)
    PROVE  WireQuiet /\ \A g \in Hosts : up'[g] => up[g]
<1>1. wire' = [wire EXCEPT ![h] = <<>>] /\ up' = [up EXCEPT ![h] = FALSE]
  BY DEF HostCloses
<1>2. DOMAIN wire = Hosts /\ DOMAIN up = Hosts
  BY DEF Traffic, HostTraffic
<1> QED BY <1>1, <1>2 DEF WireQuiet

\* Steps that have nothing to do with fuel.
FuelStep == (\E h \in Hosts : HostHandles(h)) \/ \E b \in Blocks : ModuleReplies(b) \/ ConsumeFuel(b)

LEMMA CalmStep ==
    ASSUME Placement, Traffic, [Next]_vars, ~FuelStep
    PROVE  /\ WireQuiet /\ \A g \in Hosts : up'[g] => up[g]
           /\ UNCHANGED <<conf, fuel, consumed>>
<1>1. ASSUME UNCHANGED <<wire, up>> PROVE WireQuiet /\ \A g \in Hosts : up'[g] => up[g]
  BY <1>1, QuietSame
<1>2. ASSUME NEW a, NEW method, NEW n, Ask(a, method, n) \/ Tell(a, method, n), method # "ConsumeFuel"
      PROVE  WireQuiet /\ \A g \in Hosts : up'[g] => up[g]
  BY <1>2, AskQuiet, TellQuiet
<1>3. ASSUME NEW a, NEW method, NEW n, AskOrFail(a, method, n), method # "ConsumeFuel"
      PROVE  WireQuiet /\ \A g \in Hosts : up'[g] => up[g]
  <2>1. CASE Ask(a, method, n)
    BY <1>2, <1>3, <2>1
  <2>2. CASE UNCHANGED hostVars
    BY <1>1, <2>2 DEF hostVars
  <2> QED BY <1>3, <2>1, <2>2 DEF AskOrFail
<1>4. WireQuiet /\ \A g \in Hosts : up'[g] => up[g]
  <2>1. CASE UNCHANGED vars
    BY <1>1, <2>1 DEF vars
  <2>2. CASE \E a \in Vms : Query(a)
    BY <1>3, <2>2 DEF Query
  <2>3. CASE \E a \in Vms, n \in {-1, 0} \cup Values : get_balance(a, n)
    <3>1. UNCHANGED <<wire, up>> \/ \E a, n : AskOrFail(a, "GetBalance", n)
      BY <2>3 DEF get_balance, hostVars
    <3> QED BY <1>1, <1>3, <3>1
  <2>4. CASE \E b \in Blocks : ExecPrompt(b)
    BY <1>3, <2>4 DEF ExecPrompt
  <2>5. CASE \E a \in Vms : VmHears(a)
    <3>1. UNCHANGED <<wire, up>>
      BY <2>5 DEF VmHears, Answered, ReadFails
    <3> QED BY <1>1, <3>1
  <2>6. CASE RunStep
    <3>1. \/ UNCHANGED <<wire, up>>
          \/ \E method, n : (Ask(Main, method, n) \/ Tell(Main, method, n)) /\ method # "ConsumeFuel"
      <4>1. CASE Setup \/ AwaitNondetVms \/ Acknowledged
        BY <4>1 DEF Setup, AwaitNondetVms, Acknowledged, Answered, ReadFails, hostVars
      <4>2. CASE NotifyDisagreement
        BY <4>2 DEF NotifyDisagreement, hostVars
      <4>3. CASE ConsumeResult \/ NotifyFinished
        BY <4>3 DEF ConsumeResult, NotifyFinished, hostVars
      <4> QED BY <2>6, <4>1, <4>2, <4>3 DEF RunStep
    <3> QED BY <1>1, <1>2, <3>1
  <2>7. CASE \E h \in Hosts : HostCloses(h)
    BY <2>7, ClosesQuiet
  <2>8. CASE \/ RunNondet \/ (\E slot \in Slots : storage_write(slot))
             \/ \E a \in Vms : VmEnds(a)
             \/ \E b \in Blocks : WebRequest(b) \/ Prompt(b) \/ CountConsumption(b) \/ TakeBlock(b)
             \/ \E m \in Modules : ModuleAnswers(m) \/ ModuleCloses(m)
    <3>1. UNCHANGED <<wire, up>>
      BY <2>8 DEF RunNondet, storage_write, VmEnds, WebRequest, Prompt, CountConsumption, TakeBlock, ModuleAnswers,
         ModuleCloses, hostVars
    <3> QED BY <1>1, <3>1
  <2> QED BY <2>1, <2>2, <2>3, <2>4, <2>5, <2>6, <2>7, <2>8, Steps, VmFacts DEF FuelStep
<1>5. UNCHANGED <<fuel, consumed>>
  <2>1. CASE UNCHANGED vars
    BY <2>1 DEF vars
  <2>2. CASE Next
    BY <2>2, Steps DEF FuelStep, Query, VmHears, VmEnds, get_balance, UseBalance, RunNondet, storage_write, RunStep,
         Setup, AwaitNondetVms, NotifyDisagreement, ConsumeResult, NotifyFinished, Acknowledged, WebRequest,
         ExecPrompt, Prompt, CountConsumption, TakeBlock, HostCloses, ModuleAnswers, ModuleCloses, moneyVars
  <2> QED BY <2>1, <2>2
<1> QED BY <1>4, <1>5, ConfStays

LEMMA FuelKnownQuiet ==
    ASSUME Traffic, Traffic', FuelKnown, WireQuiet, UNCHANGED <<conf, fuel, consumed>>,
           \A g \in Hosts : up'[g] => up[g], \A c \in Blocks : Due(c)' = Due(c)
    PROVE  FuelKnown'
<1>1. FuelHost' = FuelHost /\ FuelHost \in Hosts
  BY FuelHostStays, FuelHostFacts
<1>2. Routed' /\ (up'[FuelHost] => OnTheWay' = OnTheWay) /\ DueAll' = DueAll
  BY RoutedQuiet, DueSame DEF FuelKnown
<1>3. ASSUME up'[FuelHost] PROVE Balanced'
  <2>1. Balanced /\ OnTheWay' = OnTheWay
    BY <1>1, <1>2, <1>3 DEF FuelKnown
  <2> QED BY <1>2, <2>1 DEF Balanced
<1> QED BY <1>1, <1>2, <1>3 DEF FuelKnown

LEMMA FuelKnownHandles ==
    ASSUME Placement, Traffic, Traffic', FuelKnown, NEW h \in Hosts, HostHandles(h)
    PROVE  FuelKnown'
<1>0. PICK g \in Hosts : g = FuelHost /\ g = FuelHost' /\ UNCHANGED <<conf, pc, up, consumed>>
  BY FuelHostStays, FuelHostFacts DEF HostHandles, moneyVars
<1>1. DueAll' = DueAll /\ DueAll \in Int
  BY <1>0, DueSame DEF Due
<1>2. PICK w : /\ w = wire[h] /\ w \in Seq(Requests) /\ w # <<>> /\ CostsInt(w)
               /\ wire' = [wire EXCEPT ![h] = Tail(w)] /\ DOMAIN wire = Hosts
  BY WireCosts DEF HostHandles
<1>3. /\ Head(w) = w[1] /\ 1 \in DOMAIN w /\ w[1] \in Requests /\ Tail(w) \in Seq(Requests)
      /\ \A i \in DOMAIN Tail(w) : i + 1 \in DOMAIN w /\ Tail(w)[i] = w[i + 1]
  <2>1. Head(w) = w[1] /\ 1 \in DOMAIN w /\ w[1] \in Requests /\ Len(w) \in Nat \ {0} /\ DOMAIN w = 1..Len(w)
    BY ONLY <1>2
  <2>2. PICK t : t = Tail(w)
    OBVIOUS
  <2>3. t \in Seq(Requests) /\ Len(t) = Len(w) - 1 /\ \A i \in 1..Len(t) : t[i] = w[i + 1]
    BY ONLY <1>2, <2>2, HeadTailProperties
  <2>4. DOMAIN t = 1..Len(t)
    BY ONLY <2>3
  <2>5. \A i \in DOMAIN t : i + 1 \in DOMAIN w
    BY <2>1, <2>3, <2>4
  <2> QED BY <2>1, <2>2, <2>3, <2>4, <2>5
<1>4. Routed'
  <2>1. ASSUME NEW k \in Hosts, NEW i \in DOMAIN wire'[k], wire'[k][i].method = "ConsumeFuel"
        PROVE  k = FuelHost
    <3>1. CASE k = h
      BY <1>2, <1>3, <2>1, <3>1 DEF FuelKnown, Routed
    <3>2. CASE k # h
      BY <1>2, <2>1, <3>2 DEF FuelKnown, Routed
    <3> QED BY <3>1, <3>2
  <2> QED BY <1>0, <2>1 DEF Routed
<1>5. fuel' = IF Head(w).method = "ConsumeFuel" THEN Max({0, fuel - Head(w).n}) ELSE fuel
  BY <1>2 DEF HostHandles
<1>6. CASE h # g
  <2>1. Head(w).method # "ConsumeFuel"
    BY <1>0, <1>2, <1>3, <1>6 DEF FuelKnown, Routed
  <2>2. fuel' = fuel /\ wire'[g] = wire[g]
    BY <1>2, <1>5, <1>6, <2>1
  <2>3. OnTheWay' = OnTheWay
    BY <1>0, <2>2 DEF OnTheWay, Costs, Cost
  <2>4. Balanced => Balanced'
    BY <1>0, <1>1, <2>2, <2>3 DEF Balanced
  <2> QED BY <1>0, <1>4, <2>4 DEF FuelKnown
<1>7. CASE h = g
  <2>1. wire'[g] = Tail(w) /\ wire[g] = w /\ up[g]
    BY <1>2, <1>7 DEF HostHandles
  <2>2. PICK o, p, c : o = OnTheWay /\ p = OnTheWay' /\ c = Cost(Head(w))
    OBVIOUS
  <2>3. o = c + p /\ p \in Int /\ c \in Int
    <3>1. o = SumFunction(Costs(w)) /\ p = SumFunction(Costs(Tail(w)))
      BY <1>0, <2>1, <2>2 DEF OnTheWay, Costs, Cost
    <3> QED BY <1>2, <2>2, <3>1, CostsTail
  <2>4. PICK d \in Nat : fuel = Max({0, Fuel - d}) /\ d + OnTheWay + DueAll = SumFunction(consumed)
    BY <1>0, <2>1 DEF FuelKnown, Balanced
  <2>5. c \in Nat /\ fuel' = IF Head(w).method = "ConsumeFuel" THEN Max({0, fuel - c}) ELSE fuel
    <3>1. CASE Head(w).method = "ConsumeFuel"
      <4>1. Head(w).n \in 0..FuelMax
        BY <1>2, <1>3, <3>1 DEF Traffic, HostTraffic, HostLane
      <4> QED BY <1>5, <2>2, <3>1, <4>1, HostRunAssumption DEF Cost
    <3>2. CASE Head(w).method # "ConsumeFuel"
      BY <1>5, <2>2, <3>2 DEF Cost
    <3> QED BY <3>1, <3>2
  <2>6. Head(w).method # "ConsumeFuel" => c = 0
    BY <2>2 DEF Cost
  <2>7. PICK e \in Nat : e = d + c
    BY <2>5
  <2>8. fuel' = Max({0, Fuel - e})
    <3>1. CASE Head(w).method = "ConsumeFuel"
      <4>1. PICK l, k \in Int : l = Fuel - d /\ k = fuel - c
        BY <2>5, HostRunAssumption DEF Traffic, Counters
      <4>2. PICK m \in Int : m = Fuel - e
        BY HostRunAssumption
      <4>3. fuel = (IF l > 0 THEN l ELSE 0) /\ fuel' = (IF k > 0 THEN k ELSE 0)
            /\ Max({0, Fuel - e}) = (IF m > 0 THEN m ELSE 0)
        BY <2>4, <2>5, <3>1, <4>1, <4>2, MaxIs
      <4> QED BY <2>5, <2>7, <4>1, <4>2, <4>3, HostRunAssumption
    <3>2. CASE Head(w).method # "ConsumeFuel"
      BY <2>4, <2>5, <2>6, <2>7, <3>2
    <3> QED BY <3>1, <3>2
  <2>9. e + OnTheWay' + DueAll' = SumFunction(consumed')
    <3>1. PICK s : s = SumFunction(consumed) /\ s = SumFunction(consumed')
      BY <1>0
    <3>2. d + o + DueAll = s
      BY <2>2, <2>4, <3>1
    <3> QED BY <1>1, <2>2, <2>3, <2>5, <2>7, <3>1, <3>2
  <2> QED BY <1>4, <2>8, <2>9 DEF FuelKnown, Balanced
<1> QED BY <1>6, <1>7

LEMMA FuelKnownCharge ==
    ASSUME Placement, Traffic, Traffic', FuelKnown, NEW b \in Blocks, ConsumeFuel(b)
    PROVE  FuelKnown'
<1>0. PICK g \in Hosts : g = FuelHost /\ g = FuelHost' /\ UNCHANGED <<conf, up, fuel, consumed>>
  BY FuelHostStays, FuelHostFacts DEF ConsumeFuel, moneyVars, hostVars, Tell
<1>1. b \in Vms /\ pc[b].at = "charge" /\ Active(b)
  BY VmFacts, ReadyActive DEF ConsumeFuel
<1>2. pc'[b].at # "charge" /\ \A c \in Blocks : c # b => Due(c)' = Due(c)
  <2>1. CASE VmError(b) \/ InternalError(b)
    <3>1. (\A c \in Blocks \ {b} : Untouched(c)) /\ ~Prompted(b)'
      BY <1>0, <1>1, <2>1, EndKeeps, LeavesUntouched
    <3> QED BY <3>1, DueUntouched DEF Prompted
  <2>2. CASE pc' = [pc EXCEPT ![b] = At("count", "", pc[b].n)]
    <3>1. PICK at, call, n : at = "count" /\ call = "" /\ n = pc[b].n /\ pc' = [pc EXCEPT ![b] = At(at, call, n)]
      BY <2>2
    <3>2. b \in Vms /\ pc' = [pc EXCEPT ![b] = At(at, call, n)]
      BY <1>1, <3>1
    <3>3. pc'[b].at = at /\ \A x \in Vms \ {b} : pc'[x] = pc[x]
      BY ONLY Placement, <3>2, Moved
    <3>4. pc'[b].at # "charge"
      BY <3>1, <3>3
    <3>5. \A c \in Blocks : c # b => pc'[c] = pc[c]
      BY <3>3, VmFacts
    <3> QED BY <3>4, <3>5 DEF Due
  <2> QED BY <2>1, <2>2 DEF ConsumeFuel
<1>3. PICK n \in Nat : n = pc[b].n
  BY <1>1, HostRunAssumption DEF Traffic, Numbered
<1>4. DueAll \in Int /\ DueAll' = DueAll - n
  <2>1. DueAll \in Int /\ DueAll' = DueAll + Due(b)' - Due(b)
    BY <1>2, DueMoves
  <2>2. Due(b) = n /\ Due(b)' = 0
    BY <1>1, <1>2, <1>3 DEF Due
  <2> QED BY <2>1, <2>2
<1>5. CASE Tell(b, "ConsumeFuel", pc[b].n)
  <2>1. PICK r : r = [from |-> b, method |-> "ConsumeFuel", n |-> n]
    OBVIOUS
  <2>2. r.method = "ConsumeFuel" /\ r.n = n
    BY <2>1
  <2>3. wire' = [wire EXCEPT ![g] = IF up[g] THEN Append(wire[g], r) ELSE wire[g]]
    BY <1>0, <1>3, <1>5, <2>1 DEF Tell, FuelHost
  <2>4. Routed'
    <3>1. \A k \in Hosts : k # g => wire'[k] = wire[k]
      BY <2>3 DEF Traffic, HostTraffic
    <3> QED BY <1>0, <3>1 DEF FuelKnown, Routed
  <2>5. ASSUME up'[g] PROVE Balanced'
    <3>1. PICK w, v : /\ w = wire[g] /\ w \in Seq(Requests) /\ CostsInt(w)
                      /\ v = wire'[g] /\ v = Append(w, r) /\ v \in Seq(Requests)
      <4>1. wire[g] \in Seq(Requests) /\ CostsInt(wire[g]) /\ DOMAIN wire = Hosts
        BY WireCosts
      <4>2. wire'[g] \in Seq(Requests)
        <5>1. wire'[g] \in Seq(Requests') /\ Requests' = Requests
          BY DEF Traffic, HostTraffic, HostLane, Requests, Names
        <5> QED BY <5>1
      <4> QED BY <1>0, <2>3, <2>5, <4>1, <4>2
    <3>2. Cost(r) = n /\ Cost(r) \in Int
      BY <2>2 DEF Cost
    <3>3. PICK o, p : o = OnTheWay /\ p = OnTheWay'
      OBVIOUS
    <3>4. o = SumFunction(Costs(w)) /\ p = SumFunction(Costs(v))
      BY <1>0, <3>1, <3>3 DEF OnTheWay, Costs, Cost
    <3>5. o \in Int /\ p = o + n
      <4>1. SumFunction(Costs(w)) \in Int /\ SumFunction(Costs(v)) = SumFunction(Costs(w)) + Cost(r)
        BY <3>1, <3>2, CostsAppend
      <4> QED BY <3>2, <3>4, <4>1
    <3>6. PICK d \in Nat : fuel = Max({0, Fuel - d}) /\ d + OnTheWay + DueAll = SumFunction(consumed)
      BY <1>0, <2>5 DEF FuelKnown, Balanced
    <3>7. d + OnTheWay' + DueAll' = SumFunction(consumed')
      <4>1. d + o + DueAll = SumFunction(consumed')
        BY <1>0, <3>3, <3>6
      <4>2. d + p + DueAll' = d + o + DueAll
        BY <1>4, <3>5
      <4> QED BY <3>3, <4>1, <4>2
    <3>8. fuel' = Max({0, Fuel - d})
      BY <1>0, <3>6
    <3> QED BY <3>7, <3>8 DEF Balanced
  <2> QED BY <1>0, <2>4, <2>5 DEF FuelKnown
<1>6. CASE Unreachable("ConsumeFuel") /\ UNCHANGED hostVars
  <2>1. ~up[g] /\ UNCHANGED <<wire, up>>
    BY <1>0, <1>6 DEF Unreachable, FuelHost, hostVars
  <2> QED BY <1>0, <2>1 DEF FuelKnown, Routed
<1> QED BY <1>5, <1>6 DEF ConsumeFuel

LEMMA FuelKnownReplies ==
    ASSUME Placement, Traffic, Traffic', FuelKnown, NEW b \in Blocks, ModuleReplies(b)
    PROVE  FuelKnown'
<1>0. b \in Vms /\ UNCHANGED <<conf, wire, up, fuel>> /\ pc[b].at = "module" /\ ~Prompted(b)
  BY VmFacts DEF ModuleReplies, Replied, NoReply, Prompted, hostVars
<1>1. CASE UNCHANGED consumed /\ \A c \in Blocks : Untouched(c)
  BY <1>0, <1>1, DueUntouched, FuelKnownQuiet, QuietSame
<1>2. CASE InternalError(b) /\ UNCHANGED consumed
  <2>1. Active(b)
    BY <1>0, ReadyActive
  <2> QED BY <1>0, <1>1, <1>2, <2>1, EndUntouched
<1>3. CASE Goto(b, "ready") /\ UNCHANGED consumed
  BY <1>0, <1>1, <1>3, GotoUntouched
<1>4. CASE Replied(b) /\ consumed' = Append(consumed, Head(answer[pc[b].call]).n)
           /\ pc' = [pc EXCEPT ![b] = At("charge", "", Head(answer[pc[b].call]).n)]
  <2>1. PICK r : r = Head(answer[pc[b].call])
    OBVIOUS
  <2>2. PICK n \in 0..FuelMax : /\ r.n = n /\ pc'[b].at = "charge" /\ pc'[b].n = n
                                /\ \A x \in Vms \ {b} : pc'[x] = pc[x]
    BY <1>4, <2>1, RepliesCharge
  <2>3. consumed' = Append(consumed, n)
    BY <1>4, <2>1, <2>2
  <2>4. DueAll \in Int /\ DueAll' = DueAll + n
    <3>1. \A c \in Blocks \ {b} : Due(c)' = Due(c)
      BY <2>2, VmFacts DEF Due
    <3>2. Due(b) = 0 /\ Due(b)' = n
      BY <1>0, <2>2 DEF Due
    <3>3. DueAll \in Int /\ DueAll' = DueAll + Due(b)' - Due(b)
      BY <3>1, DueMoves
    <3> QED BY <3>2, <3>3, HostRunAssumption
  <2>5. SumFunction(consumed) \in Int /\ SumFunction(consumed') = SumFunction(consumed) + n
    <3>1. PICK c : c = consumed /\ c \in Seq(Int)
      BY HostRunAssumption DEF Traffic, Counters
    <3>2. n \in Int
      BY HostRunAssumption
    <3>3. SumFunction(Append(c, n)) = SumFunction(c) + n /\ SumFunction(c) \in Int
      BY ONLY <3>1, <3>2, SumAppend
    <3> QED BY <2>3, <3>1, <3>3
  <2>6. FuelHost' = FuelHost /\ FuelHost \in Hosts
    BY <1>0, FuelHostStays, FuelHostFacts
  <2>7. Routed' /\ (up'[FuelHost] => OnTheWay' = OnTheWay) /\ OnTheWay \in Int
    BY <1>0, RoutedQuiet, QuietSame DEF FuelKnown
  <2>8. ASSUME up'[FuelHost] PROVE Balanced'
    <3>1. PICK d \in Nat : fuel = Max({0, Fuel - d}) /\ d + OnTheWay + DueAll = SumFunction(consumed)
      BY <1>0, <2>8 DEF FuelKnown, Balanced
    <3>2. PICK o, p : o = OnTheWay /\ p = OnTheWay'
      OBVIOUS
    <3>3. p = o /\ o \in Int
      BY <2>7, <2>8, <3>2
    <3>4. d + p + DueAll' = SumFunction(consumed')
      BY <2>4, <2>5, <3>1, <3>2, <3>3, HostRunAssumption
    <3> QED BY <1>0, <3>1, <3>2, <3>4 DEF Balanced
  <2> QED BY <2>6, <2>7, <2>8 DEF FuelKnown
<1> QED BY <1>2, <1>3, <1>4 DEF ModuleReplies

LEMMA FuelKnownStep ==
    ASSUME Placement, Traffic, Traffic', FuelKnown, [Next]_vars
    PROVE  FuelKnown'
<1>1. CASE FuelStep
  BY <1>1, FuelKnownHandles, FuelKnownCharge, FuelKnownReplies DEF FuelStep
<1>2. CASE ~FuelStep
  <2>1. /\ WireQuiet /\ \A g \in Hosts : up'[g] => up[g]
        /\ UNCHANGED <<conf, fuel, consumed>>
    BY <1>2, CalmStep
  <2>2. CASE PromptStep
    <3>1. PICK b \in Blocks : CountConsumption(b)
      BY <1>2, <2>2 DEF PromptStep, FuelStep
    <3>2. b \in Vms /\ pc[b].at = "count" /\ Active(b)
      BY <3>1, VmFacts, ReadyActive DEF CountConsumption
    <3>3. pc'[b].at # "charge" /\ \A c \in Blocks : c # b => Due(c)' = Due(c)
      <4>1. CASE InternalError(b)
        <5>1. (\A c \in Blocks \ {b} : Untouched(c)) /\ ~Prompted(b)'
          BY <2>1, <3>2, <4>1, EndKeeps, LeavesUntouched
        <5> QED BY <5>1, DueUntouched DEF Prompted
      <4>2. CASE Goto(b, "ready")
        <5>1. pc'[b].at = "ready" /\ \A x \in Vms \ {b} : pc'[x] = pc[x]
          BY <3>2, <4>2, MovedIdle
        <5> QED BY <5>1, VmFacts DEF Due
      <4> QED BY <3>1, <4>1, <4>2 DEF CountConsumption
    <3>4. \A c \in Blocks : Due(c)' = Due(c)
      BY <3>2, <3>3 DEF Due
    <3> QED BY <2>1, <3>4, FuelKnownQuiet
  <2>3. CASE ~PromptStep
    BY <2>1, <2>3, StepUntouched, DueUntouched, FuelKnownQuiet
  <2> QED BY <2>2, <2>3
<1> QED BY <1>1, <1>2

\* What the prompts of a leader have left.
Left == Max({0, Fuel - SumFunction(consumed)})

\* A block that was told of the fuel, or is about to be, hears what is left.
Offer(b) ==
  /\ pc[b].at = "prompt" \/ pc[b].call = "llm" => pc[b].n = Left
  /\ pc[b].call = "RemainingFuelAsGen" /\ reply[FuelHost] # <<>> /\ reply[FuelHost][1].ok
     => reply[FuelHost][1].n = Left

OneConnection == conf.role = "leader" /\ HostFor("ConsumeFuel") = HostFor("RemainingFuelAsGen")
Offered == OneConnection => \A b \in Blocks : Offer(b)

Offering(b) == pc[b].at = "prompt" \/ pc[b].call \in {"llm", "RemainingFuelAsGen"}

LEMMA NoOffer == ASSUME NEW b, ~Offering(b)' PROVE Offer(b)'
BY DEF Offering, Offer

LEMMA LeftSame == ASSUME UNCHANGED consumed PROVE Left' = Left
BY DEF Left

LEMMA OfferStays ==
    ASSUME NEW b, Offer(b), UNCHANGED <<conf, consumed>>, pc'[b] = pc[b],
           pc[b].call = "RemainingFuelAsGen" => reply'[FuelHost] = reply[FuelHost]
    PROVE  Offer(b)'
<1>1. FuelHost' = FuelHost /\ Left' = Left
  BY FuelHostStays, LeftSame
<1> QED BY <1>1 DEF Offer

\* What a leader's block does, and with whom.
BlockAction(b) ==
  \/ Query(b) \/ VmHears(b) \/ VmEnds(b) \/ (\E n \in {-1, 0} \cup Values : get_balance(b, n))
  \/ WebRequest(b) \/ ExecPrompt(b) \/ Prompt(b) \/ ModuleReplies(b) \/ ConsumeFuel(b) \/ CountConsumption(b)

LEMMA LeaderSteps ==
    ASSUME Placement, conf.role = "leader", NEW b \in Blocks, ~Off(b), Next
    PROVE  \/ BlockAction(b)
           \/ \E h \in Hosts : HostHandles(h) \/ HostCloses(h)
           \/ \E m \in Modules : ModuleAnswers(m) \/ ModuleCloses(m)
<1>1. /\ pc[Main].at = "wait" /\ pc[Main].call = ""
      /\ \A c \in Blocks : fate[c] # "submitted" /\ (c # b => pc[c].at = "off")
  <2>1. pc[Main].at = "wait" /\ \A c \in Blocks : fate[c] # "submitted" /\ (c # b => Off(c))
    BY DEF Placement, Leads
  <2>2. pc[Main].call = ""
    BY <2>1, VmFacts DEF Placement, Placed, Fits
  <2> QED BY <2>1, <2>2 DEF Off
<1>2. \A a \in Vms : pc[a].at \in {"ready", "host", "module", "prompt", "charge", "count"} => a = b
  BY <1>1, VmFacts
<1>3. ~RunStep /\ ~RunNondet /\ ~(\E slot \in Slots : storage_write(slot)) /\ ~(\E c \in Blocks : TakeBlock(c))
  BY <1>1 DEF RunStep, Setup, AwaitNondetVms, NotifyDisagreement, ConsumeResult, NotifyFinished, Acknowledged,
     RunNondet, storage_write, MayCall, Ready, TakeBlock
<1>4. ASSUME NEW a \in Vms,
             \/ Query(a) \/ VmHears(a) \/ VmEnds(a) \/ (\E n \in {-1, 0} \cup Values : get_balance(a, n))
             \/ WebRequest(a) \/ ExecPrompt(a) \/ Prompt(a) \/ ModuleReplies(a) \/ ConsumeFuel(a) \/ CountConsumption(a)
      PROVE  BlockAction(b)
  <2>1. pc[a].at \in {"ready", "host", "module", "prompt", "charge", "count"}
    BY <1>4 DEF Query, VmHears, VmEnds, get_balance, WebRequest, ExecPrompt, Prompt, ModuleReplies, ConsumeFuel,
       CountConsumption, MayCall, Ready, Answered, ReadFails, Replied, NoReply
  <2>2. a = b
    BY <1>2, <2>1
  <2> QED BY <1>4, <2>2 DEF BlockAction
<1>5. CASE \E c \in Blocks : \/ WebRequest(c) \/ ExecPrompt(c) \/ Prompt(c) \/ ModuleReplies(c)
                             \/ ConsumeFuel(c) \/ CountConsumption(c)
  BY <1>4, <1>5, VmFacts
<1>6. CASE \E a \in Vms : \/ Query(a) \/ VmHears(a) \/ VmEnds(a)
                          \/ \E n \in {-1, 0} \cup Values : get_balance(a, n)
  BY <1>4, <1>6
<1> QED BY <1>3, <1>5, <1>6, Steps

(* A block that asks something else, goes on with something else or ends.   *)
LEMMA MovesNoOffer ==
    ASSUME Placement, NEW b \in Blocks, NEW at, NEW call, NEW n, pc' = [pc EXCEPT ![b] = At(at, call, n)],
           at # "prompt", call \notin {"llm", "RemainingFuelAsGen"}
    PROVE  ~Offering(b)'
<1>1. b \in Vms
  BY VmFacts
<1>2. pc'[b].at = at /\ pc'[b].call = call
  BY <1>1, Moved
<1> QED BY <1>2 DEF Offering

LEMMA GotoNoOffer ==
    ASSUME Placement, NEW b \in Blocks, NEW at, Goto(b, at), at # "prompt"
    PROVE  ~Offering(b)'
<1>1. PICK call, n : call = "" /\ n = 0 /\ pc' = [pc EXCEPT ![b] = At(at, call, n)]
  BY DEF Goto
<1>2. pc' = [pc EXCEPT ![b] = At(at, call, n)] /\ call \notin {"llm", "RemainingFuelAsGen"}
  BY <1>1
<1> QED BY ONLY Placement, b \in Blocks, at # "prompt", <1>2, MovesNoOffer

LEMMA LeavesNoOffer == ASSUME NEW b, Leaves(b) PROVE ~Offering(b)'
BY DEF Leaves, Offering

LEMMA EndNoOffer ==
    ASSUME Placement, NEW b \in Blocks, ~Off(b), VmError(b) \/ InternalError(b), UNCHANGED conf
    PROVE  ~Offering(b)'
<1>1. b \in Vms /\ Active(b)
  BY VmFacts DEF Active
<1> QED BY <1>1, EndKeeps, LeavesNoOffer

LEMMA LeaderDue ==
    ASSUME Placement, conf.role = "leader", NEW b \in Blocks, ~Off(b), pc[b].at # "charge"
    PROVE  DueAll = 0
<1>1. \A c \in Blocks : pc[c].at # "charge"
  BY DEF Placement, Leads, Off
<1>2. PICK f : f = [c \in Blocks |-> Due(c)]
  OBVIOUS
<1>3. \A c \in Blocks : f[c] = 0
  BY <1>1, <1>2 DEF Due
<1>4. SumFunctionOnSet(f, Blocks) = 0
  BY ONLY <1>3, BlocksFinite, SumZero
<1> QED BY <1>2, <1>4 DEF DueAll

LEMMA OfferHandles ==
    ASSUME Placement, Traffic, FuelKnown, OneConnection, NEW b \in Blocks, ~Off(b), Offer(b),
           NEW h \in Hosts, HostHandles(h)
    PROVE  Offer(b)'
<1>0. UNCHANGED <<conf, pc, consumed, up>> /\ up[h] /\ wire[h] # <<>> /\ FuelHost \in Hosts
  BY FuelHostFacts DEF HostHandles, moneyVars
<1>1. CASE pc[b].call # "RemainingFuelAsGen" \/ h # FuelHost
  <2>1. h # FuelHost => reply'[FuelHost] = reply[FuelHost]
    BY <1>0 DEF HostHandles, Traffic, HostTraffic
  <2> QED BY <1>0, <1>1, <2>1, OfferStays
<1>2. CASE pc[b].call = "RemainingFuelAsGen" /\ h = FuelHost
  <2>1. b \in Vms /\ pc[b].at = "host" /\ Waits(b, h) /\ hostLock[h] = b /\ b # NoOne
    <3>1. b \in Vms /\ pc[b].at = "host"
      BY <1>2, VmFacts DEF Placement, Placed, Fits, Modules
    <3>2. "RemainingFuelAsGen" \in Names
      BY NameFacts
    <3>3. Waits(b, h)
      BY <1>2, <3>1, <3>2 DEF OneConnection, FuelHost, Waits, Lanes
    <3> QED BY <3>1, <3>3, VmFacts DEF Traffic, HostTraffic, HostLane
  <2>2. reply[h] = <<>> /\ DOMAIN reply = Hosts
    BY <1>0, HostReads DEF Traffic, HostTraffic
  <2>3. CASE Head(wire[h]).method \in Silent
    <3>1. reply'[h] = reply[h]
      BY <2>2, <2>3 DEF HostHandles
    <3> QED BY <1>0, <1>2, <3>1, OfferStays
  <2>4. CASE Head(wire[h]).method \notin Silent
    <3>1. Head(wire[h]) = Request(b) /\ Tail(wire[h]) = <<>>
      BY <1>0, <2>1, <2>4, HostReads DEF Traffic
    <3>2. Head(wire[h]).method = "RemainingFuelAsGen"
      BY <1>2, <3>1 DEF Request
    <3>3. OnTheWay = 0
      <4>1. PICK w : w = wire[h] /\ w \in Seq(Requests) /\ w # <<>> /\ CostsInt(w) /\ Tail(w) = <<>>
        BY <1>0, <3>1, WireCosts
      <4>2. SumFunction(Costs(w)) = Cost(Head(w)) + SumFunction(Costs(Tail(w)))
        BY <4>1, CostsTail
      <4>3. Cost(Head(w)) = 0
        BY <3>2, <4>1 DEF Cost
      <4>4. SumFunction(Costs(Tail(w))) = 0
        <5>1. DOMAIN Costs(<<>>) = {}
          BY DEF Costs
        <5> QED BY <4>1, <5>1, SumEmpty DEF SumFunction
      <4> QED BY <1>2, <4>1, <4>2, <4>3, <4>4 DEF OnTheWay
    <3>4. DueAll = 0
      BY <2>1, LeaderDue DEF OneConnection
    <3>5. PICK d \in Nat : fuel = Max({0, Fuel - d}) /\ d + OnTheWay + DueAll = SumFunction(consumed)
      BY <1>0, <1>2 DEF FuelKnown, Balanced
    <3>6. d = SumFunction(consumed)
      BY <3>3, <3>4, <3>5
    <3>7. fuel = Left
      BY <3>5, <3>6 DEF Left
    <3>8. PICK r : reply'[h] = Append(<<>>, r) /\ r.n = fuel
      <4>1. "RemainingFuelAsGen" \notin Silent /\ "RemainingFuelAsGen" # "GetBalance"
        BY DEF Silent
      <4>2. \E ok : reply' = [reply EXCEPT ![h] = Append(@, [to |-> Head(wire[h]).from, ok |-> ok, n |-> fuel])]
        BY <3>2, <4>1 DEF HostHandles
      <4>3. PICK ok : reply' = [reply EXCEPT ![h] = Append(@, [to |-> Head(wire[h]).from, ok |-> ok, n |-> fuel])]
        BY <4>2
      <4> QED BY <2>2, <4>3
    <3>9. reply'[h][1] = r
      BY <3>8
    <3>10. FuelHost' = FuelHost /\ Left' = Left
      BY <1>0, FuelHostStays, LeftSame
    <3>11. reply'[FuelHost'][1].n = Left'
      BY <1>2, <3>7, <3>8, <3>9, <3>10
    <3>12. pc'[b].at # "prompt" /\ pc'[b].call # "llm"
      BY <1>0, <1>2, <2>1
    <3> QED BY <3>11, <3>12 DEF Offer
  <2> QED BY <2>3, <2>4
<1> QED BY <1>1, <1>2

LEMMA OfferAsks ==
    ASSUME Placement, Traffic, NEW b \in Blocks, Ready(b), NEW method, NEW n, AskOrFail(b, method, n),
           UNCHANGED conf, method # "llm", OneConnection
    PROVE  Offer(b)'
<1>1. b \in Vms /\ ~Off(b)
  BY VmFacts DEF Ready, Off
<1>2. CASE InternalError(b)
  BY <1>1, <1>2, EndNoOffer, NoOffer
<1>3. CASE Ask(b, method, n)
  <2>1. PICK at : at = "host" /\ pc' = [pc EXCEPT ![b] = At(at, method, n)]
    BY <1>3 DEF Ask
  <2>2. pc'[b].at = at /\ pc'[b].call = method
    <3>1. b \in Vms /\ pc' = [pc EXCEPT ![b] = At(at, method, n)]
      BY <1>1, <2>1
    <3> QED BY ONLY Placement, <3>1, Moved
  <2>3. method = "RemainingFuelAsGen" => reply'[FuelHost'] = <<>>
    <3>1. HostFor(method) \in Hosts \/ method # "RemainingFuelAsGen"
      <4>1. "RemainingFuelAsGen" \in Names
        BY NameFacts
      <4> QED BY <4>1, LaneTypes DEF Lanes, Traffic, HostTraffic
    <3> QED BY <1>3, <3>1, FuelHostStays DEF Ask, OneConnection, FuelHost, Traffic, HostTraffic, HostLane
  <2> QED BY <2>1, <2>2, <2>3 DEF Offer
<1> QED BY <1>2, <1>3 DEF AskOrFail

LEMMA OfferHears ==
    ASSUME Placement, Traffic, OneConnection, NEW b \in Blocks, Offer(b), VmHears(b)
    PROVE  Offer(b)'
<1>0. b \in Vms /\ ~Off(b) /\ UNCHANGED conf
  BY VmFacts DEF VmHears, Answered, ReadFails, Off
<1>1. CASE VmError(b) \/ InternalError(b)
  BY <1>0, <1>1, EndNoOffer, NoOffer
<1>2. CASE Goto(b, "ready")
  BY <1>2, GotoNoOffer, NoOffer
<1>3. CASE /\ Answered(b) /\ pc[b].call = "RemainingFuelAsGen" /\ Head(reply[HostFor(pc[b].call)]).ok
           /\ pc' = [pc EXCEPT ![b] = At("prompt", "", Head(reply[HostFor(pc[b].call)]).n)] /\ UNCHANGED consumed
  <2>1. PICK g \in Hosts : g = HostFor(pc[b].call) /\ g = FuelHost /\ Told(b, g)
    BY <1>0, <1>3, HostAnswer DEF OneConnection, FuelHost, Traffic
  <2>2. PICK s : s = reply[g] /\ s \in Seq(Replies) /\ Len(s) = 1
    BY <2>1 DEF Told, Traffic, HostTraffic, HostLane
  <2>3. Head(s) = s[1] /\ s # <<>>
    BY ONLY <2>2, Single
  <2>4. s[1].n = Left
    BY <1>3, <2>1, <2>2, <2>3 DEF Offer
  <2>5. PICK at, call, n : at = "prompt" /\ call = "" /\ n = Left /\ pc' = [pc EXCEPT ![b] = At(at, call, n)]
    BY <1>3, <2>1, <2>2, <2>3, <2>4
  <2>6. b \in Vms /\ pc' = [pc EXCEPT ![b] = At(at, call, n)]
    BY <1>0, <2>5
  <2>7. pc'[b].call = call /\ pc'[b].n = n
    BY ONLY Placement, <2>6, Moved
  <2>8. Left' = Left
    BY <1>3, LeftSame
  <2> QED BY <2>5, <2>7, <2>8 DEF Offer
<1> QED BY <1>1, <1>2, <1>3 DEF VmHears, moneyVars

LEMMA OfferSends ==
    ASSUME Placement, NEW b \in Blocks, Offer(b), Prompt(b)
    PROVE  Offer(b)'
<1>0. b \in Vms /\ ~Off(b) /\ UNCHANGED <<conf, consumed>> /\ pc[b].at = "prompt"
  BY VmFacts DEF Prompt, Off, moneyVars
<1>1. CASE InternalError(b)
  BY <1>0, <1>1, EndNoOffer, NoOffer
<1>2. CASE Send(b, "llm", pc[b].n)
  <2>1. PICK at, call, n : /\ at = "module" /\ call = "llm" /\ n = Left
                           /\ pc' = [pc EXCEPT ![b] = At(at, call, n)]
    BY <1>0, <1>2 DEF Send, Offer
  <2>2. b \in Vms /\ pc' = [pc EXCEPT ![b] = At(at, call, n)]
    BY <1>0, <2>1
  <2>3. pc'[b].call = call /\ pc'[b].n = n
    BY ONLY Placement, <2>2, Moved
  <2>4. Left' = Left
    BY <1>0, LeftSame
  <2> QED BY <2>1, <2>3, <2>4 DEF Offer
<1> QED BY <1>1, <1>2 DEF Prompt

LEMMA OfferBlock ==
    ASSUME Placement, Traffic, OneConnection, NEW b \in Blocks, ~Off(b), Offer(b), BlockAction(b)
    PROVE  Offer(b)'
<1>0. b \in Vms /\ b # Main /\ UNCHANGED conf
  BY VmFacts DEF BlockAction, Query, VmHears, VmEnds, get_balance, WebRequest, ExecPrompt, Prompt, ModuleReplies,
     ConsumeFuel, CountConsumption
<1>1. CASE VmError(b) \/ InternalError(b)
  BY <1>0, <1>1, EndNoOffer, NoOffer
<1>2. CASE VmHears(b) \/ Prompt(b)
  BY <1>2, OfferHears, OfferSends
<1>3. CASE Query(b) \/ ExecPrompt(b) \/ \E n \in {-1, 0} \cup Values : get_balance(b, n)
  <2>1. CASE \E method, n : AskOrFail(b, method, n) /\ method # "llm" /\ Ready(b)
    BY <1>0, <2>1, OfferAsks
  <2>2. CASE UNCHANGED <<pc, reply, consumed>>
    BY <1>0, <2>2, OfferStays, FuelHostStays
  <2>3. CASE Query(b)
    <3>1. PICK method : AskOrFail(b, method, 0) /\ method # "llm" /\ Ready(b)
      BY <2>3 DEF Query, MayCall
    <3> QED BY <2>1, <3>1
  <2>4. CASE ExecPrompt(b)
    <3>1. PICK method : AskOrFail(b, method, 0) /\ method # "llm" /\ Ready(b)
      BY <2>4 DEF ExecPrompt, MayCall
    <3> QED BY <2>1, <3>1
  <2>5. CASE \E n \in {-1, 0} \cup Values : get_balance(b, n)
    <3>1. PICK n : get_balance(b, n)
      BY <2>5
    <3>2. CASE UNCHANGED <<pc, hostVars>>
      BY <2>2, <3>1, <3>2 DEF get_balance, UseBalance, moneyVars, hostVars
    <3>3. CASE AskOrFail(b, "GetBalance", n)
      <4>1. PICK method : AskOrFail(b, method, n) /\ method # "llm" /\ Ready(b)
        BY <3>1, <3>3 DEF get_balance, MayCall
      <4> QED BY <2>1, <4>1
    <3> QED BY <3>1, <3>2, <3>3 DEF get_balance
  <2> QED BY <1>3, <2>3, <2>4, <2>5
<1>4. CASE VmEnds(b)
  <2>1. \E how : BlockEnds(b, how)
    BY <1>0, <1>4 DEF VmEnds
  <2> QED BY <1>0, <2>1, BlockEndsKeeps, LeavesNoOffer, NoOffer
<1>5. CASE WebRequest(b)
  <2>1. InternalError(b) \/ \E m : m = "web" /\ Send(b, m, 0)
    BY <1>5 DEF WebRequest
  <2>2. ASSUME NEW m, m = "web", Send(b, m, 0) PROVE ~Offering(b)'
    <3>1. PICK at, n : at = "module" /\ n = 0 /\ pc' = [pc EXCEPT ![b] = At(at, m, n)]
      BY <2>2 DEF Send
    <3>2. pc' = [pc EXCEPT ![b] = At(at, m, n)] /\ at # "prompt" /\ m \notin {"llm", "RemainingFuelAsGen"}
      BY <2>2, <3>1
    <3> QED BY ONLY Placement, b \in Blocks, <3>2, MovesNoOffer
  <2> QED BY <1>1, <2>1, <2>2, NoOffer
<1>6. CASE ModuleReplies(b) \/ ConsumeFuel(b) \/ CountConsumption(b)
  <2>1. CASE Goto(b, "ready")
    BY <2>1, GotoNoOffer, NoOffer
  <2>2. CASE ModuleReplies(b)
    <3>1. PICK n : n = Head(answer[pc[b].call]).n
      OBVIOUS
    <3>2. InternalError(b) \/ Goto(b, "ready") \/ pc' = [pc EXCEPT ![b] = At("charge", "", n)]
      BY <2>2, <3>1 DEF ModuleReplies
    <3>3. CASE pc' = [pc EXCEPT ![b] = At("charge", "", n)]
      <4>1. PICK at, call : at = "charge" /\ call = "" /\ pc' = [pc EXCEPT ![b] = At(at, call, n)]
        BY <3>3
      <4>2. pc' = [pc EXCEPT ![b] = At(at, call, n)] /\ at # "prompt" /\ call \notin {"llm", "RemainingFuelAsGen"}
        BY <4>1
      <4>3. ~Offering(b)'
        BY ONLY Placement, b \in Blocks, <4>2, MovesNoOffer
      <4> QED BY <4>3, NoOffer
    <3> QED BY <1>1, <2>1, <3>2, <3>3
  <2>3. CASE ConsumeFuel(b)
    <3>1. PICK n : n = pc[b].n
      OBVIOUS
    <3>2. VmError(b) \/ InternalError(b) \/ pc' = [pc EXCEPT ![b] = At("count", "", n)]
      BY <2>3, <3>1 DEF ConsumeFuel
    <3>3. CASE pc' = [pc EXCEPT ![b] = At("count", "", n)]
      <4>1. PICK at, call : at = "count" /\ call = "" /\ pc' = [pc EXCEPT ![b] = At(at, call, n)]
        BY <3>3
      <4>2. pc' = [pc EXCEPT ![b] = At(at, call, n)] /\ at # "prompt" /\ call \notin {"llm", "RemainingFuelAsGen"}
        BY <4>1
      <4>3. ~Offering(b)'
        BY ONLY Placement, b \in Blocks, <4>2, MovesNoOffer
      <4> QED BY <4>3, NoOffer
    <3> QED BY <1>1, <3>2, <3>3
  <2>4. CASE CountConsumption(b)
    BY <1>1, <2>1, <2>4 DEF CountConsumption
  <2> QED BY <1>6, <2>2, <2>3, <2>4
<1> QED BY <1>2, <1>3, <1>4, <1>5, <1>6 DEF BlockAction

(* A block that is off is started by nobody but the main VM.               *)
LEMMA OthersStay ==
    ASSUME Placement, NEW a \in Vms, BlockAction(a), NEW b \in Blocks, b # a
    PROVE  pc'[b] = pc[b]
<1>0. b \in Vms /\ b # Main /\ UNCHANGED conf /\ Active(a)
  <2>1. \/ pc[a].at \in {"ready", "prompt", "module", "charge", "count"}
        \/ pc[a].at = "host" /\ pc[a].call \notin {"ConsumeResult", "NotifyFinished"}
    BY DEF BlockAction, Query, VmHears, VmEnds, get_balance, WebRequest, ExecPrompt, Prompt, ModuleReplies,
       ConsumeFuel, CountConsumption, MayCall, Ready, Answered, ReadFails, Replied, NoReply
  <2>2. UNCHANGED conf
    BY DEF BlockAction, Query, VmHears, VmEnds, get_balance, WebRequest, ExecPrompt, Prompt, ModuleReplies,
       ConsumeFuel, CountConsumption
  <2> QED BY <2>1, <2>2, ReadyActive, VmFacts
<1>1. CASE Leaves(a)
  BY <1>0, <1>1 DEF Leaves
<1>2. CASE VmError(a) \/ InternalError(a)
  BY <1>0, <1>1, <1>2, EndKeeps
<1>3. CASE VmEnds(a)
  <2>1. CASE a = Main
    BY <1>2, <1>3, <2>1 DEF VmEnds, VmError
  <2>2. CASE a # Main
    <3>1. a \in Blocks /\ ~Off(a)
      BY <1>0, <2>2, VmFacts DEF Active
    <3>2. \E how : BlockEnds(a, how)
      BY <1>3, <2>2 DEF VmEnds
    <3> QED BY <1>0, <1>1, <3>1, <3>2, BlockEndsKeeps
  <2> QED BY <2>1, <2>2
<1>4. CASE pc' = pc
  BY <1>4
<1>5. CASE \E q : pc' = [pc EXCEPT ![a] = q]
  BY <1>0, <1>5 DEF Placement
<1>6. ASSUME NEW method, NEW n, AskOrFail(a, method, n) PROVE pc'[b] = pc[b]
  <2>1. InternalError(a) \/ \E q : pc' = [pc EXCEPT ![a] = q]
    BY <1>6, Zenon DEF AskOrFail, Ask
  <2> QED BY <1>2, <1>5, <2>1
<1>7. CASE Query(a) \/ ExecPrompt(a)
  BY <1>6, <1>7 DEF Query, ExecPrompt
<1>8. CASE \E n \in {-1, 0} \cup Values : get_balance(a, n)
  BY <1>4, <1>6, <1>8 DEF get_balance
<1>9. CASE VmHears(a)
  <2>1. VmError(a) \/ InternalError(a) \/ \E q : pc' = [pc EXCEPT ![a] = q]
    BY <1>9, Zenon DEF VmHears, Goto
  <2> QED BY <1>2, <1>5, <2>1
<1>10. CASE WebRequest(a) \/ Prompt(a)
  <2>1. InternalError(a) \/ \E q : pc' = [pc EXCEPT ![a] = q]
    BY <1>10, Zenon DEF WebRequest, Prompt, Send
  <2> QED BY <1>2, <1>5, <2>1
<1>11. CASE ModuleReplies(a)
  <2>1. InternalError(a) \/ \E q : pc' = [pc EXCEPT ![a] = q]
    BY <1>11, Zenon DEF ModuleReplies, Goto
  <2> QED BY <1>2, <1>5, <2>1
<1>12. CASE ConsumeFuel(a) \/ CountConsumption(a)
  <2>1. VmError(a) \/ InternalError(a) \/ \E q : pc' = [pc EXCEPT ![a] = q]
    BY <1>12, Zenon DEF ConsumeFuel, CountConsumption, Goto
  <2> QED BY <1>2, <1>5, <2>1
<1> QED BY <1>3, <1>7, <1>8, <1>9, <1>10, <1>11, <1>12 DEF BlockAction

LEMMA StartsNoOffer ==
    ASSUME Placement, conf.role = "leader", NEW b \in Blocks, Off(b), Next
    PROVE  ~Offering(b)'
<1>0. b \in Vms /\ b # Main /\ pc[b].at = "off" /\ pc[b].call = "" /\ \A c \in Blocks : fate[c] # "submitted"
  BY VmFacts DEF Off, Placement, Placed, Fits, Leads
<1>1. CASE pc'[b] = pc[b]
  BY <1>0, <1>1 DEF Offering
<1>2. CASE \E a \in Vms : BlockAction(a)
  <2>1. PICK a \in Vms : BlockAction(a)
    BY <1>2
  <2>2. pc[a].at # "off"
    BY <2>1 DEF BlockAction, Query, VmHears, VmEnds, get_balance, WebRequest, ExecPrompt, Prompt, ModuleReplies,
       ConsumeFuel, CountConsumption, MayCall, Ready, Answered, ReadFails, Replied, NoReply
  <2> QED BY <1>0, <1>1, <2>1, <2>2, OthersStay
<1>3. CASE RunStep
  <2>1. \E q : pc' = [pc EXCEPT ![Main] = q]
    <3>1. (\E at : Goto(Main, at)) \/ \E method : Ask(Main, method, 0)
      BY <1>3 DEF RunStep, Setup, AwaitNondetVms, NotifyDisagreement, ConsumeResult, NotifyFinished, Acknowledged, Abandon
    <3> QED BY <3>1, Zenon DEF Goto, Ask
  <2> QED BY <1>0, <1>1, <2>1 DEF Placement
<1>4. CASE RunNondet
  <2>1. PICK c : c = next
    OBVIOUS
  <2>2. pc' = [pc EXCEPT ![Main] = At("wait", "", 0), ![c] = At("ready", "", 0)] \/ Goto(Main, "await")
    BY <1>0, <1>4, <2>1 DEF RunNondet
  <2>3. pc'[b] = pc[b] \/ pc'[b] = At("ready", "", 0)
    BY <1>0, <2>2 DEF Goto, Placement
  <2>4. CASE pc'[b] = At("ready", "", 0)
    BY <2>4, IdleFields DEF Idle, Offering
  <2> QED BY <1>1, <2>3, <2>4
<1>5. CASE \/ (\E slot \in Slots : storage_write(slot))
           \/ (\E h \in Hosts : HostHandles(h) \/ HostCloses(h))
           \/ (\E m \in Modules : ModuleAnswers(m) \/ ModuleCloses(m))
  BY <1>1, <1>5 DEF storage_write, HostHandles, HostCloses, ModuleAnswers, ModuleCloses
<1>6. ~\E c \in Blocks : TakeBlock(c)
  BY <1>0 DEF TakeBlock
<1> QED BY <1>2, <1>3, <1>4, <1>5, <1>6, Steps, VmFacts DEF BlockAction

LEMMA OfferedStep ==
    ASSUME Placement, Traffic, FuelKnown, Offered, [Next]_vars
    PROVE  Offered'
<1>0. conf' = conf
  BY ConfStays
<1>1. (OneConnection' <=> OneConnection) /\ HostFor("ConsumeFuel")' = HostFor("ConsumeFuel")
  BY <1>0 DEF OneConnection, HostFor
<1>2. ASSUME OneConnection, NEW b \in Blocks PROVE Offer(b)'
  <2>1. CASE UNCHANGED vars
    <3>1. UNCHANGED <<conf, consumed, pc, reply>>
      BY <2>1 DEF vars
    <3> QED BY <1>2, <3>1, OfferStays, FuelHostStays DEF Offered
  <2>2. CASE Next /\ Off(b)
    BY <1>2, <2>2, StartsNoOffer, NoOffer DEF OneConnection
  <2>3. CASE Next /\ ~Off(b)
    <3>1. Offer(b) /\ conf.role = "leader"
      BY <1>2 DEF Offered, OneConnection
    <3>2. CASE BlockAction(b)
      BY <1>2, <2>3, <3>1, <3>2, OfferBlock
    <3>3. CASE \E h \in Hosts : HostHandles(h)
      BY <1>2, <2>3, <3>1, <3>3, OfferHandles
    <3>4. CASE \/ \E h \in Hosts : HostCloses(h)
               \/ \E m \in Modules : ModuleAnswers(m) \/ ModuleCloses(m)
      <4>1. UNCHANGED <<conf, consumed, pc, reply>>
        BY <3>4 DEF HostCloses, ModuleAnswers, ModuleCloses, moneyVars, hostVars
      <4> QED BY <3>1, <4>1, OfferStays, FuelHostStays
    <3> QED BY <2>3, <3>1, <3>2, <3>3, <3>4, LeaderSteps
  <2> QED BY <2>1, <2>2, <2>3
<1> QED BY <1>1, <1>2 DEF Offered

LEMMA InitFuel == ASSUME Init PROVE FuelKnown /\ Offered
<1>1. /\ \A b \in Blocks : pc[b].at = "off" /\ pc[b].call = ""
      /\ \A h \in Hosts : wire[h] = <<>>
      /\ fuel = Fuel /\ consumed = <<>> /\ Configured
  <2>1. \A b \in Blocks : pc[b] = At("off", "", 0)
    BY VmFacts DEF Init
  <2>2. \A b \in Blocks : pc[b].at = "off" /\ pc[b].call = ""
    BY <2>1, IdleFields DEF Idle
  <2> QED BY <2>2 DEF Init, Configured
<1>2. FuelHost \in Hosts
  <2>1. "ConsumeFuel" \in Names
    BY NameFacts
  <2> QED BY <1>1, <2>1, LaneTypes DEF Lanes, FuelHost
<1>3. Routed
  <2>1. PICK e : e = <<>> /\ DOMAIN e = {}
    OBVIOUS
  <2>2. \A h \in Hosts : wire[h] = e
    BY <1>1, <2>1
  <2> QED BY <2>1, <2>2 DEF Routed
<1>4. SumFunction(<<>>) = 0
  BY SumEmpty DEF SumFunction
<1>5. OnTheWay = 0
  <2>1. DOMAIN Costs(<<>>) = {}
    BY DEF Costs
  <2> QED BY <1>1, <1>2, <2>1, SumEmpty DEF OnTheWay, SumFunction
<1>6. DueAll = 0
  <2>1. PICK f : f = [c \in Blocks |-> Due(c)]
    OBVIOUS
  <2>2. \A c \in Blocks : f[c] = 0
    BY <1>1, <2>1 DEF Due
  <2>3. SumFunctionOnSet(f, Blocks) = 0
    BY ONLY <2>2, BlocksFinite, SumZero
  <2> QED BY <2>1, <2>3 DEF DueAll
<1>7. Balanced
  <2>1. PICK d \in Nat : d = 0
    OBVIOUS
  <2>2. PICK l \in Int : l = Fuel - d /\ l = Fuel
    BY <2>1, HostRunAssumption
  <2>3. fuel = Max({0, l})
    <3>1. Max({0, l}) = IF l > 0 THEN l ELSE 0
      BY <2>2, MaxIs
    <3>2. l \in Nat /\ fuel = l
      BY <1>1, <2>2, HostRunAssumption
    <3> QED BY <3>1, <3>2
  <2>4. d + OnTheWay + DueAll = SumFunction(consumed)
    <3>1. PICK o, e, t : /\ o = OnTheWay /\ e = DueAll /\ t = SumFunction(consumed)
                         /\ o = 0 /\ e = 0 /\ t = 0
      BY <1>1, <1>4, <1>5, <1>6
    <3>2. d + o + e = t
      BY <2>1, <3>1
    <3> QED BY <3>1, <3>2
  <2>5. fuel = Max({0, Fuel - d})
    BY <2>2, <2>3
  <2> QED BY <2>4, <2>5 DEF Balanced
<1>8. Offered
  BY <1>1 DEF Offered, Offer
<1> QED BY <1>3, <1>7, <1>8 DEF FuelKnown

\* A prompt of a leader whose fuel goes over one connection is offered what the earlier prompts
\* have left, though ConsumeFuel is not answered: the question for the fuel comes after it on
\* the connection, and no other block runs (host/mod.rs consume_fuel, remaining_fuel_as_gen).
THEOREM PromptsHearWhatIsLeft == Spec => []FuelIsFresh
<1>1. Init => FuelKnown /\ Offered
  BY InitFuel
<1>2. /\ Placement /\ Traffic /\ Traffic' /\ FuelKnown /\ Offered /\ [Next]_vars
      => FuelKnown' /\ Offered'
  BY FuelKnownStep, OfferedStep
<1>3. Offered => FuelIsFresh
  BY DEF Offered, OneConnection, Offer, FuelIsFresh, Left
<1> QED BY <1>1, <1>2, <1>3, PlacementHolds, TrafficHolds, PTL DEF Spec

(*----- locked slots ------------------------------------------------------*)

(* Of finitely many numbers one is the greatest.                           *)
LEMMA GreatestIs ==
    ASSUME NEW n \in Nat, n > 0, NEW s \in [1..n -> Nat]
    PROVE  \E m \in 1..n : \A i \in 1..n : s[i] <= s[m]
<1> DEFINE HasOne(k) == \E m \in 1..k : \A i \in 1..k : s[i] <= s[m]
           Wrong == {k \in 1..n : ~HasOne(k)}
<1>1. ASSUME Wrong # {} PROVE FALSE
  <2>1. PICK k \in Wrong : \A l \in Wrong : k <= l
    <3>1. Wrong \subseteq Nat
      OBVIOUS
    <3> HIDE DEF Wrong
    <3> QED BY <1>1, <3>1, LeastNat
  <2>2. k \in 1..n /\ ~HasOne(k)
    OBVIOUS
  <2>3. CASE k = 1
    <3>1. 1 \in 1..k /\ (\A i \in 1..k : s[i] <= s[1])
      BY <2>2, <2>3
    <3> QED BY <2>2, <3>1
  <2>4. CASE k > 1
    <3>1. k - 1 \in 1..n /\ ~(k <= k - 1)
      BY <2>2, <2>4
    <3>2. k - 1 \notin Wrong
      <4> HIDE DEF Wrong
      <4> QED BY <2>1, <3>1
    <3>3. HasOne(k - 1)
      BY <3>1, <3>2
    <3>4. PICK m \in 1..(k - 1) : \A i \in 1..(k - 1) : s[i] <= s[m]
      BY <3>3
    <3>5. CASE s[k] <= s[m]
      <4>1. m \in 1..k /\ \A i \in 1..k : s[i] <= s[m]
        BY <2>2, <3>4, <3>5, SMTT(60)
      <4> QED BY <2>2, <4>1
    <3>6. CASE ~(s[k] <= s[m])
      <4>1. k \in 1..k /\ \A i \in 1..k : s[i] <= s[k]
        BY <2>2, <3>4, <3>6
      <4> QED BY <2>2, <4>1
    <3> QED BY <3>5, <3>6
  <2> QED BY <2>2, <2>3, <2>4
<1>2. n \notin Wrong
  BY <1>1
<1> QED BY <1>2

(* A longer list is put in order by taking its greatest element last.      *)
LEMMA OrderLonger ==
    ASSUME NEW n \in Nat, n > 0, NEW s \in [1..n -> Nat],
           \A t \in [1..(n - 1) -> Nat] : \E p \in Bijection(1..(n - 1), 1..(n - 1)) :
             InOrder([i \in 1..(n - 1) |-> t[p[i]]])
    PROVE  \E q \in Bijection(1..n, 1..n) : InOrder([i \in 1..n |-> s[q[i]]])
<1>1. PICK m \in 1..n : \A i \in 1..n : s[i] <= s[m]
  BY GreatestIs
<1>2. PICK t : t = [i \in 1..(n - 1) |-> IF i = m THEN s[n] ELSE s[i]]
  OBVIOUS
<1>3. t \in [1..(n - 1) -> Nat]
  BY <1>2
<1>4. PICK p \in Bijection(1..(n - 1), 1..(n - 1)) : InOrder([i \in 1..(n - 1) |-> t[p[i]]])
  BY <1>3
<1>5. /\ p \in [1..(n - 1) -> 1..(n - 1)]
      /\ \A i, j \in 1..(n - 1) : p[i] = p[j] => i = j
      /\ \A y \in 1..(n - 1) : \E i \in 1..(n - 1) : p[i] = y
  BY <1>4 DEF Bijection, Injection, Surjection, IsInjective
<1>6. PICK q : q = [i \in 1..n |-> IF i = n THEN m ELSE IF p[i] = m THEN n ELSE p[i]]
  OBVIOUS
<1>7. /\ q \in [1..n -> 1..n] /\ q[n] = m
      /\ \A i \in 1..(n - 1) : i \in 1..n /\ p[i] \in 1..n /\ p[i] # n /\ q[i] = IF p[i] = m THEN n ELSE p[i]
  <2>1. n \in 1..n /\ \A i \in 1..(n - 1) : i \in 1..n /\ i # n
    OBVIOUS
  <2>2. \A i \in 1..(n - 1) : p[i] \in 1..n /\ p[i] # n
    BY <1>5, <2>1
  <2>3. q[n] = m /\ \A i \in 1..(n - 1) : q[i] = IF p[i] = m THEN n ELSE p[i]
    BY <1>6, <2>1
  <2>4. \A i \in 1..n : i = n \/ i \in 1..(n - 1)
    OBVIOUS
  <2>5. \A i \in 1..n : q[i] \in 1..n
    BY ONLY <2>1, <2>2, <2>3, <2>4, m \in 1..n
  <2> QED BY <1>6, <2>1, <2>2, <2>3, <2>5
<1>8. \A i, j \in 1..n : q[i] = q[j] => i = j
  <2> TAKE i, j \in 1..n
  <2>0. \A k \in 1..n : k = n \/ k \in 1..(n - 1)
    OBVIOUS
  <2>1. CASE i = n \/ j = n
    <3>1. \A k \in 1..(n - 1) : q[k] # m
      BY ONLY <1>7
    <3> QED BY ONLY <1>7, <2>0, <2>1, <3>1, i \in 1..n, j \in 1..n
  <2>2. CASE i # n /\ j # n
    <3>1. i \in 1..(n - 1) /\ j \in 1..(n - 1)
      BY <2>2
    <3> QED BY ONLY <1>5, <1>7, <3>1
  <2> QED BY <2>1, <2>2
<1>9. \A y \in 1..n : \E i \in 1..n : q[i] = y
  <2> TAKE y \in 1..n
  <2>1. CASE y = m
    BY <1>7, <2>1
  <2>2. CASE y # m /\ y = n
    <3>1. m \in 1..(n - 1)
      BY <2>2
    <3>2. PICK i \in 1..(n - 1) : p[i] = m
      BY <1>5, <3>1
    <3>3. i \in 1..n /\ q[i] = n
      BY ONLY <1>7, <3>2
    <3> QED BY <2>2, <3>3
  <2>3. CASE y # m /\ y # n
    <3>1. y \in 1..(n - 1)
      BY <2>3
    <3>2. PICK i \in 1..(n - 1) : p[i] = y
      BY <1>5, <3>1
    <3>3. i \in 1..n /\ q[i] = y
      BY ONLY <1>7, <2>3, <3>2
    <3> QED BY <3>3
  <2> QED BY <2>1, <2>2, <2>3
<1>10. q \in Bijection(1..n, 1..n)
  BY <1>7, <1>8, <1>9 DEF Bijection, Injection, Surjection, IsInjective
<1>11. \A i \in 1..(n - 1) : s[q[i]] = t[p[i]]
  BY <1>2, <1>5, <1>7
<1>12. \A i, j \in 1..(n - 1) : i < j => t[p[i]] <= t[p[j]]
  BY <1>4 DEF InOrder
<1>13. \A i, j \in 1..n : i < j => s[q[i]] <= s[q[j]]
  <2> TAKE i, j \in 1..n
  <2> HAVE i < j
  <2>1. i \in 1..(n - 1)
    OBVIOUS
  <2>2. CASE j = n
    BY <1>1, <1>7, <2>2
  <2>3. CASE j # n
    BY <1>11, <1>12, <2>1, <2>3
  <2> QED BY <2>2, <2>3
<1> QED BY <1>10, <1>13 DEF InOrder

LEMMA OrderExists ==
    \A n \in Nat : \A s \in [1..n -> Nat] :
      \E p \in Bijection(1..n, 1..n) : InOrder([i \in 1..n |-> s[p[i]]])
<1> DEFINE Sortable(n) == \A s \in [1..n -> Nat] :
             \E p \in Bijection(1..n, 1..n) : InOrder([i \in 1..n |-> s[p[i]]])
           Wrong == {n \in Nat : ~Sortable(n)}
<1>1. ASSUME Wrong # {} PROVE FALSE
  <2>1. PICK n \in Wrong : \A l \in Wrong : n <= l
    <3>1. Wrong \subseteq Nat
      OBVIOUS
    <3> HIDE DEF Wrong
    <3> QED BY <1>1, <3>1, LeastNat
  <2>2. n \in Nat /\ ~Sortable(n)
    OBVIOUS
  <2>3. CASE n = 0
    <3>1. ASSUME NEW s \in [1..n -> Nat]
          PROVE  \E p \in Bijection(1..n, 1..n) : InOrder([i \in 1..n |-> s[p[i]]])
      <4>1. PICK p : p = [i \in 1..n |-> i]
        OBVIOUS
      <4>2. 1..n = {}
        BY <2>3
      <4>3. p \in Bijection(1..n, 1..n)
        BY <4>1, <4>2 DEF Bijection, Injection, Surjection, IsInjective
      <4>4. InOrder([i \in 1..n |-> s[p[i]]])
        BY <4>2 DEF InOrder
      <4> QED BY <4>3, <4>4
    <3> QED BY <2>2, <3>1
  <2>4. CASE n > 0
    <3>1. Sortable(n - 1)
      <4>1. n - 1 \in Nat /\ ~(n <= n - 1)
        BY <2>2, <2>4
      <4>2. n - 1 \notin Wrong
        <5> HIDE DEF Wrong
        <5> QED BY <2>1, <4>1
      <4> QED BY <4>1, <4>2
    <3>2. Sortable(n)
      BY <2>2, <2>4, <3>1, OrderLonger
    <3> QED BY <2>2, <3>2
  <2> QED BY <2>2, <2>3, <2>4
<1> QED BY <1>1

(* What create_supervisor keeps: the slots of the list, in order.          *)
LEMMA LockedInOrder ==
    ASSUME NEW list \in Seq(Nat)
    PROVE  LET slots == get_locked_slots(list)
           IN  slots \in Seq(Nat) /\ InOrder(slots) /\ Range(slots) = Range(list)
<1>1. PICK n \in Nat : n = Len(list) /\ DOMAIN list = 1..n /\ list \in [1..n -> Nat]
  OBVIOUS
<1>2. PICK p \in Bijection(1..n, 1..n) : InOrder([i \in 1..n |-> list[p[i]]])
  BY <1>1, OrderExists
<1>3. \E slots \in Rearranged(list) : InOrder(slots)
  BY <1>1, <1>2 DEF Rearranged
<1>4. PICK slots : slots = get_locked_slots(list)
  OBVIOUS
<1>5. slots \in Rearranged(list) /\ InOrder(slots)
  BY <1>3, <1>4 DEF get_locked_slots
<1>6. PICK q \in Bijection(1..n, 1..n) : slots = [i \in 1..n |-> list[q[i]]]
  BY <1>1, <1>5 DEF Rearranged
<1>7. q \in [1..n -> 1..n] /\ \A y \in 1..n : \E i \in 1..n : q[i] = y
  BY <1>6 DEF Bijection, Injection, Surjection
<1>8. DOMAIN slots = 1..n /\ slots \in Seq(Nat)
  <2>1. DOMAIN slots = 1..n /\ slots \in [1..n -> Nat]
    BY <1>1, <1>6, <1>7
  <2> QED BY ONLY <2>1, n \in Nat
<1>9. Range(slots) = Range(list)
  BY <1>1, <1>6, <1>7, <1>8 DEF Range
<1> QED BY <1>4, <1>5, <1>8, <1>9

(* search is what the binary search finds between two bounds.              *)
Finds(search, slots, slot, r) ==
  LET mid == (r[1] + r[2]) \div 2
  IN  /\ r[1] < r[2]
      /\ \/ slots[mid + 1] = slot
         \/ slots[mid + 1] < slot /\ search[<<mid + 1, r[2]>>]
         \/ slots[mid + 1] > slot /\ search[<<r[1], mid>>]
Searches(search, slots, slot) ==
  search = [r \in (0..Len(slots)) \X (0..Len(slots)) |-> Finds(search, slots, slot, r)]

(* contains is the answer of such a search, if there is one.               *)
LEMMA ContainsSearches ==
    ASSUME NEW slots, NEW slot, \E f : Searches(f, slots, slot)
    PROVE  \E f : Searches(f, slots, slot) /\ contains(slots, slot) = f[<<0, Len(slots)>>]
<1>1. PICK f : f = CHOOSE g : Searches(g, slots, slot)
  OBVIOUS
<1>2. Searches(f, slots, slot)
  BY <1>1
<1>3. contains(slots, slot) = f[<<0, Len(slots)>>]
  BY <1>1, Zenon DEF contains, Searches, Finds
<1> QED BY <1>2, <1>3

LEMMA SearchValue ==
    ASSUME NEW slots \in Seq(Nat), NEW slot, NEW f, Searches(f, slots, slot), NEW lo \in 0..Len(slots), NEW hi \in 0..Len(slots)
    PROVE  f[<<lo, hi>>] = Finds(f, slots, slot, <<lo, hi>>)
BY DEF Searches

LEMMA Halves ==
    ASSUME NEW n \in Nat, NEW lo \in 0..n, NEW hi \in 0..n, lo < hi
    PROVE  \E mid \in Nat : mid = (lo + hi) \div 2 /\ lo <= mid /\ mid < hi
BY Z3

(* One more width between the bounds.                                      *)
Upto(d, f, slots, slot) ==
  /\ f = [r \in (0..Len(slots)) \X (0..Len(slots)) |-> f[r]]
  /\ \A lo, hi \in 0..Len(slots) : hi - lo < d => f[<<lo, hi>>] = Finds(f, slots, slot, <<lo, hi>>)

LEMMA SearchWider ==
    ASSUME NEW slots \in Seq(Nat), NEW slot, NEW d \in Nat, NEW f, Upto(d, f, slots, slot)
    PROVE  \E g : Upto(d + 1, g, slots, slot)
<1>1. PICK n \in Nat : n = Len(slots)
  OBVIOUS
<1>2. PICK g : g = [r \in (0..n) \X (0..n) |-> IF r[2] - r[1] < d THEN f[r] ELSE Finds(f, slots, slot, r)]
  OBVIOUS
<1>3. \A lo, hi \in 0..n : /\ hi - lo < d => g[<<lo, hi>>] = f[<<lo, hi>>]
                           /\ ~(hi - lo < d) => g[<<lo, hi>>] = Finds(f, slots, slot, <<lo, hi>>)
  BY <1>2
<1>4. ASSUME NEW lo \in 0..n, NEW hi \in 0..n, hi - lo < d + 1
      PROVE  g[<<lo, hi>>] = Finds(g, slots, slot, <<lo, hi>>)
  <2>1. g[<<lo, hi>>] = Finds(f, slots, slot, <<lo, hi>>)
    BY <1>1, <1>3 DEF Upto
  <2>2. CASE lo < hi
    <3>1. PICK mid \in Nat : mid = (lo + hi) \div 2 /\ lo <= mid /\ mid < hi
      BY <2>2, Halves
    <3>2. /\ mid + 1 \in 0..n /\ hi - (mid + 1) < d
          /\ mid \in 0..n /\ mid - lo < d
      BY <1>4, <3>1
    <3>3. g[<<mid + 1, hi>>] = f[<<mid + 1, hi>>] /\ g[<<lo, mid>>] = f[<<lo, mid>>]
      BY <1>3, <3>2
    <3>4. Finds(f, slots, slot, <<lo, hi>>) = Finds(g, slots, slot, <<lo, hi>>)
      BY <3>1, <3>3 DEF Finds
    <3> QED BY <2>1, <3>4
  <2>3. CASE ~(lo < hi)
    <3>1. Finds(f, slots, slot, <<lo, hi>>) = FALSE /\ Finds(g, slots, slot, <<lo, hi>>) = FALSE
      BY <2>3 DEF Finds
    <3> QED BY <2>1, <3>1
  <2> QED BY <2>2, <2>3
<1>5. g = [r \in (0..n) \X (0..n) |-> g[r]]
  BY <1>2
<1> QED BY <1>1, <1>4, <1>5 DEF Upto

LEMMA SearchExists ==
    ASSUME NEW slots \in Seq(Nat), NEW slot
    PROVE  \E f : Searches(f, slots, slot)
<1> DEFINE Wrong == {d \in Nat : ~\E f : Upto(d, f, slots, slot)}
<1>1. ASSUME Wrong # {} PROVE FALSE
  <2>1. PICK d \in Wrong : \A l \in Wrong : d <= l
    <3>1. Wrong \subseteq Nat
      OBVIOUS
    <3> HIDE DEF Wrong
    <3> QED BY <1>1, <3>1, LeastNat
  <2>2. d \in Nat /\ ~\E f : Upto(d, f, slots, slot)
    OBVIOUS
  <2>3. CASE d = 0
    <3>1. PICK f : f = [r \in (0..Len(slots)) \X (0..Len(slots)) |-> FALSE]
      OBVIOUS
    <3>2. \A lo, hi \in 0..Len(slots) : f[<<lo, hi>>] = FALSE /\ (hi - lo < 0 => ~(lo < hi))
      BY <3>1
    <3>3. \A lo, hi \in 0..Len(slots) : ~(lo < hi) => Finds(f, slots, slot, <<lo, hi>>) = FALSE
      BY DEF Finds
    <3>4. f = [r \in (0..Len(slots)) \X (0..Len(slots)) |-> f[r]]
      BY <3>1
    <3>5. Upto(d, f, slots, slot)
      BY <2>3, <3>2, <3>3, <3>4 DEF Upto
    <3> QED BY <2>2, <3>5
  <2>4. CASE d > 0
    <3>1. d - 1 \in Nat /\ ~(d <= d - 1)
      BY <2>2, <2>4
    <3>2. d - 1 \notin Wrong
      <4> HIDE DEF Wrong
      <4> QED BY <2>1, <3>1
    <3>3. PICK f : Upto(d - 1, f, slots, slot)
      BY <3>1, <3>2
    <3>4. PICK g : Upto((d - 1) + 1, g, slots, slot)
      BY <3>1, <3>3, SearchWider
    <3>5. (d - 1) + 1 = d
      BY <2>2
    <3> QED BY <2>2, <3>4, <3>5
  <2> QED BY <2>2, <2>3, <2>4
<1>2. PICK n \in Nat : n = Len(slots)
  OBVIOUS
<1>3. PICK f : Upto(n + 1, f, slots, slot)
  <2>1. n + 1 \in Nat /\ Wrong = {}
    BY <1>1
  <2>2. \A d \in Nat : d \notin Wrong => \E f : Upto(d, f, slots, slot)
    OBVIOUS
  <2> HIDE DEF Wrong
  <2> QED BY <2>1, <2>2
<1>4. \A lo, hi \in 0..n : f[<<lo, hi>>] = Finds(f, slots, slot, <<lo, hi>>)
  <2>1. \A lo, hi \in 0..n : hi - lo < n + 1
    BY ONLY n \in Nat
  <2>2. \A lo, hi \in 0..n : hi - lo < n + 1 => f[<<lo, hi>>] = Finds(f, slots, slot, <<lo, hi>>)
    BY <1>2, <1>3 DEF Upto
  <2> QED BY ONLY <2>1, <2>2
<1>5. \A r \in (0..n) \X (0..n) : f[r] = Finds(f, slots, slot, r)
  BY <1>4
<1>6. f = [r \in (0..n) \X (0..n) |-> f[r]]
  BY <1>2, <1>3 DEF Upto
<1>7. f = [r \in (0..n) \X (0..n) |-> Finds(f, slots, slot, r)]
  BY <1>5, <1>6, Zenon
<1> QED BY <1>2, <1>7 DEF Searches

(* In a list in order a slot is found wherever it is.                      *)
LEMMA SearchFinds ==
    ASSUME NEW slots \in Seq(Nat), InOrder(slots), NEW k \in 1..Len(slots), NEW f, Searches(f, slots, slots[k])
    PROVE  \A lo, hi \in 0..Len(slots) : lo < k /\ k <= hi => f[<<lo, hi>>] = TRUE
<1>1. PICK n \in Nat : n = Len(slots)
  OBVIOUS
<1> DEFINE Wrong == {d \in Nat : \E lo, hi \in 0..n : hi - lo = d /\ lo < k /\ k <= hi /\ f[<<lo, hi>>] # TRUE}
<1>2. ASSUME Wrong # {} PROVE FALSE
  <2>1. PICK d \in Wrong : \A l \in Wrong : d <= l
    <3>1. Wrong \subseteq Nat
      OBVIOUS
    <3> HIDE DEF Wrong
    <3> QED BY <1>2, <3>1, LeastNat
  <2>2. PICK lo \in 0..n, hi \in 0..n : hi - lo = d /\ lo < k /\ k <= hi /\ f[<<lo, hi>>] # TRUE
    OBVIOUS
  <2>3. \A l, h \in 0..n : l < k /\ k <= h /\ h - l < hi - lo => f[<<l, h>>] = TRUE
    <3> SUFFICES ASSUME NEW l \in 0..n, NEW h \in 0..n, l < k, k <= h, h - l < hi - lo, f[<<l, h>>] # TRUE
                 PROVE  FALSE
      OBVIOUS
    <3>1. h - l \in Nat /\ ~(d <= h - l)
      BY <1>1, <2>2
    <3>2. h - l \in Wrong
      BY <3>1
    <3> HIDE DEF Wrong
    <3> QED BY <2>1, <3>1, <3>2
  <2>4. lo < hi
    BY <1>1, <2>2
  <2>5. PICK mid \in Nat : mid = (lo + hi) \div 2 /\ lo <= mid /\ mid < hi
    BY <2>4, Halves
  <2>6. mid + 1 \in 1..n /\ mid \in 0..n /\ mid + 1 \in 0..n
    BY <2>5
  <2>7. slots[mid + 1] \in Nat /\ slots[k] \in Nat
    BY <1>1, <2>6
  <2>8. f[<<lo, hi>>] = Finds(f, slots, slots[k], <<lo, hi>>)
    BY <1>1, SearchValue
  <2>9. /\ mid + 1 <= k => slots[mid + 1] <= slots[k]
        /\ k <= mid + 1 => slots[k] <= slots[mid + 1]
    <3>1. DOMAIN slots = 1..n
      BY <1>1
    <3>2. \A i, j \in 1..n : i < j => slots[i] <= slots[j]
      BY <3>1 DEF InOrder
    <3> QED BY <1>1, <2>6, <2>7, <3>2
  <2>10. CASE slots[mid + 1] = slots[k]
    BY <2>2, <2>4, <2>5, <2>8, <2>10 DEF Finds
  <2>11. CASE slots[mid + 1] < slots[k]
    <3>1. mid + 1 < k
      BY <1>1, <2>6, <2>7, <2>9, <2>11
    <3>2. f[<<mid + 1, hi>>] = TRUE
      <4>1. hi - (mid + 1) < hi - lo
        BY <2>5
      <4> QED BY <2>2, <2>3, <2>6, <3>1, <4>1
    <3> QED BY <2>2, <2>4, <2>5, <2>8, <2>11, <3>2 DEF Finds
  <2>12. CASE slots[mid + 1] > slots[k]
    <3>1. k <= mid
      BY <1>1, <2>6, <2>7, <2>9, <2>12
    <3>2. f[<<lo, mid>>] = TRUE
      <4>1. mid - lo < hi - lo
        BY <2>5
      <4> QED BY <2>2, <2>3, <2>6, <3>1, <4>1
    <3> QED BY <2>2, <2>4, <2>5, <2>8, <2>12, <3>2 DEF Finds
  <2> QED BY <2>7, <2>10, <2>11, <2>12
<1>3. Wrong = {}
  BY <1>2
<1>4. ASSUME NEW lo \in 0..n, NEW hi \in 0..n, lo < k, k <= hi PROVE f[<<lo, hi>>] = TRUE
  <2>1. hi - lo \in Nat
    BY <1>1, <1>4
  <2>2. hi - lo \notin Wrong
    <3> HIDE DEF Wrong
    <3> QED BY <1>3
  <2> QED BY <1>4, <2>1, <2>2
<1> QED BY <1>1, <1>4

LEMMA ContainsWhatItHas ==
    ASSUME NEW slots \in Seq(Nat), InOrder(slots), NEW slot \in Range(slots)
    PROVE  contains(slots, slot)
<1>1. PICK k \in 1..Len(slots) : slot = slots[k]
  BY DEF Range
<1>2. \E f : Searches(f, slots, slot)
  BY <1>1, SearchExists
<1>3. PICK f : Searches(f, slots, slot) /\ contains(slots, slot) = f[<<0, Len(slots)>>]
  BY <1>2, ContainsSearches
<1>4. 0 \in 0..Len(slots) /\ Len(slots) \in 0..Len(slots) /\ 0 < k /\ k <= Len(slots)
  BY <1>1
<1>5. f[<<0, Len(slots)>>] = TRUE
  BY <1>1, <1>3, <1>4, SearchFinds
<1> QED BY <1>3, <1>5

\* While VMs run, what is locked is what the contract's storage says, in order.
Guarded == Working => locked = get_locked_slots_for_sender

(* Nothing but storage_write touches what is written, and nothing but      *)
(* Setup what is locked.                                                   *)
LEMMA LockedStays ==
    ASSUME Placement, [Next]_vars, ~Setup
    PROVE  /\ locked' = locked /\ conf' = conf
           /\ written' = written \/ \E slot \in Slots : storage_write(slot)
<1>1. CASE UNCHANGED vars
  BY <1>1 DEF vars, slotVars
<1>2. CASE \E slot \in Slots : storage_write(slot)
  BY <1>2 DEF storage_write
<1>3. CASE VmAction /\ ~\E slot \in Slots : storage_write(slot)
  BY <1>3 DEF VmAction, Query, VmHears, VmEnds, get_balance, RunNondet, WebRequest, ExecPrompt, Prompt,
     ModuleReplies, ConsumeFuel, CountConsumption, TakeBlock, slotVars
<1>4. CASE RunStep
  BY <1>4 DEF RunStep, AwaitNondetVms, NotifyDisagreement, ConsumeResult, NotifyFinished, Acknowledged, slotVars
<1>5. CASE \/ \E h \in Hosts : HostHandles(h) \/ HostCloses(h)
           \/ \E m \in Modules : ModuleAnswers(m) \/ ModuleCloses(m)
  BY <1>5 DEF HostHandles, HostCloses, ModuleAnswers, ModuleCloses, slotVars
<1> QED BY <1>1, <1>2, <1>3, <1>4, <1>5, Actions

(* VMs only begin to run in Setup.                                         *)
LEMMA WorkBegins ==
    ASSUME Placement, [Next]_vars, ~Setup, Working'
    PROVE  Working
<1>1. CASE ~RunStep
  <2>1. Works
    BY <1>1, StepWorks
  <2>2. CASE UNCHANGED pc
    BY <2>2 DEF Working, Decided, Reporting
  <2> QED BY <2>1, <2>2 DEF Works
<1>2. CASE AwaitNondetVms
  <2>1. pc[Main].at = "await" /\ pc[Main].call = ""
    BY <1>2, VmFacts DEF AwaitNondetVms, Placement, Placed, Fits
  <2> QED BY <2>1 DEF Working, Decided, Reporting
<1>3. CASE NotifyDisagreement \/ ConsumeResult \/ NotifyFinished \/ Acknowledged
  <2>1. CASE \E at \in {"report", "finish", "exit"} : Goto(Main, at)
    BY <2>1, MainAt DEF Working, Decided, Reporting
  <2>2. CASE \E method \in {"ConsumeResult", "NotifyFinished"} : Ask(Main, method, 0)
    <3>1. PICK method \in {"ConsumeResult", "NotifyFinished"} : Ask(Main, method, 0)
      BY <2>2
    <3>2. pc' = [pc EXCEPT ![Main] = At("host", method, 0)]
      BY <3>1 DEF Ask
    <3>3. pc'[Main].call = method
      <4>1. pc'[Main] = At("host", method, 0)
        BY <3>2, VmFacts DEF Placement
      <4> QED BY <4>1, AtFields
    <3> QED BY <3>3 DEF Working, Decided, Reporting
  <2> QED BY <1>3, <2>1, <2>2 DEF NotifyDisagreement, ConsumeResult, NotifyFinished, Acknowledged, Abandon
<1> QED BY <1>1, <1>2, <1>3 DEF RunStep

LEMMA GuardedStep ==
    ASSUME Placement, Configured, Guarded, LockedSlotsKept, [Next]_vars
    PROVE  Guarded' /\ LockedSlotsKept'
<1>1. CASE Setup
  <2>1. conf' = conf /\ written' = written
    BY <1>1 DEF Setup
  <2>2. LockedSlotsKept'
    BY <2>1 DEF LockedSlotsKept
  <2>3. CASE locked' = get_locked_slots_for_sender
    BY <2>1, <2>2, <2>3 DEF Guarded, get_locked_slots_for_sender
  <2>4. CASE Goto(Main, "report") \/ Goto(Main, "exit")
    <3>1. pc'[Main].at \in {"report", "exit"}
      BY <2>4, MainAt
    <3> QED BY <2>2, <3>1 DEF Guarded, Working, Decided, Reporting
  <2> QED BY <1>1, <2>3, <2>4 DEF Setup
<1>2. CASE ~Setup
  <2>1. locked' = locked /\ conf' = conf
    BY <1>2, LockedStays
  <2>2. Guarded'
    BY <1>2, <2>1, WorkBegins DEF Guarded, get_locked_slots_for_sender
  <2>3. CASE written' = written
    BY <2>1, <2>2, <2>3 DEF LockedSlotsKept
  <2>4. CASE written' # written
    <3>1. PICK slot \in Slots : storage_write(slot)
      BY <1>2, <2>4, LockedStays
    <3>2. ~contains(locked, slot) /\ written' = written \cup {slot}
      BY <3>1 DEF storage_write
    <3>3. Working
      BY <3>1, VmActionWorks DEF VmAction
    <3>4. ASSUME ~conf.upgrader PROVE slot \notin Range(conf.locked_slots)
      <4>1. locked = get_locked_slots(conf.locked_slots)
        BY <3>3, <3>4 DEF Guarded, get_locked_slots_for_sender
      <4>2. conf.locked_slots \in Seq(Nat)
        BY HostRunAssumption DEF Configured
      <4>3. locked \in Seq(Nat) /\ InOrder(locked) /\ Range(locked) = Range(conf.locked_slots)
        BY <4>1, <4>2, LockedInOrder
      <4> QED BY <3>2, <4>3, ContainsWhatItHas
    <3> QED BY <2>1, <2>2, <3>2, <3>4 DEF LockedSlotsKept
  <2> QED BY <2>3, <2>4
<1> QED BY <1>1, <1>2

LEMMA InitGuarded == ASSUME Init PROVE Guarded /\ LockedSlotsKept
<1>1. Idle(pc[Main], "setup") /\ written = {}
  BY VmFacts, IdleFields DEF Init
<1> QED BY <1>1 DEF Idle, Guarded, Working, LockedSlotsKept

(* Only a transaction of an upgrader writes a slot that the contract has   *)
(* locked: the search of LockedSlotsSet::contains misses no slot, in       *)
(* whatever order the contract's storage has them.                         *)
THEOREM LockedSlotsAreKept == Spec => []LockedSlotsKept
<1>1. Placement /\ Traffic /\ Guarded /\ LockedSlotsKept /\ [Next]_vars => Guarded' /\ LockedSlotsKept'
  BY GuardedStep DEF Traffic, HostTraffic
<1>2. Init => Guarded /\ LockedSlotsKept
  BY InitGuarded
<1> QED BY <1>1, <1>2, PlacementHolds, TrafficHolds, PTL DEF Spec

=============================================================================
