------------------------- MODULE NondetQueueProofs -------------------------
(***************************************************************************)
(* Proofs about NondetQueue, for every number of calls, every capacity and *)
(* every leader transcript.                                                *)
(***************************************************************************)
EXTENDS NondetQueue, FiniteSetTheorems, TLAPS

-----------------------------------------------------------------------------
(* The inductive invariant.  TypeOK alone is not inductive: that the       *)
(* counter stays a natural number is the counting argument itself.         *)

HoldingTask == {"check", "run", "publish", "drop"}
Unsettled == {"check", "run", "publish"}
Recorded == {"disagreed", "marked"}

(* A processor holds a task exactly in the states of an iteration, and the *)
(* deterministic thread holds one exactly while it sends.                  *)
HoldersOK ==
    /\ \A p \in Processors : task[p] # NoCall <=> proc[p] \in HoldingTask
    /\ sending # NoCall <=> det = "send"
    /\ proc["main"] # "idle"
    /\ proc["secondary"] # "idle" => det \in {"wait", "done"}

(* A call has at most one holder. *)
Exclusive ==
    /\ \A i, j \in 1 .. Len(queue) : i # j => queue[i] # queue[j]
    /\ \A i \in 1 .. Len(queue) : queue[i] # sending
    /\ \A p \in Processors : task[p] # NoCall => task[p] \notin Queued \cup {sending}
    /\ \A p, q \in Processors : p # q /\ task[p] # NoCall => task[p] # task[q]

(* Where the calls of each fate are. *)
FatesOK ==
    /\ det \in {"run", "send", "charge"} => callNo <= NondetBlocks
    /\ \A c \in Calls : c >= callNo => fate[c] = "unused"
    /\ \A c \in Tokens : c < callNo
    /\ \A c \in Queued \cup {sending} : c # NoCall => fate[c] = "submitted"
    /\ \A p \in Processors : proc[p] \in Unsettled => fate[task[p]] = "submitted"
    /\ \A c \in Calls : fate[c] = "submitted" =>
          \/ c \in Queued \cup {sending}
          \/ \E p \in Processors : task[p] = c /\ proc[p] \in Unsettled

(* The countdown: it ends, and stores its permit, only with no token left. *)
CountdownOK ==
    /\ CounterMatchesTokens
    /\ permit => counter = 0
    /\ closed <=> det \in {"decrement", "inspect", "wait", "done"}
    /\ \A p \in Processors : proc[p] = "exited" => closed /\ queue = <<>>

(* What the two result cells say of the fates. *)
CellsOK ==
    /\ disagree = U32Max => \A c \in Calls : fate[c] \notin Recorded \cup {"skipped"}
    /\ disagree # U32Max => disagree \in Calls /\ fate[disagree] \in Recorded
    /\ \A c \in Calls : fate[c] \in Recorded => disagree <= c
    /\ failed # NoCall => fate[failed] = "failed"
    /\ det # "done" /\ failed = NoCall => \A c \in Calls : fate[c] # "failed"

VerdictOK ==
    /\ verdict.kind = "pending" <=> det # "done"
    /\ det = "done" => ReadPermits = {} /\ queue = <<>>
    /\ VerdictIsSound

IInv == TypeOK /\ HoldersOK /\ Exclusive /\ FatesOK /\ CountdownOK /\ CellsOK /\ VerdictOK

-----------------------------------------------------------------------------
LEMMA QueuedAppend ==
    ASSUME NEW q \in Seq(Calls), NEW c \in Calls
    PROVE  LET r == Append(q, c)
           IN  /\ r \in Seq(Calls) /\ Len(r) = Len(q) + 1
               /\ {r[i] : i \in 1 .. Len(r)} = {q[i] : i \in 1 .. Len(q)} \cup {c}
               /\ \A i \in 1 .. Len(q) : r[i] = q[i]
               /\ r[Len(q) + 1] = c
<1>1. Len(q) \in Nat
  OBVIOUS
<1>2. Append(q, c) \in Seq(Calls) /\ Len(Append(q, c)) = Len(q) + 1
  OBVIOUS
<1>3. \A i \in 1 .. Len(q) : Append(q, c)[i] = q[i]
  OBVIOUS
<1>4. Append(q, c)[Len(q) + 1] = c
  OBVIOUS
<1>5. 1 .. Len(q) + 1 = (1 .. Len(q)) \cup {Len(q) + 1}
  BY <1>1
<1>6. QED
  BY <1>1, <1>2, <1>3, <1>4, <1>5

LEMMA QueuedTail ==
    ASSUME NEW q \in Seq(Calls), q # <<>>,
           \A i, j \in 1 .. Len(q) : i # j => q[i] # q[j]
    PROVE  LET r == Tail(q)
           IN  /\ r \in Seq(Calls) /\ Len(r) = Len(q) - 1
               /\ {r[i] : i \in 1 .. Len(r)} = {q[i] : i \in 1 .. Len(q)} \ {Head(q)}
               /\ \A i \in 1 .. Len(r) : r[i] = q[i + 1]
               /\ Head(q) \in Calls /\ Head(q) = q[1] /\ 1 \in 1 .. Len(q)
<1>1. Len(q) \in Nat /\ Len(q) > 0
  OBVIOUS
<1>2. Tail(q) \in Seq(Calls) /\ Len(Tail(q)) = Len(q) - 1
  BY <1>1
<1>3. \A i \in 1 .. Len(q) - 1 : Tail(q)[i] = q[i + 1]
  BY <1>1
<1>4. Head(q) = q[1] /\ 1 \in 1 .. Len(q) /\ q[1] \in Calls
  BY <1>1
<1>5. ASSUME NEW x
      PROVE  x \in {Tail(q)[i] : i \in 1 .. Len(q) - 1}
               <=> x \in {q[i] : i \in 1 .. Len(q)} \ {Head(q)}
  <2>1. ASSUME NEW i \in 1 .. Len(q) - 1, x = Tail(q)[i]
        PROVE  x \in {q[k] : k \in 1 .. Len(q)} \ {Head(q)}
    BY <2>1, <1>1, <1>3, <1>4
  <2>2. ASSUME NEW k \in 1 .. Len(q), x = q[k], x # Head(q)
        PROVE  x \in {Tail(q)[i] : i \in 1 .. Len(q) - 1}
    <3>1. k # 1 /\ k - 1 \in 1 .. Len(q) - 1
      BY <2>2, <1>1, <1>4
    <3>2. Tail(q)[k - 1] = q[k]
      BY <3>1, <1>1, <1>3
    <3>3. QED
      BY <2>2, <3>1, <3>2
  <2>3. QED
    BY <2>1, <2>2
<1>6. QED
  BY <1>1, <1>2, <1>3, <1>4, <1>5

-----------------------------------------------------------------------------
LEMMA TokensFinite ==
    ASSUME TypeOK
    PROVE  /\ Tokens \subseteq Calls
           /\ IsFiniteSet(Tokens)
           /\ Cardinality(Tokens) \in Nat
           /\ Cardinality(Tokens) = 0 => Tokens = {}
<1>1. Tokens \subseteq Calls
  BY DEF TypeOK, Tokens, Queued, Held
<1>2. IsFiniteSet(Calls)
  BY FS_Interval, ConstantsAssumption DEF Calls
<1>3. IsFiniteSet(Tokens)
  BY <1>1, <1>2, FS_Subset
<1>4. QED
  BY <1>1, <1>3, FS_CardinalityType, FS_EmptySet

LEMMA InitIInv == Init => IInv
<1> SUFFICES ASSUME Init PROVE IInv
  OBVIOUS
<1> USE ConstantsAssumption DEF Init
<1>1. Queued = {}
  BY DEF Queued
<1>2. Held = {NoCall}
  BY DEF Held, Processors
<1>3. Tokens = {}
  BY <1>1, <1>2 DEF Tokens
<1>4. TypeOK
  <2>1. leaderResults \in UNION {[1 .. n -> LeaderKinds] : n \in 0 .. NondetBlocks}
    OBVIOUS
  <2>2. nondetResults \in Seq({"value", "vm_error", "empty"}) /\ queue \in Seq(Calls)
    OBVIOUS
  <2>3. Len(queue) <= Capacity /\ callNo \in 0 .. NondetBlocks + 1
    OBVIOUS
  <2>4. proc \in [Processors ->
          {"idle", "select", "parked", "check", "run", "publish", "drop", "exited"}]
    BY DEF Processors
  <2>5. fate \in [Calls -> {"unused", "marked", "submitted", "skipped",
                           "agreed", "disagreed", "failed"}]
    OBVIOUS
  <2>6. verdict \in [kind : {"pending", "error", "agreed", "disagreed"},
                    call : Calls \cup {NoCall}]
    BY DEF Pending
  <2>7. QED
    BY <2>1, <2>2, <2>3, <2>4, <2>5, <2>6 DEF TypeOK, Outcomes
<1>5. HoldersOK /\ Exclusive
  BY <1>1 DEF HoldersOK, Exclusive, HoldingTask, Processors, NoCall
<1>6. FatesOK
  BY <1>1, <1>3 DEF FatesOK, Unsettled, Processors, Calls
<1>7. CountdownOK
  BY <1>3, FS_EmptySet DEF CountdownOK, CounterMatchesTokens, OwnToken, Processors
<1>8. CellsOK /\ VerdictOK
  BY DEF CellsOK, VerdictOK, VerdictIsSound, Recorded, Pending, NoCall, Calls
<1>9. QED
  BY <1>4, <1>5, <1>6, <1>7, <1>8 DEF IInv

-----------------------------------------------------------------------------
(* Steps of the deterministic thread.  Those that move no task share the   *)
(* facts about the set of live tokens.                                     *)

LEMMA TakesCallNo ==
    ASSUME IInv, TakeCallNo, UNCHANGED <<waitVars, sending>>, nondetResults' \in Seq({"value", "vm_error", "empty"}),
           det' \in {"charge", "close"}, det' = "charge" => callNo < NondetBlocks,
           \/ UNCHANGED <<disagree, fate>>
           \/ /\ callNo \in Calls
              /\ disagree' = Lower(disagree, callNo)
              /\ fate' = [fate EXCEPT ![callNo] = "marked"]
    PROVE  IInv'
<1> USE ConstantsAssumption DEF TakeCallNo, waitVars, procVars
<1>a. Tokens' = Tokens /\ Queued' = Queued
  BY DEF Tokens, Queued, Held
<1>b. callNo \in 0 .. NondetBlocks /\ det = "run"
  BY DEF IInv, TypeOK, FatesOK
<1>1. TypeOK'
  <2>1. disagree' \in Calls \cup {U32Max}
    BY DEF IInv, TypeOK, Lower, Calls
  <2>2. fate' \in [Calls -> {"unused", "marked", "submitted", "skipped",
                            "agreed", "disagreed", "failed"}]
    BY DEF IInv, TypeOK
  <2>3. QED
    BY <1>b, <2>1, <2>2 DEF IInv, TypeOK
<1>2. HoldersOK'
  BY <1>b DEF IInv, HoldersOK
<1>3. Exclusive'
  BY <1>a DEF IInv, Exclusive
<1>4. FatesOK'
  <2>1. \A c \in Calls : c # callNo => fate'[c] = fate[c]
    BY DEF IInv, TypeOK
  <2>2. \A c \in Tokens : c \in Calls /\ c < callNo /\ fate'[c] = fate[c]
    BY <1>b, <2>1, TokensFinite DEF IInv, FatesOK, Calls
  <2>3. \A c \in Queued \cup {sending} : c # NoCall => c \in Tokens
    BY DEF Tokens
  <2>4. \A p \in Processors : proc[p] \in Unsettled => task[p] \in Tokens
    BY DEF IInv, HoldersOK, Tokens, Held, Unsettled, HoldingTask
  <2>5. \A c \in Calls : fate'[c] = "submitted" => fate[c] = "submitted"
    BY DEF IInv, TypeOK
  <2>6. \A c \in Calls : c >= callNo + 1 => fate'[c] = "unused"
    BY <1>b, <2>1 DEF IInv, FatesOK, Calls
  <2>7. det' \in {"run", "send", "charge"} => callNo' <= NondetBlocks
    BY <1>b
  <2>8. \A c \in Tokens' : c < callNo'
    BY <1>a, <1>b, <2>2 DEF Calls
  <2>9. \A c \in (Queued \cup {sending})' : c # NoCall => fate'[c] = "submitted"
    BY <1>a, <2>2, <2>3 DEF IInv, FatesOK
  <2>10. \A p \in Processors : proc'[p] \in Unsettled => fate'[task'[p]] = "submitted"
    BY <2>2, <2>4 DEF IInv, FatesOK
  <2>11. \A c \in Calls : fate'[c] = "submitted" =>
           \/ c \in (Queued \cup {sending})'
           \/ \E p \in Processors : task'[p] = c /\ proc'[p] \in Unsettled
    BY <1>a, <2>5 DEF IInv, FatesOK
  <2>12. QED
    BY <2>6, <2>7, <2>8, <2>9, <2>10, <2>11 DEF FatesOK
<1>5. CountdownOK'
  BY <1>a DEF IInv, CountdownOK, CounterMatchesTokens, OwnToken
<1>6. CellsOK'
  <2>1. CASE UNCHANGED <<disagree, fate>>
    BY <1>b, <2>1 DEF IInv, CellsOK
  <2>2. CASE /\ callNo \in Calls
             /\ disagree' = Lower(disagree, callNo)
             /\ fate' = [fate EXCEPT ![callNo] = "marked"]
    <3>1. fate'[callNo] = "marked" /\ \A c \in Calls : c # callNo => fate'[c] = fate[c]
      BY <2>2 DEF IInv, TypeOK
    <3>2. fate[callNo] = "unused" /\ callNo \in Nat
      BY <1>b, <2>2 DEF IInv, FatesOK
    <3>3. disagree \in Calls \cup {U32Max} /\ failed \in Calls \cup {NoCall}
      BY DEF IInv, TypeOK
    <3>4. /\ disagree' \in Calls /\ disagree' # U32Max /\ disagree' <= callNo
          /\ disagree' = callNo \/ (disagree' = disagree /\ disagree # U32Max)
          /\ disagree # U32Max => disagree' <= disagree
      BY <2>2, <3>3 DEF Lower, Calls
    <3>5. fate'[disagree'] \in Recorded
      BY <3>1, <3>4 DEF IInv, CellsOK, Recorded
    <3>6. \A c \in Calls : fate'[c] \in Recorded => disagree' <= c
      <4> TAKE c \in Calls
      <4> HAVE fate'[c] \in Recorded
      <4>1. CASE c = callNo
        BY <3>4, <4>1
      <4>2. CASE c # callNo
        <5>1. fate[c] \in Recorded
          BY <3>1, <4>2
        <5>2. disagree # U32Max /\ disagree <= c
          BY <5>1 DEF IInv, CellsOK
        <5> QED BY <3>3, <3>4, <5>2 DEF Calls
      <4> QED BY <4>1, <4>2
    <3>7. failed # NoCall => fate'[failed] = "failed"
      BY <3>1, <3>2, <3>3 DEF IInv, CellsOK
    <3>8. failed = NoCall => \A c \in Calls : fate'[c] # "failed"
      BY <1>b, <3>1 DEF IInv, CellsOK
    <3>9. failed' = failed
      OBVIOUS
    <3> QED BY <3>4, <3>5, <3>6, <3>7, <3>8, <3>9, Zenon DEF CellsOK
  <2> QED BY <2>1, <2>2
<1>7. VerdictOK'
  BY DEF IInv, VerdictOK, VerdictIsSound
<1>8. QED
  BY <1>1, <1>2, <1>3, <1>4, <1>5, <1>6, <1>7 DEF IInv

LEMMA RejectedPreserves == ASSUME IInv, RunNondetRejected PROVE IInv'
<1>1. TakeCallNo /\ UNCHANGED <<nondetResults, sending, waitVars, disagree, fate>> /\ det' = "close"
  BY DEF RunNondetRejected, Trap
<1>2. nondetResults' \in Seq({"value", "vm_error", "empty"})
  BY <1>1 DEF IInv, TypeOK
<1>3. QED
  BY <1>1, <1>2, TakesCallNo

LEMMA EmptyPreserves == ASSUME IInv, RunNondetEmpty PROVE IInv'
<1>1. TakeCallNo /\ UNCHANGED <<nondetResults, sending, waitVars>> /\ det' = "close"
  BY DEF RunNondetEmpty, Trap
<1>2. nondetResults' \in Seq({"value", "vm_error", "empty"})
  BY <1>1 DEF IInv, TypeOK
<1>3. \/ UNCHANGED <<disagree, fate>>
      \/ /\ callNo \in Calls
         /\ disagree' = Lower(disagree, callNo)
         /\ fate' = [fate EXCEPT ![callNo] = "marked"]
  BY ConstantsAssumption DEF IInv, TypeOK, RunNondetEmpty, Calls
<1>4. QED
  BY <1>1, <1>2, <1>3, TakesCallNo

LEMMA LeaderPreserves == ASSUME IInv, RunNondetLeader PROVE IInv'
<1>1. /\ TakeCallNo /\ UNCHANGED <<sending, waitVars, disagree, fate>>
      /\ det' \in {"charge", "close"} /\ callNo < NondetBlocks
  BY DEF RunNondetLeader, Trap
<1>2. nondetResults' \in Seq({"value", "vm_error", "empty"})
  <2>1. CASE UNCHANGED nondetResults
    BY <2>1 DEF IInv, TypeOK
  <2>2. CASE \E r \in {"value", "vm_error"} : nondetResults' =
               [Padded(nondetResults, callNo + 1) EXCEPT ![callNo + 1] = r]
    <3>1. PICK r \in {"value", "vm_error"} : nondetResults' =
               [Padded(nondetResults, callNo + 1) EXCEPT ![callNo + 1] = r]
      BY <2>2
    <3>2. callNo + 1 \in Nat /\ callNo + 1 \in 1 .. callNo + 1
      BY ConstantsAssumption DEF IInv, TypeOK
    <3>3. \A i \in 1 .. Len(nondetResults) : nondetResults[i] \in {"value", "vm_error", "empty"}
      BY DEF IInv, TypeOK
    <3>4. Len(nondetResults) \in Nat
      BY DEF IInv, TypeOK
    <3>5. Padded(nondetResults, callNo + 1) \in [1 .. callNo + 1 -> {"value", "vm_error", "empty"}]
      BY <3>2, <3>3, <3>4 DEF Padded
    <3>6. nondetResults' \in [1 .. callNo + 1 -> {"value", "vm_error", "empty"}]
      BY <3>1, <3>2, <3>5
    <3>7. QED
      BY <3>2, <3>6
  <2>3. QED
    BY <2>1, <2>2 DEF RunNondetLeader
<1>3. QED
  BY <1>1, <1>2, TakesCallNo

LEMMA SyncPreserves == ASSUME IInv, RunNondetSync PROVE IInv'
<1>1. /\ TakeCallNo /\ UNCHANGED <<nondetResults, sending, waitVars, disagree, fate>>
      /\ det' \in {"charge", "close"} /\ callNo < NondetBlocks
  BY DEF RunNondetSync
<1>2. nondetResults' \in Seq({"value", "vm_error", "empty"})
  BY <1>1 DEF IInv, TypeOK
<1>3. QED
  BY <1>1, <1>2, TakesCallNo

LEMMA SubmitPreserves == ASSUME IInv, RunNondetSubmit PROVE IInv'
<1> USE ConstantsAssumption DEF TakeCallNo, procVars, RunNondetSubmit
<1>1. callNo \in Calls /\ det = "run" /\ sending = NoCall
  BY DEF IInv, TypeOK, HoldersOK, Calls
<1>2. callNo \notin Tokens
  BY <1>1, TokensFinite DEF IInv, FatesOK, Calls
<1>3. Queued' = Queued /\ Held' = Held /\ callNo # NoCall
  BY <1>1 DEF Queued, Held, NoCall, Calls
<1>4. Tokens' = Tokens \cup {callNo}
  BY <1>1, <1>3 DEF Tokens
<1>5. \A c \in Queued \cup Held : c # NoCall => c \in Tokens
  BY DEF Tokens
<1>6. TypeOK'
  BY <1>1 DEF IInv, TypeOK, Increment, Calls
<1>7. HoldersOK'
  BY <1>1, <1>3 DEF IInv, HoldersOK
<1>8. Exclusive'
  <2>1. \A i \in 1 .. Len(queue) : queue[i] \in Queued /\ queue[i] # NoCall
    BY DEF Queued, IInv, TypeOK, NoCall, Calls
  <2>2. \A i \in 1 .. Len(queue) : queue[i] # callNo
    BY <1>2, <1>5, <2>1
  <2>3. \A p \in Processors : task[p] # callNo
    BY <1>2, <1>3, <1>5 DEF Held
  <2>4. QED
    BY <1>3, <2>2, <2>3 DEF IInv, Exclusive
<1>9. FatesOK'
  <2>1. \A c \in Calls : c # callNo => fate'[c] = fate[c]
    BY DEF IInv, TypeOK
  <2>2. fate'[callNo] = "submitted"
    BY <1>1 DEF IInv, TypeOK
  <2>3. \A c \in Tokens : c \in Calls /\ c < callNo /\ fate'[c] = fate[c]
    BY <1>1, <2>1, TokensFinite DEF IInv, FatesOK, Calls
  <2>4. \A p \in Processors : proc[p] \in Unsettled => task[p] \in Tokens
    BY DEF IInv, HoldersOK, Tokens, Held, Unsettled, HoldingTask
  <2>5. \A c \in Tokens' : c < callNo'
    BY <1>1, <1>4, <2>3 DEF Calls
  <2>6. \A c \in Calls : c >= callNo' => fate'[c] = "unused"
    BY <1>1, <2>1 DEF IInv, FatesOK, Calls
  <2>7. \A c \in (Queued \cup {sending})' : c # NoCall => fate'[c] = "submitted"
    BY <1>3, <1>5, <2>2, <2>3 DEF IInv, FatesOK
  <2>8. \A p \in Processors : proc'[p] \in Unsettled => fate'[task'[p]] = "submitted"
    BY <2>3, <2>4 DEF IInv, FatesOK
  <2>9. \A c \in Calls : fate'[c] = "submitted" =>
          \/ c \in (Queued \cup {sending})'
          \/ \E p \in Processors : task'[p] = c /\ proc'[p] \in Unsettled
    BY <1>1, <1>3, <2>1 DEF IInv, FatesOK, NoCall, Calls
  <2>10. callNo' <= NondetBlocks
    BY <1>1 DEF Calls
  <2>11. QED
    BY <2>5, <2>6, <2>7, <2>8, <2>9, <2>10 DEF FatesOK
<1>10. CountdownOK'
  <2>1. Cardinality(Tokens') = Cardinality(Tokens) + 1
    BY <1>2, <1>4, TokensFinite, FS_AddElement DEF IInv
  <2>a. /\ OwnToken = 1 /\ OwnToken' = 1 /\ counter' = counter + 1
        /\ counter = Cardinality(Tokens) + OwnToken /\ Cardinality(Tokens) \in Nat
    BY <1>1, TokensFinite DEF IInv, CountdownOK, CounterMatchesTokens, OwnToken, Increment
  <2>2. CounterMatchesTokens' /\ counter # 0 /\ counter' # 0
    BY <2>a, <2>1 DEF CounterMatchesTokens
  <2>3. QED
    BY <1>1, <2>2 DEF IInv, CountdownOK, Increment
<1>11. CellsOK'
  BY <1>1 DEF IInv, TypeOK, FatesOK, CellsOK, Calls, Recorded
<1>12. VerdictOK'
  BY <1>1 DEF IInv, VerdictOK, VerdictIsSound
<1>13. QED
  BY <1>6, <1>7, <1>8, <1>9, <1>10, <1>11, <1>12 DEF IInv

LEMMA SendPreserves == ASSUME IInv, SendTask PROVE IInv'
<1> USE ConstantsAssumption DEF SendTask, detVars, waitVars, procVars
<1>1. sending \in Calls /\ det = "send" /\ det' \in {"charge", "close"} /\ sending' = NoCall
  BY DEF IInv, TypeOK, HoldersOK
<1>2. /\ queue' \in Seq(Calls) /\ Len(queue') = Len(queue) + 1 /\ Len(queue) \in Nat
      /\ \A i \in 1 .. Len(queue) : queue'[i] = queue[i]
      /\ queue'[Len(queue) + 1] = sending
  BY <1>1, QueuedAppend DEF IInv, TypeOK
<1>3. Queued' = Queued \cup {sending}
  BY <1>1, QueuedAppend DEF IInv, TypeOK, Queued
<1>4. Tokens' = Tokens
  BY <1>1, <1>3 DEF Tokens, Held
<1>5. TypeOK'
  BY <1>1, <1>2 DEF IInv, TypeOK
<1>6. HoldersOK'
  BY <1>1 DEF IInv, HoldersOK
<1>7. Exclusive'
  <2>1. \A i, j \in 1 .. Len(queue') : i # j => queue'[i] # queue'[j]
    BY <1>2 DEF IInv, Exclusive
  <2>2. \A i \in 1 .. Len(queue') : queue'[i] # sending'
    BY <1>1, <1>2 DEF NoCall, Calls
  <2>3. QED
    BY <1>1, <1>3, <2>1, <2>2 DEF IInv, Exclusive
<1>8. FatesOK'
  BY <1>1, <1>3, <1>4 DEF IInv, FatesOK
<1>9. CountdownOK'
  BY <1>1, <1>4 DEF IInv, CountdownOK, CounterMatchesTokens, OwnToken
<1>10. CellsOK' /\ VerdictOK'
  BY <1>1 DEF IInv, CellsOK, VerdictOK, VerdictIsSound
<1>11. QED
  BY <1>5, <1>6, <1>7, <1>8, <1>9, <1>10 DEF IInv

(* Steps of the deterministic thread that move no task and no cell.        *)
LEMMA MovesDetPreserves ==
    ASSUME IInv,
           UNCHANGED <<detVars, sending, queue, waitVars, task, outcome,
                       disagree, failed, fate, verdict>>,
           \/ det \in {"run", "charge"} /\ det' \in {"run", "close"} /\ UNCHANGED <<closed, proc>>
           \/ det = "close" /\ det' = "decrement" /\ closed' = TRUE /\ UNCHANGED proc
           \/ /\ det = "inspect" /\ det' = "wait" /\ UNCHANGED closed
              /\ proc' = IF queue # <<>> THEN [proc EXCEPT !["secondary"] = "select"] ELSE proc
    PROVE  IInv'
<1> USE ConstantsAssumption DEF detVars, waitVars
<1>1. Queued' = Queued /\ Tokens' = Tokens
  BY DEF Queued, Tokens, Held
<1>2. /\ proc' \in [Processors -> {"idle", "select", "parked", "check", "run",
                                   "publish", "drop", "exited"}]
      /\ \A p \in Processors : proc'[p] \in HoldingTask <=> proc[p] \in HoldingTask
      /\ \A p \in Processors : proc'[p] \in Unsettled <=> proc[p] \in Unsettled
      /\ proc'["main"] = proc["main"]
      /\ \A p \in Processors : proc'[p] = "exited" => proc[p] = "exited"
  BY DEF IInv, TypeOK, HoldersOK, Processors, HoldingTask, Unsettled
<1>3. TypeOK'
  <2>1. /\ det' \in {"run", "send", "charge", "close", "decrement", "inspect", "wait", "done"}
        /\ closed' \in BOOLEAN
    BY DEF IInv, TypeOK
  <2> QED BY <1>2, <2>1 DEF IInv, TypeOK
<1>4. HoldersOK'
  BY <1>2 DEF IInv, TypeOK, HoldersOK, Processors
<1>5. Exclusive'
  BY <1>1 DEF IInv, Exclusive
<1>6. FatesOK'
  <2>1. det' \in {"run", "send", "charge"} => callNo' <= NondetBlocks
    BY DEF IInv, FatesOK
  <2>2. QED
    BY <1>1, <1>2, <2>1 DEF IInv, FatesOK
<1>7. CountdownOK'
  BY <1>1, <1>2 DEF IInv, TypeOK, CountdownOK, CounterMatchesTokens, OwnToken
<1>8. CellsOK' /\ VerdictOK'
  BY DEF IInv, CellsOK, VerdictOK, VerdictIsSound
<1>9. QED
  BY <1>3, <1>4, <1>5, <1>6, <1>7, <1>8 DEF IInv

LEMMA AwaitDecrementPreserves == ASSUME IInv, AwaitDecrement PROVE IInv'
<1> USE ConstantsAssumption DEF AwaitDecrement, detVars, procVars
<1>1. Queued' = Queued /\ Tokens' = Tokens
  BY DEF Queued, Tokens, Held
<1>2. /\ counter = Cardinality(Tokens) + 1 /\ Cardinality(Tokens) \in Nat
      /\ counter' = Cardinality(Tokens)
  BY TokensFinite DEF IInv, CountdownOK, CounterMatchesTokens, OwnToken, Decrement
<1>3. TypeOK'
  BY <1>2 DEF IInv, TypeOK, Decrement
<1>4. HoldersOK' /\ Exclusive' /\ FatesOK'
  BY <1>1 DEF IInv, HoldersOK, Exclusive, FatesOK
<1>5. CountdownOK'
  <2>1. CounterMatchesTokens'
    BY <1>1, <1>2 DEF CounterMatchesTokens, OwnToken
  <2>2. permit' => counter' = 0
    <3>1. counter # 0
      BY <1>2
    <3>2. ~permit
      BY <3>1 DEF IInv, CountdownOK
    <3>3. permit' => counter = 1
      BY <3>2, Zenon DEF Decrement
    <3>4. counter = 1 => counter' = 0
      BY DEF Decrement
    <3>5. QED
      BY <3>3, <3>4
  <2>3. QED
    BY <2>1, <2>2 DEF IInv, CountdownOK
<1>6. CellsOK' /\ VerdictOK'
  BY DEF IInv, CellsOK, VerdictOK, VerdictIsSound
<1>7. QED
  BY <1>3, <1>4, <1>5, <1>6 DEF IInv

LEMMA AwaitVerdictPreserves == ASSUME IInv, AwaitVerdict PROVE IInv'
<1> USE ConstantsAssumption DEF AwaitVerdict, detVars, waitVars, procVars
<1>1. Queued' = Queued /\ Tokens' = Tokens
  BY DEF Queued, Tokens, Held
<1>2. proc["main"] = "exited" /\ queue = <<>> /\ sending = NoCall
  BY DEF IInv, HoldersOK, CountdownOK, ReadPermits, Processors
<1>3. \A p \in Processors : proc[p] \notin Unsettled
  BY DEF ReadPermits, Unsettled
<1>4. \A c \in Calls : fate[c] # "submitted"
  BY <1>2, <1>3 DEF IInv, FatesOK, Queued, NoCall, Calls
<1>5. TypeOK'
  BY DEF IInv, TypeOK, Verdict
<1>6. HoldersOK' /\ Exclusive' /\ FatesOK'
  BY <1>1 DEF IInv, HoldersOK, Exclusive, FatesOK
<1>7. CountdownOK'
  BY <1>1 DEF IInv, CountdownOK, CounterMatchesTokens, OwnToken
<1>8. CellsOK'
  BY DEF IInv, CellsOK
<1>9. VerdictOK'
  <2>1. verdict'.kind # "pending" /\ det' = "done" /\ (ReadPermits = {})' /\ queue' = <<>>
    BY <1>2 DEF Verdict, ReadPermits
  <2>2. CASE failed # NoCall
    BY <1>4, <2>1, <2>2 DEF IInv, CellsOK, TypeOK, VerdictOK, VerdictIsSound, Verdict
  <2>3. CASE failed = NoCall /\ disagree = U32Max
    <3>1. \A c \in Calls : fate[c] \in {"unused", "agreed"}
      BY <1>4, <2>3 DEF IInv, CellsOK, TypeOK, Recorded
    <3>2. QED
      BY <1>4, <2>1, <2>3, <3>1 DEF VerdictOK, VerdictIsSound, Verdict
  <2>4. CASE failed = NoCall /\ disagree # U32Max
    <3>1. /\ disagree \in Calls /\ fate[disagree] \in Recorded
          /\ \A c \in Calls : fate[c] \in Recorded => disagree <= c
          /\ \A c \in Calls : fate[c] # "failed"
      BY <2>4 DEF IInv, CellsOK
    <3>2. QED
      BY <1>4, <2>1, <2>4, <3>1 DEF VerdictOK, VerdictIsSound, Verdict, Recorded
  <2>5. QED
    BY <2>2, <2>3, <2>4
<1>10. QED
  BY <1>5, <1>6, <1>7, <1>8, <1>9 DEF IInv

-----------------------------------------------------------------------------
(* Steps of a processor.                                                   *)

(* Those that move no task and no cell: parking, leaving, running a block. *)
LEMMA MovesProcPreserves ==
    ASSUME IInv, NEW p \in Processors, NEW s,
           UNCHANGED <<detVars, det, sending, queue, closed, counter, task,
                       disagree, failed, fate, verdict>>,
           Enter(p, s), permit' \in BOOLEAN, permit' => permit,
           outcome' \in [Processors -> Outcomes],
           \/ proc[p] = "select" /\ s = "parked"
           \/ proc[p] = "run" /\ s = "publish"
           \/ proc[p] \in {"select", "parked"} /\ s = "exited" /\ closed /\ queue = <<>>
    PROVE  IInv'
<1> USE ConstantsAssumption DEF detVars
<1>1. Queued' = Queued /\ Tokens' = Tokens
  BY DEF Queued, Tokens, Held
<1>2. /\ proc' = [proc EXCEPT ![p] = s]
      /\ proc' \in [Processors -> {"idle", "select", "parked", "check", "run",
                                   "publish", "drop", "exited"}]
      /\ \A q \in Processors : proc'[q] \in HoldingTask <=> proc[q] \in HoldingTask
      /\ \A q \in Processors : proc'[q] \in Unsettled <=> proc[q] \in Unsettled
      /\ \A q \in Processors : proc'[q] = "idle" <=> proc[q] = "idle"
      /\ \A q \in Processors : proc'[q] = "exited" => proc[q] = "exited" \/ (closed /\ queue = <<>>)
  <2>1. proc' = [proc EXCEPT ![p] = s] /\ s \in {"parked", "publish", "exited"}
    BY DEF Enter
  <2>2. proc'[p] = s /\ \A q \in Processors : q # p => proc'[q] = proc[q]
    BY <2>1 DEF IInv, TypeOK
  <2>3. proc' \in [Processors -> {"idle", "select", "parked", "check", "run",
                                 "publish", "drop", "exited"}]
    BY <2>1 DEF IInv, TypeOK
  <2>4. /\ s \in HoldingTask <=> proc[p] \in HoldingTask
        /\ s \in Unsettled <=> proc[p] \in Unsettled
        /\ s # "idle" /\ proc[p] # "idle"
        /\ s = "exited" => closed /\ queue = <<>>
    BY DEF HoldingTask, Unsettled
  <2>5. QED
    BY <2>1, <2>2, <2>3, <2>4
<1>3. det # "done"
  BY DEF IInv, VerdictOK, ReadPermits
<1>4. TypeOK'
  BY <1>2 DEF IInv, TypeOK
<1>5. HoldersOK'
  BY <1>2 DEF IInv, HoldersOK, Processors
<1>6. Exclusive' /\ FatesOK'
  BY <1>1, <1>2 DEF IInv, Exclusive, FatesOK
<1>7. CountdownOK'
  BY <1>1, <1>2 DEF IInv, CountdownOK, CounterMatchesTokens, OwnToken
<1>8. CellsOK' /\ VerdictOK'
  BY <1>3 DEF IInv, CellsOK, VerdictOK, VerdictIsSound
<1>9. QED
  BY <1>4, <1>5, <1>6, <1>7, <1>8 DEF IInv

(* With the countdown over there is no token left, so nothing is queued    *)
(* and the deterministic thread has closed the channel.                    *)
LEMMA ZeroMeansDrained == ASSUME IInv, counter = 0 PROVE closed /\ queue = <<>>
<1>1. Cardinality(Tokens) = 0 /\ OwnToken = 0
  BY TokensFinite DEF IInv, CountdownOK, CounterMatchesTokens, OwnToken
<1>2. Tokens = {}
  BY <1>1, TokensFinite DEF IInv
<1>3. queue = <<>>
  <2>1. SUFFICES ASSUME queue # <<>> PROVE FALSE
    OBVIOUS
  <2>2. 1 \in 1 .. Len(queue) /\ queue[1] \in Calls
    BY <2>1 DEF IInv, TypeOK
  <2>3. queue[1] \in Tokens
    BY <2>2, ConstantsAssumption DEF Tokens, Queued, Calls, NoCall
  <2>4. QED
    BY <1>2, <2>3
<1>4. QED
  BY <1>1, <1>3 DEF IInv, TypeOK, CountdownOK, OwnToken

LEMMA ReceivesPreserves ==
    ASSUME IInv, NEW p \in Processors, ProcessorReceives(p) PROVE IInv'
<1> USE ConstantsAssumption DEF ProcessorReceives, detVars, waitVars
<1> DEFINE c == Head(queue)
<1>1. /\ queue' \in Seq(Calls) /\ Len(queue') = Len(queue) - 1 /\ Len(queue) \in Nat
      /\ \A i \in 1 .. Len(queue') : queue'[i] = queue[i + 1]
      /\ c \in Calls /\ c = queue[1] /\ 1 \in 1 .. Len(queue)
  BY QueuedTail DEF IInv, TypeOK, Exclusive
<1>2. Queued' = Queued \ {c} /\ c \in Queued /\ c # NoCall
  <2>1. queue' = Tail(queue) /\ queue \in Seq(Calls) /\ queue # <<>>
    BY DEF IInv, TypeOK
  <2>a. \A i, j \in 1 .. Len(queue) : i # j => queue[i] # queue[j]
    BY DEF IInv, Exclusive
  <2>b. {Tail(queue)[i] : i \in 1 .. Len(Tail(queue))} = {queue[i] : i \in 1 .. Len(queue)} \ {c}
    BY <2>1, <2>a, QueuedTail
  <2>2. {queue'[i] : i \in 1 .. Len(queue')} = {queue[i] : i \in 1 .. Len(queue)} \ {c}
    BY <2>1, <2>b
  <2>3. c \in Queued
    BY <1>1 DEF Queued
  <2>4. c # NoCall
    BY <1>1 DEF Calls, NoCall
  <2>5. QED
    BY <2>2, <2>3, <2>4 DEF Queued
<1>3. task[p] = NoCall
  BY DEF IInv, HoldersOK, HoldingTask
<1>4. /\ task' = [task EXCEPT ![p] = c] /\ task' \in [Processors -> Calls \cup {NoCall}]
      /\ task'[p] = c /\ \A q \in Processors : q # p => task'[q] = task[q]
  BY <1>1 DEF IInv, TypeOK
<1>5. /\ proc' = [proc EXCEPT ![p] = "check"] /\ proc'[p] = "check"
      /\ \A q \in Processors : q # p => proc'[q] = proc[q]
      /\ proc' \in [Processors -> {"idle", "select", "parked", "check", "run",
                                   "publish", "drop", "exited"}]
  BY DEF Enter, IInv, TypeOK
<1>6. Tokens' = Tokens
  <2>1. Held' \ {NoCall} = (Held \cup {c}) \ {NoCall}
    BY <1>2, <1>3, <1>4 DEF Held
  <2>2. QED
    BY <1>2, <2>1 DEF Tokens
<1>7. det # "done"
  BY DEF IInv, VerdictOK, ReadPermits
<1>8. TypeOK'
  BY <1>1, <1>4, <1>5 DEF IInv, TypeOK
<1>9. HoldersOK'
  BY <1>2, <1>4, <1>5 DEF IInv, HoldersOK, HoldingTask, Processors
<1>10. Exclusive'
  <2>1. \A i, j \in 1 .. Len(queue') : i # j => queue'[i] # queue'[j]
    BY <1>1 DEF IInv, Exclusive
  <2>2. \A i \in 1 .. Len(queue') : queue'[i] # sending'
    BY <1>1 DEF IInv, Exclusive
  <2>3. c # sending
    BY <1>1 DEF IInv, Exclusive
  <2>4. \A q \in Processors : task'[q] # NoCall => task'[q] \notin (Queued \cup {sending})'
    BY <1>2, <1>4, <2>3 DEF IInv, Exclusive
  <2>5. \A q \in Processors : q # p /\ task[q] # NoCall => task[q] # c
    BY <1>2 DEF IInv, Exclusive
  <2>6. \A q, r \in Processors : q # r /\ task'[q] # NoCall => task'[q] # task'[r]
    BY <1>2, <1>4, <2>5 DEF IInv, Exclusive
  <2>7. QED
    BY <2>1, <2>2, <2>4, <2>6 DEF Exclusive
<1>11. FatesOK'
  <2>1. fate[c] = "submitted"
    BY <1>2 DEF IInv, FatesOK
  <2>2. \A q \in Processors : proc'[q] \in Unsettled => fate'[task'[q]] = "submitted"
    BY <1>4, <1>5, <2>1 DEF IInv, FatesOK
  <2>3. ASSUME NEW d \in Calls, fate'[d] = "submitted"
        PROVE  \/ d \in (Queued \cup {sending})'
               \/ \E q \in Processors : task'[q] = d /\ proc'[q] \in Unsettled
    <3>1. CASE d = c
      BY <3>1, <1>4, <1>5 DEF Unsettled
    <3>2. CASE d # c /\ d \in Queued \cup {sending}
      BY <3>2, <1>2
    <3>3. CASE \E q \in Processors : task[q] = d /\ proc[q] \in Unsettled
      BY <3>3, <1>4, <1>5 DEF Unsettled
    <3>4. QED
      BY <2>3, <3>1, <3>2, <3>3 DEF IInv, FatesOK
  <2>4. QED
    BY <1>2, <1>6, <2>2, <2>3 DEF IInv, FatesOK
<1>12. CountdownOK'
  BY <1>5, <1>6 DEF IInv, CountdownOK, CounterMatchesTokens, OwnToken
<1>13. CellsOK' /\ VerdictOK'
  BY <1>7 DEF IInv, CellsOK, VerdictOK, VerdictIsSound
<1>14. QED
  BY <1>8, <1>9, <1>10, <1>11, <1>12, <1>13 DEF IInv

(* Settling a task: it is skipped, or its outcome is published; the token  *)
(* stays with the processor until the end of the iteration.                *)
LEMMA SettlesPreserves ==
    ASSUME IInv, NEW p \in Processors, proc[p] \in Unsettled, Enter(p, "drop"),
           UNCHANGED <<detVars, det, sending, queue, closed, waitVars, task, outcome, verdict>>,
           NEW f \in {"skipped", "agreed", "disagreed", "failed"},
           fate' = [fate EXCEPT ![task[p]] = f],
           disagree' = IF f = "disagreed" THEN Lower(disagree, task[p]) ELSE disagree,
           failed' = IF f = "failed" THEN task[p] ELSE failed,
           f = "skipped" => disagree # U32Max
    PROVE  IInv'
<1> USE ConstantsAssumption DEF detVars, waitVars
<1> DEFINE c == task[p]
<1>1. c \in Calls /\ c # NoCall /\ fate[c] = "submitted"
  <2>1. c # NoCall
    BY DEF IInv, HoldersOK, Unsettled, HoldingTask
  <2>2. QED
    BY <2>1 DEF IInv, TypeOK, FatesOK
<1>2. Queued' = Queued /\ Tokens' = Tokens
  BY DEF Queued, Tokens, Held
<1>3. /\ proc' = [proc EXCEPT ![p] = "drop"] /\ proc'[p] = "drop" /\ proc[p] \in HoldingTask
      /\ \A q \in Processors : q # p => proc'[q] = proc[q]
      /\ proc' \in [Processors -> {"idle", "select", "parked", "check", "run",
                                   "publish", "drop", "exited"}]
  BY DEF Enter, IInv, TypeOK, Unsettled, HoldingTask
<1>4. /\ fate'[c] = f /\ \A d \in Calls : d # c => fate'[d] = fate[d]
      /\ fate' \in [Calls -> {"unused", "marked", "submitted", "skipped",
                              "agreed", "disagreed", "failed"}]
  BY <1>1 DEF IInv, TypeOK
<1>5. det # "done"
  BY DEF IInv, VerdictOK, ReadPermits, Unsettled
<1>6. TypeOK'
  <2>1. disagree' \in Calls \cup {U32Max} /\ failed' \in Calls \cup {NoCall}
    BY <1>1 DEF IInv, TypeOK, Lower
  <2>2. QED
    BY <1>3, <1>4, <2>1 DEF IInv, TypeOK
<1>7. HoldersOK'
  BY <1>3 DEF IInv, HoldersOK, HoldingTask, Processors
<1>8. Exclusive'
  BY <1>2 DEF IInv, Exclusive
<1>9. FatesOK'
  <2>1. c \notin Queued \cup {sending}
    BY <1>1 DEF IInv, Exclusive
  <2>2. \A q \in Processors : q # p => task[q] # c
    BY <1>1 DEF IInv, Exclusive
  <2>3. Queued \cup {sending} \subseteq Calls \cup {NoCall}
    BY DEF IInv, TypeOK, Queued
  <2>4. \A d \in (Queued \cup {sending})' : d # NoCall => fate'[d] = "submitted"
    BY <1>2, <1>4, <2>1, <2>3 DEF IInv, FatesOK
  <2>5. \A q \in Processors : proc'[q] \in Unsettled => fate'[task'[q]] = "submitted"
    <3>1. ASSUME NEW q \in Processors, proc'[q] \in Unsettled
          PROVE  fate'[task[q]] = "submitted"
      <4>1. q # p /\ proc[q] \in Unsettled
        BY <3>1, <1>3 DEF Unsettled
      <4>2. task[q] \in Calls /\ task[q] # c
        BY <4>1, <2>2 DEF IInv, TypeOK, HoldersOK, Unsettled, HoldingTask
      <4>3. QED
        BY <4>1, <4>2, <1>4 DEF IInv, FatesOK
    <3>2. QED
      BY <3>1
  <2>6. ASSUME NEW d \in Calls, fate'[d] = "submitted"
        PROVE  \/ d \in (Queued \cup {sending})'
               \/ \E q \in Processors : task'[q] = d /\ proc'[q] \in Unsettled
    <3>1. d # c /\ fate[d] = "submitted"
      BY <2>6, <1>4
    <3>2. CASE d \in Queued \cup {sending}
      BY <3>2, <1>2
    <3>3. CASE \E q \in Processors : task[q] = d /\ proc[q] \in Unsettled
      BY <3>1, <3>3, <1>3
    <3>4. QED
      BY <3>1, <3>2, <3>3 DEF IInv, FatesOK
  <2>7. \A d \in Calls : d >= callNo' => fate'[d] = "unused"
    <3>1. c < callNo
      BY <1>1 DEF IInv, FatesOK, Tokens, Held
    <3>2. QED
      BY <3>1, <1>1, <1>4 DEF IInv, TypeOK, FatesOK, Calls
  <2>8. QED
    BY <1>2, <2>4, <2>5, <2>6, <2>7 DEF IInv, FatesOK
<1>10. CountdownOK'
  BY <1>2, <1>3 DEF IInv, CountdownOK, CounterMatchesTokens, OwnToken
<1>11. CellsOK'
  <2>1. CASE f = "disagreed"
    BY <2>1, <1>1, <1>4 DEF IInv, TypeOK, CellsOK, Lower, Recorded, Calls
  <2>2. CASE f = "failed"
    BY <2>2, <1>1, <1>4 DEF IInv, TypeOK, CellsOK, Recorded, Calls
  <2>3. CASE f \in {"agreed", "skipped"}
    BY <2>3, <1>1, <1>4 DEF IInv, TypeOK, CellsOK, Recorded, Calls
  <2>4. QED
    BY <2>1, <2>2, <2>3
<1>12. VerdictOK'
  BY <1>5 DEF IInv, VerdictOK, VerdictIsSound
<1>13. QED
  BY <1>6, <1>7, <1>8, <1>9, <1>10, <1>11, <1>12 DEF IInv

LEMMA ChecksPreserves ==
    ASSUME IInv, NEW p \in Processors, ProcessorChecks(p) PROVE IInv'
<1> USE ConstantsAssumption DEF ProcessorChecks, detVars, waitVars
<1>1. CASE disagree # U32Max
  <2>1. proc[p] \in Unsettled /\ Enter(p, "drop")
        /\ UNCHANGED <<detVars, det, sending, queue, closed, waitVars, task, outcome,
                       disagree, failed, verdict>>
        /\ fate' = [fate EXCEPT ![task[p]] = "skipped"]
    BY <1>1 DEF Unsettled
  <2>2. QED
    BY <1>1, <2>1, SettlesPreserves
<1>2. CASE disagree = U32Max
  <2>1. UNCHANGED <<detVars, det, sending, queue, closed, waitVars, task, outcome,
                    disagree, failed, fate, verdict>> /\ Enter(p, "run")
    BY <1>2
  <2>2. Queued' = Queued /\ Tokens' = Tokens
    BY <2>1 DEF Queued, Tokens, Held
  <2>3. /\ proc' = [proc EXCEPT ![p] = "run"] /\ proc'[p] = "run" /\ proc[p] = "check"
        /\ \A q \in Processors : q # p => proc'[q] = proc[q]
        /\ proc' \in [Processors -> {"idle", "select", "parked", "check", "run",
                                     "publish", "drop", "exited"}]
    BY <2>1 DEF Enter, IInv, TypeOK
  <2>4. /\ \A q \in Processors : proc'[q] \in HoldingTask <=> proc[q] \in HoldingTask
        /\ \A q \in Processors : proc'[q] \in Unsettled <=> proc[q] \in Unsettled
        /\ \A q \in Processors : proc'[q] \in {"idle", "exited"} => proc'[q] = proc[q]
        /\ \A q \in Processors : proc[q] \in {"idle", "exited"} => proc'[q] = proc[q]
    BY <2>3 DEF HoldingTask, Unsettled
  <2>5. det # "done"
    BY DEF IInv, VerdictOK, ReadPermits
  <2>6. TypeOK' /\ HoldersOK' /\ Exclusive' /\ FatesOK'
    BY <2>1, <2>2, <2>3, <2>4 DEF IInv, TypeOK, HoldersOK, Exclusive, FatesOK, Processors
  <2>7. CountdownOK' /\ CellsOK' /\ VerdictOK'
    BY <2>1, <2>2, <2>4, <2>5 DEF IInv, CountdownOK, CounterMatchesTokens, OwnToken,
       CellsOK, VerdictOK, VerdictIsSound
  <2>8. QED
    BY <2>6, <2>7 DEF IInv
<1>3. QED
  BY <1>1, <1>2

LEMMA PublishesPreserves ==
    ASSUME IInv, NEW p \in Processors, ProcessorPublishes(p) PROVE IInv'
<1> USE ConstantsAssumption DEF ProcessorPublishes, detVars, waitVars
<1>1. /\ proc[p] \in Unsettled /\ Enter(p, "drop") /\ outcome[p] \in Outcomes
      /\ UNCHANGED <<detVars, det, sending, queue, closed, waitVars, task, outcome, verdict>>
  BY DEF Unsettled, IInv, TypeOK
<1>2. CASE outcome[p] = "agree"
  <2>1. fate' = [fate EXCEPT ![task[p]] = "agreed"] /\ UNCHANGED <<disagree, failed>>
    BY <1>2
  <2>2. QED
    BY <1>1, <2>1, SettlesPreserves
<1>3. CASE outcome[p] = "disagree"
  <2>1. /\ fate' = [fate EXCEPT ![task[p]] = "disagreed"] /\ UNCHANGED failed
        /\ disagree' = Lower(disagree, task[p])
    BY <1>3
  <2>2. QED
    BY <1>1, <2>1, SettlesPreserves
<1>4. CASE outcome[p] = "fail"
  <2>1. /\ fate' = [fate EXCEPT ![task[p]] = "failed"] /\ UNCHANGED disagree
        /\ failed' = task[p]
    BY <1>4
  <2>2. QED
    BY <1>1, <2>1, SettlesPreserves
<1>5. QED
  BY <1>1, <1>2, <1>3, <1>4 DEF Outcomes

LEMMA DropsPreserves ==
    ASSUME IInv, NEW p \in Processors, ProcessorDrops(p) PROVE IInv'
<1> USE ConstantsAssumption DEF ProcessorDrops, detVars
<1> DEFINE c == task[p]
<1>1. c \in Calls /\ c # NoCall
  BY DEF IInv, TypeOK, HoldersOK, HoldingTask
<1>2. Queued' = Queued /\ c \notin Queued \cup {sending}
  BY <1>1 DEF Queued, IInv, Exclusive
<1>3. /\ task' \in [Processors -> Calls \cup {NoCall}] /\ task'[p] = NoCall
      /\ \A q \in Processors : q # p => task'[q] = task[q] /\ task[q] # c
  BY <1>1 DEF IInv, TypeOK, Exclusive
<1>4. /\ proc' = [proc EXCEPT ![p] = "select"] /\ proc'[p] = "select"
      /\ \A q \in Processors : q # p => proc'[q] = proc[q]
      /\ proc' \in [Processors -> {"idle", "select", "parked", "check", "run",
                                   "publish", "drop", "exited"}]
  BY DEF Enter, IInv, TypeOK
<1>5. Tokens' = Tokens \ {c} /\ c \in Tokens
  <2>1. Held' \ {NoCall} = (Held \ {c}) \ {NoCall}
    BY <1>1, <1>3 DEF Held
  <2>2. QED
    BY <1>1, <1>2, <2>1 DEF Tokens, Held
<1>6. /\ Cardinality(Tokens') = Cardinality(Tokens) - 1 /\ Cardinality(Tokens) \in Nat
      /\ Cardinality(Tokens') \in Nat
  BY <1>5, TokensFinite, FS_RemoveElement, FS_CardinalityType DEF IInv
<1>7. /\ counter = Cardinality(Tokens) + OwnToken /\ counter' = counter - 1
      /\ OwnToken \in {0, 1} /\ OwnToken' = OwnToken
  BY DEF IInv, CountdownOK, CounterMatchesTokens, OwnToken, Decrement
<1>8. counter' \in Nat /\ counter # 0 /\ permit' \in BOOLEAN
  BY <1>6, <1>7 DEF Decrement
<1>9. det # "done"
  BY DEF IInv, VerdictOK, ReadPermits
<1>10. TypeOK'
  BY <1>3, <1>4, <1>8 DEF IInv, TypeOK
<1>11. HoldersOK'
  BY <1>3, <1>4 DEF IInv, HoldersOK, HoldingTask, Processors
<1>12. Exclusive'
  BY <1>2, <1>3 DEF IInv, Exclusive
<1>13. FatesOK'
  BY <1>1, <1>2, <1>3, <1>4, <1>5 DEF IInv, FatesOK, Unsettled
<1>14. CountdownOK'
  <2>1. CounterMatchesTokens'
    BY <1>6, <1>7 DEF CounterMatchesTokens
  <2>2. ~permit
    BY <1>8 DEF IInv, CountdownOK
  <2>3. permit' => counter = 1
    BY <2>2, Zenon DEF Decrement
  <2>4. permit' => counter' = 0
    BY <1>7, <2>3
  <2>5. QED
    BY <1>4, <2>1, <2>4 DEF IInv, CountdownOK
<1>15. CellsOK' /\ VerdictOK'
  BY <1>9 DEF IInv, CellsOK, VerdictOK, VerdictIsSound
<1>16. QED
  BY <1>10, <1>11, <1>12, <1>13, <1>14, <1>15 DEF IInv

-----------------------------------------------------------------------------
LEMMA NextPreservesIInv == IInv /\ [Next]_vars => IInv'
<1> SUFFICES ASSUME IInv, [Next]_vars PROVE IInv'
  OBVIOUS
<1>1. CASE RunNondet
  <2>1. CASE ChargeOutput
    BY <2>1, MovesDetPreserves DEF ChargeOutput, procVars
  <2>2. QED
    BY <1>1, <2>1, RejectedPreserves, EmptyPreserves, LeaderPreserves, SyncPreserves,
       SubmitPreserves, SendPreserves DEF RunNondet
<1>2. CASE DetEnds
  BY <1>2, MovesDetPreserves DEF DetEnds, procVars
<1>3. CASE AwaitNondetVms
  <2>1. CASE AwaitClose
    BY <2>1, MovesDetPreserves DEF AwaitClose, procVars
  <2>2. CASE AwaitInspect
    BY <2>2, MovesDetPreserves DEF AwaitInspect
  <2>3. QED
    BY <1>3, <2>1, <2>2, AwaitDecrementPreserves, AwaitVerdictPreserves DEF AwaitNondetVms
<1>4. ASSUME NEW p \in Processors, Processor(p) PROVE IInv'
  <2>1. CASE ProcessorParks(p)
    <3>1. UNCHANGED permit /\ permit \in BOOLEAN /\ outcome' \in [Processors -> Outcomes]
      BY <2>1 DEF ProcessorParks, waitVars, IInv, TypeOK
    <3>2. QED
      BY <2>1, <3>1, MovesProcPreserves DEF ProcessorParks, waitVars
  <2>2. CASE ProcessorSeesZero(p)
    <3>1. counter = 0 /\ proc[p] \in {"select", "parked"}
      BY <2>2 DEF ProcessorSeesZero, IInv, CountdownOK
    <3>2. closed /\ queue = <<>>
      BY <3>1, ZeroMeansDrained
    <3>3. outcome' \in [Processors -> Outcomes] /\ permit \in BOOLEAN
      BY <2>2 DEF ProcessorSeesZero, IInv, TypeOK
    <3>4. permit' = permit \/ permit' = FALSE
      BY <2>2, Zenon DEF ProcessorSeesZero
    <3>5. permit' \in BOOLEAN /\ (permit' => permit)
      <4>1. CASE permit' = permit
        BY <3>3, <4>1
      <4>2. CASE permit' = FALSE
        BY <4>2
      <4>3. QED
        BY <3>4, <4>1, <4>2
    <3>6. QED
      BY <2>2, <3>1, <3>2, <3>3, <3>5, MovesProcPreserves DEF ProcessorSeesZero
  <2>3. CASE ProcessorSeesClosed(p)
    <3>1. UNCHANGED permit /\ permit \in BOOLEAN /\ outcome' \in [Processors -> Outcomes]
      BY <2>3 DEF ProcessorSeesClosed, waitVars, IInv, TypeOK
    <3>2. QED
      BY <2>3, <3>1, MovesProcPreserves DEF ProcessorSeesClosed, waitVars
  <2>4. CASE ProcessorRuns(p)
    <3>1. UNCHANGED permit /\ permit \in BOOLEAN /\ outcome' \in [Processors -> Outcomes]
      BY <2>4 DEF ProcessorRuns, waitVars, IInv, TypeOK
    <3>2. QED
      BY <2>4, <3>1, MovesProcPreserves DEF ProcessorRuns, waitVars
  <2>5. QED
    BY <1>4, <2>1, <2>2, <2>3, <2>4, ReceivesPreserves, ChecksPreserves,
       PublishesPreserves, DropsPreserves DEF Processor
<1>5. CASE UNCHANGED vars
  <2>1. Queued' = Queued /\ Tokens' = Tokens
    BY <1>5 DEF vars, procVars, Queued, Tokens, Held
  <2>2. TypeOK' /\ HoldersOK' /\ Exclusive' /\ FatesOK'
    BY <1>5, <2>1 DEF IInv, vars, detVars, waitVars, procVars, TypeOK, HoldersOK, Exclusive, FatesOK
  <2>3. CountdownOK' /\ CellsOK' /\ VerdictOK'
    BY <1>5, <2>1 DEF IInv, vars, detVars, waitVars, procVars, CountdownOK,
       CounterMatchesTokens, OwnToken, CellsOK, VerdictOK, VerdictIsSound, ReadPermits
  <2>4. QED
    BY <2>2, <2>3 DEF IInv
<1>6. QED
  BY <1>1, <1>2, <1>3, <1>4, <1>5 DEF Next, Done

(* The inductive invariant holds in every reachable state.                 *)
THEOREM InductiveInvariant == Spec => []IInv
<1>1. Init => IInv
  BY InitIInv
<1>2. IInv /\ [Next]_vars => IInv'
  BY NextPreservesIInv
<1>3. QED
  BY <1>1, <1>2, PTL DEF Spec

(* Every variable keeps its type; the Waiter's counter never goes below    *)
(* zero.                                                                   *)
THEOREM TypeCorrect == Spec => []TypeOK
BY InductiveInvariant, PTL DEF IInv

(* vm_countdown is exactly the number of live tokens: no iteration of      *)
(* nondet_vm_processor drops a token twice or never.                       *)
THEOREM CountdownIsExact == Spec => []CounterMatchesTokens
<1>1. IInv => CounterMatchesTokens
  BY DEF IInv, CountdownOK
<1>2. QED
  BY <1>1, InductiveInvariant, PTL

(* Both together are what the run of the queue checks as ExactCountdown.   *)
THEOREM CountdownSoundness == Spec => []ExactCountdown
BY TypeCorrect, CountdownIsExact, PTL DEF ExactCountdown

(* No processor leaves its loop while a block could still reach it.        *)
THEOREM NothingLeftBehind == Spec => []ExitedMeansDrained
<1>1. IInv => ExitedMeansDrained
  BY DEF IInv, CountdownOK, HoldersOK, ExitedMeansDrained
<1>2. QED
  BY <1>1, InductiveInvariant, PTL

(* The verdict await_nondet_vms returns is the right one for how the       *)
(* blocks settled, and none is still outstanding.                          *)
THEOREM VerdictSoundness == Spec => []VerdictIsSound
<1>1. IInv => VerdictIsSound
  BY DEF IInv, VerdictOK
<1>2. QED
  BY <1>1, InductiveInvariant, PTL

(* No block gets lost between run_nondet and the verdict, whatever the     *)
(* processors do: the run checks it as CompleteVerdict.                    *)
THEOREM NoBlockIsLost == Spec => []CompleteVerdict
BY NothingLeftBehind, VerdictSoundness, PTL DEF CompleteVerdict

-----------------------------------------------------------------------------
(* Refinement of NondetVerdict: one lemma per step that settles a call or  *)
(* gives the verdict; every other step stutters.                           *)

LEMMA AbstractStutter ==
    ASSUME UNCHANGED <<fate, verdict>>
    PROVE  [Abstract!Next]_(Abstract!vars)
BY DEF Abstract!vars

LEMMA AbstractSubmit ==
    ASSUME IInv, RunNondetEmpty \/ RunNondetSubmit
    PROVE  [Abstract!Next]_(Abstract!vars)
<1> USE ConstantsAssumption
<1>1. callNo \in Calls /\ fate[callNo] = "unused" /\ verdict.kind = "pending" /\ UNCHANGED verdict
  BY DEF IInv, TypeOK, FatesOK, VerdictOK, Calls, RunNondetEmpty, RunNondetSubmit, TakeCallNo
<1>2. CASE UNCHANGED fate
  BY <1>1, <1>2, AbstractStutter
<1>3. CASE \E f \in {"submitted", "marked"} : fate' = [fate EXCEPT ![callNo] = f]
  <2>1. Abstract!Submit(callNo)
    BY <1>1, <1>3 DEF Abstract!Submit
  <2>2. QED
    BY <1>1, <2>1 DEF Abstract!Next, Abstract!Calls, Calls
<1>4. QED
  BY <1>2, <1>3 DEF RunNondetEmpty, RunNondetSubmit

LEMMA AbstractSettle ==
    ASSUME IInv, NEW p \in Processors, ProcessorChecks(p) \/ ProcessorPublishes(p)
    PROVE  [Abstract!Next]_(Abstract!vars)
<1>1. proc[p] \in Unsettled /\ UNCHANGED verdict
  BY DEF Unsettled, ProcessorChecks, ProcessorPublishes
<1>2. task[p] \in Calls /\ fate[task[p]] = "submitted"
  BY <1>1 DEF IInv, TypeOK, HoldersOK, FatesOK, Unsettled, HoldingTask
<1>3. verdict.kind = "pending"
  BY <1>1 DEF IInv, VerdictOK, ReadPermits, Unsettled
<1>4. CASE ProcessorChecks(p)
  <2>1. CASE disagree # U32Max
    <3>1. Abstract!Bad # {}
      BY <2>1 DEF IInv, CellsOK, Recorded, Abstract!Bad, Abstract!Calls, Calls
    <3>2. Abstract!Skip(task[p])
      BY <1>1, <1>2, <1>4, <2>1, <3>1 DEF ProcessorChecks, Abstract!Skip
    <3>3. QED
      BY <1>2, <1>3, <3>2 DEF Abstract!Next, Abstract!Calls, Calls
  <2>2. CASE disagree = U32Max
    BY <1>1, <1>4, <2>2, AbstractStutter DEF ProcessorChecks
  <2>3. QED
    BY <2>1, <2>2
<1>5. CASE ProcessorPublishes(p)
  <2>1. \E f \in {"agreed", "disagreed", "failed"} : fate' = [fate EXCEPT ![task[p]] = f]
    <3>1. outcome[p] \in Outcomes
      BY DEF IInv, TypeOK
    <3>2. QED
      BY <1>5, <3>1 DEF ProcessorPublishes, Outcomes
  <2>2. Abstract!Settle(task[p])
    BY <1>1, <1>2, <2>1 DEF Abstract!Settle
  <2>3. QED
    BY <1>2, <1>3, <2>2 DEF Abstract!Next, Abstract!Calls, Calls
<1>6. QED
  BY <1>4, <1>5

LEMMA AbstractDecide ==
    ASSUME IInv, AwaitVerdict
    PROVE  [Abstract!Next]_(Abstract!vars)
<1> USE ConstantsAssumption DEF AwaitVerdict
<1>1. IInv'
  BY AwaitVerdictPreserves
<1>2. /\ verdict.kind = "pending" /\ verdict'.kind # "pending" /\ UNCHANGED fate
      /\ \A c \in Calls : fate[c] # "submitted"
  BY <1>1 DEF IInv, VerdictOK, VerdictIsSound
<1>3. CASE failed # NoCall
  <2>1. failed \in Abstract!Failed
    BY <1>3 DEF IInv, TypeOK, CellsOK, Abstract!Failed, Abstract!Calls, Calls, NoCall
  <2>2. Abstract!Decide
    BY <1>2, <1>3, <2>1 DEF Abstract!Decide, Abstract!Calls, Calls, Verdict
  <2>3. QED
    BY <2>2 DEF Abstract!Next
<1>4. CASE failed = NoCall
  <2>1. Abstract!Failed = {}
    BY <1>4 DEF IInv, CellsOK, Abstract!Failed, Abstract!Calls, Calls
  <2>2. CASE disagree = U32Max
    <3>1. Abstract!Bad = {}
      BY <2>2 DEF IInv, CellsOK, Recorded, Abstract!Bad, Abstract!Calls, Calls
    <3>2. Abstract!Decide
      BY <1>2, <1>4, <2>1, <2>2, <3>1 DEF Abstract!Decide, Abstract!Calls, Calls, Verdict, NoCall
    <3>3. QED
      BY <3>2 DEF Abstract!Next
  <2>3. CASE disagree # U32Max
    <3>1. disagree \in Abstract!Bad /\ \A d \in Abstract!Bad : disagree <= d
      BY <2>3 DEF IInv, CellsOK, Recorded, Abstract!Bad, Abstract!Calls, Calls
    <3>2. Abstract!Decide
      BY <1>2, <1>4, <2>1, <2>3, <3>1 DEF Abstract!Decide, Abstract!Calls, Calls, Verdict
    <3>3. QED
      BY <3>2 DEF Abstract!Next
  <2>4. QED
    BY <2>2, <2>3
<1>5. QED
  BY <1>3, <1>4

(* The queue, the countdown and the two processors implement the abstract  *)
(* verdict: the safety half of what the host relies on.                    *)
THEOREM Refinement == Spec => ImplementsVerdict
<1>1. Init => Abstract!Init
  BY DEF Init, Abstract!Init, Abstract!Calls, Calls, Pending, NoCall
<1>2. ASSUME IInv, [Next]_vars PROVE [Abstract!Next]_(Abstract!vars)
  <2>1. CASE RunNondetRejected \/ RunNondetLeader \/ RunNondetSync \/ SendTask
             \/ ChargeOutput \/ DetEnds \/ UNCHANGED vars
    BY <2>1, AbstractStutter DEF RunNondetRejected, RunNondetLeader, RunNondetSync,
       TakeCallNo, SendTask, ChargeOutput, DetEnds, vars
  <2>2. CASE AwaitClose \/ AwaitDecrement \/ AwaitInspect
    BY <2>2, AbstractStutter DEF AwaitClose, AwaitDecrement, AwaitInspect
  <2>3. ASSUME NEW p \in Processors, Processor(p) PROVE [Abstract!Next]_(Abstract!vars)
    <3>1. CASE ProcessorChecks(p) \/ ProcessorPublishes(p)
      BY <1>2, <3>1, AbstractSettle
    <3>2. CASE ProcessorParks(p) \/ ProcessorSeesZero(p) \/ ProcessorSeesClosed(p)
               \/ ProcessorReceives(p) \/ ProcessorRuns(p) \/ ProcessorDrops(p)
      BY <3>2, AbstractStutter DEF ProcessorParks, ProcessorSeesZero, ProcessorSeesClosed,
         ProcessorReceives, ProcessorRuns, ProcessorDrops
    <3>3. QED
      BY <2>3, <3>1, <3>2 DEF Processor
  <2>4. QED
    BY <1>2, <2>1, <2>2, <2>3, AbstractSubmit, AbstractDecide
    DEF Next, RunNondet, AwaitNondetVms, Done
<1>3. QED
  BY <1>1, <1>2, InductiveInvariant, PTL DEF Spec, ImplementsVerdict, Abstract!Spec

-----------------------------------------------------------------------------
(* What a leader publishes.  While its VM can still call, it has pushed    *)
(* one result for every call it has made, so the next is never padded.     *)

ResultsInv ==
    /\ NoHoleInLeaderResults
    /\ det = "send" => role = "validator"
    /\ role = "leader" /\ det \in {"run", "charge"} => Len(nondetResults) = callNo

LEMMA ResultsKept ==
    ASSUME ResultsInv, UNCHANGED detVars,
           det' = "send" => det = "send",
           det' \in {"run", "charge"} => det \in {"run", "charge"} \/ det = "send"
    PROVE  ResultsInv'
BY DEF ResultsInv, NoHoleInLeaderResults, detVars

(* A call that pushes nothing: it traps, or the VM is not a leader's.      *)
LEMMA ResultsUnpushed ==
    ASSUME TypeOK, ResultsInv, TakeCallNo, UNCHANGED nondetResults,
           det' \in {"run", "charge"} => role # "leader",
           det' = "send" => role = "validator"
    PROVE  ResultsInv'
<1>1. role' = role /\ callNo' = callNo + 1 /\ callNo \in Nat /\ Len(nondetResults) \in Nat
  BY DEF TakeCallNo, TypeOK
<1> QED BY <1>1 DEF ResultsInv, NoHoleInLeaderResults

LEMMA LeaderPushes == ASSUME TypeOK, ResultsInv, RunNondetLeader PROVE ResultsInv'
<1>1. /\ TakeCallNo /\ det = "run" /\ role = "leader" /\ role' = role /\ callNo' = callNo + 1
      /\ callNo \in Nat /\ Len(nondetResults) = callNo
  BY DEF RunNondetLeader, TakeCallNo, TypeOK, ResultsInv
<1>2. CASE Trap /\ UNCHANGED nondetResults
  BY <1>1, <1>2, ResultsUnpushed DEF Trap
<1>3. ASSUME NEW r \in {"value", "vm_error"}, det' = (IF r = "value" THEN "charge" ELSE "close"),
             nondetResults' = [Padded(nondetResults, callNo + 1) EXCEPT ![callNo + 1] = r]
      PROVE  ResultsInv'
  <2>1. PICK n \in Nat : n = callNo + 1
    BY <1>1
  <2>2. /\ nondetResults' = [i \in 1 .. n |-> IF i = n THEN r ELSE nondetResults[i]]
    <3>1. PICK t : t = Padded(nondetResults, callNo + 1)
      OBVIOUS
    <3>2. t = [i \in 1 .. n |-> IF i <= Len(nondetResults) THEN nondetResults[i] ELSE "empty"]
      BY <2>1, <3>1 DEF Padded
    <3>3. nondetResults' = [t EXCEPT ![n] = r]
      BY <1>3, <2>1, <3>1
    <3>4. \A i \in 1 .. n : i # n => i <= Len(nondetResults)
      BY <1>1, <2>1
    <3> QED BY <3>2, <3>3, <3>4
  <2>3. Len(nondetResults') = n
    BY <2>2
  <2>4. \A i \in 1 .. n : nondetResults'[i] # "empty"
    <3> TAKE i \in 1 .. n
    <3>1. i = n \/ i \in 1 .. Len(nondetResults)
      BY <1>1, <2>1
    <3> QED BY <1>3, <2>2, <3>1 DEF ResultsInv, NoHoleInLeaderResults
  <2>5. det' # "send"
    BY <1>3
  <2> QED BY <1>1, <2>1, <2>3, <2>4, <2>5 DEF ResultsInv, NoHoleInLeaderResults
<1> QED BY <1>2, <1>3 DEF RunNondetLeader

(* A leader publishes a result for each block it finished and pads none,   *)
(* so a validator replaying it never meets the "empty" case of run_nondet. *)
THEOREM LeaderLeavesNoHole == Spec => []NoHoleInLeaderResults
<1>1. Init => ResultsInv
  BY DEF Init, ResultsInv, NoHoleInLeaderResults
<1>2. TypeOK /\ ResultsInv /\ [Next]_vars => ResultsInv'
  <2> SUFFICES ASSUME TypeOK, ResultsInv, [Next]_vars PROVE ResultsInv'
    OBVIOUS
  <2>1. CASE RunNondetRejected
    BY <2>1, ResultsUnpushed DEF RunNondetRejected, Trap
  <2>2. CASE RunNondetEmpty
    BY <2>2, ResultsUnpushed DEF RunNondetEmpty, Trap
  <2>3. CASE RunNondetLeader
    BY <2>3, LeaderPushes
  <2>4. CASE RunNondetSync
    <3>1. role # "leader" /\ det' # "send"
      BY <2>4 DEF RunNondetSync
    <3> QED BY <2>4, <3>1, ResultsUnpushed DEF RunNondetSync
  <2>5. CASE RunNondetSubmit
    BY <2>5, ResultsUnpushed DEF RunNondetSubmit
  <2>6. CASE SendTask
    <3>1. det = "send" /\ det' # "send" /\ UNCHANGED detVars
      BY <2>6 DEF SendTask
    <3> QED BY <3>1, ResultsKept
  <2>7. CASE ChargeOutput \/ DetEnds
    BY <2>7, ResultsKept DEF ChargeOutput, DetEnds
  <2>8. CASE AwaitClose \/ AwaitDecrement \/ AwaitInspect \/ AwaitVerdict
    BY <2>8, ResultsKept DEF AwaitClose, AwaitDecrement, AwaitInspect, AwaitVerdict
  <2>9. ASSUME NEW p \in Processors, Processor(p) PROVE ResultsInv'
    <3>1. UNCHANGED <<det, detVars>>
      BY <2>9 DEF Processor, ProcessorParks, ProcessorSeesZero, ProcessorSeesClosed,
         ProcessorReceives, ProcessorChecks, ProcessorRuns, ProcessorPublishes, ProcessorDrops
    <3> QED BY <3>1, ResultsKept
  <2>10. CASE UNCHANGED vars
    BY <2>10, ResultsKept DEF vars, detVars
  <2> QED BY <2>1, <2>2, <2>3, <2>4, <2>5, <2>6, <2>7, <2>8, <2>9, <2>10
          DEF Next, RunNondet, AwaitNondetVms, Done
<1>3. ResultsInv => NoHoleInLeaderResults
  BY DEF ResultsInv
<1> QED BY <1>1, <1>2, <1>3, TypeCorrect, PTL DEF Spec

=============================================================================
