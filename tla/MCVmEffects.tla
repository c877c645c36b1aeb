---------------------------- MODULE MCVmEffects ----------------------------
(* Two allocation nodes and a target none of them matches; two buckets,    *)
(* one for messages and one for pages, nondet outputs and, twice over,     *)
(* events.  If the second is empty, consume_initial fails half way.  Three *)
(* VMs deep, so that a sandbox of a sandbox and a call inside one occur.   *)
EXTENDS VmEffects

MCBuckets == {0, 1}
MCBucketTotals == {0 :> 5 @@ 1 :> b : b \in {0, 4}}
MCBucketNos == [cat \in Categories |->
    CASE cat \in {"message_fee", "message_receipt"} -> <<0>>
      [] cat = "event" -> <<1, 1>>
      [] OTHER -> <<1>>]
MCInitials == [cat \in Categories |->
    CASE cat = "event" -> <<1, 0>> [] cat = "message_fee" -> <<1>> [] OTHER -> <<0>>]
MCCosts == [cat \in Categories |-> IF cat = "event" THEN {<<1, 1>>} ELSE {<<1>>}]

MCValues == {0, 1, 2}
MCTargets == {"first", "second", "unmatched"}
MCNodeOf == "first" :> 1 @@ "second" :> 2 @@ "unmatched" :> 0
MCNodeBudgets == <<1, 2>>
MCMainPerms == {{"write", "send", "call", "nondet"}, {"write", "call"}}
MCPageIds == {"p", "q"}
MCCodePages == {"p"}
=============================================================================
