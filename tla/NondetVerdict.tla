--------------------------- MODULE NondetVerdict ---------------------------
(***************************************************************************)
(* What the nondeterministic-block machinery promises the host, with no    *)
(* queue, no counter and no threads: every block that was handed over is   *)
(* settled once, a block is left unexamined only after a disagreement has  *)
(* been recorded, and the verdict is a function of how the blocks settled. *)
(***************************************************************************)
EXTENDS Integers

CONSTANTS NondetBlocks

VARIABLES fate, verdict

vars == <<fate, verdict>>

Calls == 0 .. NondetBlocks - 1

Settled == {"agreed", "disagreed", "failed", "skipped", "marked"}
Bad == {c \in Calls : fate[c] \in {"disagreed", "marked"}}
Failed == {c \in Calls : fate[c] = "failed"}

Init ==
    /\ fate = [c \in Calls |-> "unused"]
    /\ verdict = [kind |-> "pending", call |-> -1]

(* A call is made: its block is handed over, or it is a disagreement at    *)
(* once because the leader recorded nothing for it.                        *)
Submit(c) ==
    /\ fate[c] = "unused"
    /\ \E f \in {"submitted", "marked"} : fate' = [fate EXCEPT ![c] = f]
    /\ UNCHANGED verdict

Settle(c) ==
    /\ fate[c] = "submitted"
    /\ \E f \in {"agreed", "disagreed", "failed"} : fate' = [fate EXCEPT ![c] = f]
    /\ UNCHANGED verdict

Skip(c) ==
    /\ fate[c] = "submitted"
    /\ Bad # {}
    /\ fate' = [fate EXCEPT ![c] = "skipped"]
    /\ UNCHANGED verdict

(* The verdict, given once nothing is outstanding: an internal error of    *)
(* some block if there was one, else the lowest call that disagreed.       *)
Decide ==
    /\ verdict.kind = "pending"
    /\ \A c \in Calls : fate[c] # "submitted"
    /\ \/ \E c \in Failed : verdict' = [kind |-> "error", call |-> c]
       \/ /\ Failed = {}
          /\ \E c \in Bad :
               /\ \A d \in Bad : c <= d
               /\ verdict' = [kind |-> "disagreed", call |-> c]
       \/ /\ Failed = {} /\ Bad = {}
          /\ verdict' = [kind |-> "agreed", call |-> -1]
    /\ UNCHANGED fate

Next ==
    \/ /\ verdict.kind = "pending"
       /\ \E c \in Calls : Submit(c) \/ Settle(c) \/ Skip(c)
    \/ Decide

Spec == Init /\ [][Next]_vars

=============================================================================
