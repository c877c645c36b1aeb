----------------------------- MODULE MemBudget -----------------------------
(***************************************************************************)
(* What the memory limiter promises: a budget of Total units shared by     *)
(* holders that take and return amounts in single steps, in which a        *)
(* request is refused only when the budget cannot cover it.                *)
(***************************************************************************)
EXTENDS Integers, FiniteSetsExt

CONSTANTS Holders, Total

VARIABLES held      \* how much each holder has
        , asked     \* the amount of its request under way, or None
        , answer    \* the answer to its last request

vars == <<held, asked, answer>>

None == -1
Taken == SumFunctionOnSet(held, Holders)

Init ==
    /\ held = [h \in Holders |-> 0]
    /\ asked = [h \in Holders |-> None]
    /\ answer = [h \in Holders |-> "none"]

Ask(h) ==
    /\ asked[h] = None
    /\ asked'[h] \in Nat /\ asked' = [asked EXCEPT ![h] = asked'[h]]
    /\ answer' = [answer EXCEPT ![h] = "none"]
    /\ UNCHANGED held

Reply(h, a) ==
    /\ asked[h] # None
    /\ asked' = [asked EXCEPT ![h] = None]
    /\ answer' = [answer EXCEPT ![h] = a]

Grant(h) ==
    /\ Taken + asked[h] <= Total
    /\ held' = [held EXCEPT ![h] = @ + asked[h]]
    /\ Reply(h, "yes")

Refuse(h) ==
    /\ Taken + asked[h] > Total
    /\ Reply(h, "no")
    /\ UNCHANGED held

Return(h) ==
    /\ \E n \in 1 .. held[h] : held' = [held EXCEPT ![h] = @ - n]
    /\ UNCHANGED <<asked, answer>>

Next == \E h \in Holders : Ask(h) \/ Grant(h) \/ Refuse(h) \/ Return(h)

Spec == Init /\ [][Next]_vars

=============================================================================
