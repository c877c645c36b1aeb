--------------------------- MODULE MCMemLimiter ---------------------------
(* Three VMs share a budget of five units: requests small enough to be     *)
(* granted, large enough to collide, a table whose entries overflow the    *)
(* counter and a growth that does not fit it.                              *)
EXTENDS MemLimiter, TLC

MCU32Max == 5
MCTableEntry == 2
MCRequests == {
    [kind |-> "plain",  current |-> 0, delta |-> 2],
    [kind |-> "memory", current |-> 0, delta |-> 6],
    [kind |-> "memory", current |-> 0, delta |-> 3],
    [kind |-> "table",  current |-> 0, delta |-> 3],
    [kind |-> "table",  current |-> 1, delta |-> 1] }

Symmetry == Permutations(Limiters)
=============================================================================
