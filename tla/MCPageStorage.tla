--------------------------- MODULE MCPageStorage ---------------------------
(* Two slots of three pages of two bytes, a cache of two pages; the run    *)
(* that looks for an early eviction reads four pages of one slot.          *)
EXTENDS PageStorage

MCSlots == {0, 1}
MCOneSlot == {0}
MCWrites == {1, 2}
MCOneWrite == {1}
=============================================================================
