--------------------------- MODULE MCNondetQueue ---------------------------
(* Instances of NondetQueue for TLC.  Four calls and a channel of two      *)
(* slots: each processor can hold a task while two more fill the channel,  *)
(* and with one processor busy or gone a fourth call finds the channel     *)
(* full.                                                                   *)
EXTENDS NondetQueue

MCNondetBlocks == 4
MCCapacity == 2
MCU32Max == 255

=============================================================================
