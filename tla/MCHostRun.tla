----------------------------- MODULE MCHostRun -----------------------------
(***************************************************************************)
(* HostRun with two connections, the second one for what is not answered   *)
(* and for the end of the run, two blocks, and one connection that may     *)
(* break.  A prompt consumes one, two, or all its time.                    *)
(***************************************************************************)
EXTENDS HostRun

MCMethodHosts == {<<>>, <<0, 1, 0, 0, 0, 1, 0, 1>>}
MCLockedLists == {<<3, 1, 2>>}
=============================================================================
