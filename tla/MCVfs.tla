------------------------------- MODULE MCVfs -------------------------------
(* A tree /d, /d/e, /f with a file of two bytes; numbers for one or two    *)
(* descriptors beyond the preopened ones.                                  *)
EXTENDS Vfs

MCLengths == {0, 2}
MCTree == <<>> :> Dir @@ <<"d">> :> Dir @@ <<"d", "e">> :> Dir @@ <<"f">> :> 2
MCPaths == {<<"d">>, <<"e">>, <<".", "f">>, <<"d", "..">>}
MCOffsets == {-1, 1, 3}
=============================================================================
