------------------------- MODULE MCPatchVerification -------------------------
(* An instance of PatchVerification for TLC: a file with two kinds of line *)
(* ending, and patches that delete, shrink, keep or grow what they match.  *)
EXTENDS PatchVerification

CONSTANTS a, b, c

Files == {<<a, CR, LF, b, CR>>}
Olds  == {<<a>>, <<LF>>, <<a, LF>>, <<LF, b>>, <<b>>}
News  == {<<>>, <<c>>, <<LF, c, LF>>}
=============================================================================
