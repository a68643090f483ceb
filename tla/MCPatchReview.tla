---------------------------- MODULE MCPatchReview ----------------------------
(***************************************************************************)
(* Instances of PatchReview for TLC: the files and strings that bring the  *)
(* interesting cases, named for the run whose .cfg takes them.             *)
(***************************************************************************)
EXTENDS PatchReview

CONSTANTS a, b, c, f, g

(* Faults: two files; a replacement that extends what it replaces can be   *)
(* applied again after an interrupt, and an edit moves or removes a match. *)
FaultFiles == {<<a, b>>}
FaultEdits == {<<a, b>>, <<b, a, b>>, Unreadable}
FaultOlds  == {<<a>>, <<a, b>>}
FaultNews  == {<<a, a>>, <<>>}

(* Rebasing: three items in one file, longer, shorter and equal            *)
(* replacements, one of which makes another item's match ambiguous; and    *)
(* every kind of line ending, mixed, around and inside the matches, where  *)
(* what is deleted or written can leave a CR next to a LF.                 *)
RebaseFiles == {<<a, b, LF>>, <<a, CR, LF, b>>, <<CR, b>>, <<CR, b, LF>>}
RebaseOlds  == {<<a>>, <<b>>, <<LF>>, <<b, LF>>, <<LF, b>>}
RebaseNews  == {<<>>, <<CR, LF, c>>}
=============================================================================
