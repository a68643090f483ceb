----------------------------- MODULE ReviewQueue -----------------------------
(***************************************************************************)
(* The queue of patches under review: ReviewWorkspace (core/domain/        *)
(* workspace.py) and the operations ReviewWorkspaceManager offers on it    *)
(* (core/review/workspace.py).  The cursor counts from 1 here and from 0   *)
(* in the code; one past the last item means that the review is over.      *)
(***************************************************************************)
EXTENDS Integers, Sequences

(* The workspace of a project that has none on disk. *)
IdleWorkspace == [mode |-> "idle", items |-> <<>>, cursor |-> 1]

IsPending(item) == item.status = "pending"

HasPendingPatch(w) ==
  /\ w.cursor \in 1..Len(w.items)
  /\ IsPending(w.items[w.cursor])

CurrentPatch(w) == w.items[w.cursor]

PendingAfterCursor(w) == {i \in (w.cursor + 1)..Len(w.items) : IsPending(w.items[i])}

(* Fault: the end of the queue does not make the workspace idle. *)
AdvanceStaysReviewing(w) ==
  [w EXCEPT !.cursor = IF PendingAfterCursor(w) = {} THEN Len(w.items) + 1 ELSE @ + 1]

AdvanceAfterTerminalPatch(w) ==
  IF PendingAfterCursor(w) = {}
    THEN [w EXCEPT !.cursor = Len(w.items) + 1, !.mode = "idle"]
    ELSE [w EXCEPT !.cursor = CHOOSE i \in PendingAfterCursor(w) :
                                \A j \in PendingAfterCursor(w) : i <= j,
                   !.mode = "reviewing"]

MarkCurrentPatch(w, status) ==
  IF HasPendingPatch(w)
    THEN AdvanceAfterTerminalPatch([w EXCEPT !.items[w.cursor].status = status])
    ELSE w

ReplaceCurrentPatch(w, draft) ==
  IF HasPendingPatch(w)
    THEN [w EXCEPT !.items[w.cursor].draft = draft, !.mode = "reviewing"]
    ELSE w

(* A patch joins the end of the queue and wakes an idle one at its start.  *)
AddPatch(w, draft) ==
  LET added == [w EXCEPT !.items = Append(@, [status |-> "pending", draft |-> draft])]
  IN  IF w.mode = "idle" THEN [added EXCEPT !.mode = "reviewing", !.cursor = 1] ELSE added
=============================================================================
