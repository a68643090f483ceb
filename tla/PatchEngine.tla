----------------------------- MODULE PatchEngine -----------------------------
(***************************************************************************)
(* The search/replace patch engine (core/patching/search_replace.py) as    *)
(* functions of the bytes it reads: building a draft, rebasing a pending   *)
(* draft after an earlier one was applied, and applying one.  Reading and  *)
(* writing the file are steps of PatchReview.                              *)
(***************************************************************************)
EXTENDS SourceText

CONSTANTS
  Unreadable,   \* a file that is missing, unreadable or not decodable
  NoTarget,     \* the target of a draft that is bound to no finding
  InitialFile,  \* what a file may hold at the start
  OldString, NewString  \* what the agent may propose to replace, and by what

File == Seq(Byte) \cup {Unreadable}

ASSUME TextAssumption ==
  InitialFile \subseteq File /\ OldString \cup NewString \subseteq Seq(Byte)

(* old_string occurs once in the normalised file, as the engine counts.    *)
LocatesUnique(raw, old) == CountIsOne(Normalize(raw), Normalize(old))

MatchRegion(raw, old) ==
  LET text  == Normalize(raw)
      start == FirstOf(Occurrences(text, Normalize(old)))
  IN  RegionInOriginal(raw, start, start + Len(Normalize(old)))

Touches(region, target) == target # NoTarget => Intersects(region, target)

-----------------------------------------------------------------------------
(* A tool call that drafts a patch succeeds. *)
CanDraft(file, old, target) ==
  /\ file # Unreadable
  /\ LocatesUnique(file, old)
  /\ Touches(MatchRegion(file, old), target)

Draft(path, file, old, new, target) ==
  [path |-> path, old |-> old, new |-> new, target |-> target,
   match_region |-> MatchRegion(file, old), error |-> "none"]

-----------------------------------------------------------------------------
(* apply_patch accepts the draft for the bytes it read.                    *)
ApplyChecks(file, draft) ==
  /\ file # Unreadable
  /\ LocatesUnique(file, draft.old)
  /\ MatchRegion(file, draft.old) = draft.match_region
  /\ Touches(draft.match_region, draft.target)

(* Fault: the new text keeps the line endings it came with. *)
ReplacementAsGiven(raw, draft) == RestoreNewlines(draft.new, DetectNewline(raw))

Replacement(raw, draft) == RestoreNewlines(Normalize(draft.new), DetectNewline(raw))

FinalBytes(raw, draft) == Splice(raw, draft.match_region, Replacement(raw, draft))

ChangedRegion(raw, draft) ==
  LET start == draft.match_region.start_offset
  IN  Region(FinalBytes(raw, draft), start, start + Len(Replacement(raw, draft)))

-----------------------------------------------------------------------------
ByteDelta(source, changed) ==
  (changed.end_offset - changed.start_offset) - (source.end_offset - source.start_offset)

(* How far the replacement of region source moved another region of the    *)
(* same file; only a region outside source has an answer.                  *)
IsApart(region, source) ==
  region.end_offset <= source.start_offset \/ region.start_offset >= source.end_offset

Shift(region, source, changed) ==
  IF region.end_offset <= source.start_offset THEN 0 ELSE ByteDelta(source, changed)

CanRebaseRegion(file, region, source, changed) ==
  LET by == Shift(region, source, changed)
  IN  /\ IsApart(region, source)
      /\ InRange(file, region.start_offset + by, region.end_offset + by)

RebaseRegion(file, region, source, changed) ==
  LET by == Shift(region, source, changed)
  IN  Region(file, region.start_offset + by, region.end_offset + by)

(* Fault: the target stays where the scan saw it. *)
TargetStays(file, target, source, changed) == target

RebasedTarget(file, target, source, changed) ==
  IF target = NoTarget THEN NoTarget ELSE RebaseRegion(file, target, source, changed)

(* Fault: a draft is bound again wherever its text is found. *)
CanRebaseByText(file, draft, source, changed) ==
  file # Unreadable /\ LocatesUnique(file, draft.old)

CanRebase(file, draft, source, changed) ==
  /\ file # Unreadable
  /\ CanRebaseRegion(file, draft.match_region, source, changed)
  /\ draft.target # NoTarget => CanRebaseRegion(file, draft.target, source, changed)
  /\ LocatesUnique(file, draft.old)
  /\ MatchRegion(file, draft.old) = RebaseRegion(file, draft.match_region, source, changed)
  /\ Touches(MatchRegion(file, draft.old),
             RebasedTarget(file, draft.target, source, changed))

(* A draft that cannot be bound again keeps its evidence and is stale.     *)
RebaseDraft(file, draft, source, changed) ==
  IF CanRebase(file, draft, source, changed)
    THEN [draft EXCEPT !.match_region = MatchRegion(file, draft.old),
                       !.target = RebasedTarget(file, @, source, changed)]
    ELSE [draft EXCEPT !.error = "STALE_DRAFT"]
=============================================================================
