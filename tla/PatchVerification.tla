-------------------------- MODULE PatchVerification --------------------------
(***************************************************************************)
(* What happens to one patch between its draft and the verdict about its   *)
(* finding: the engine applies it, the scanner reads the new file, and     *)
(* verify_finding_resolved (core/patching/verification.py) decides from    *)
(* the regions the scanner reports for the target's rule.                  *)
(***************************************************************************)
EXTENDS PatchEngine

CONSTANTS
  ScanFailed,  \* the scanner is missing, raises, or reports an error
  Nothing      \* not there yet

VARIABLES
  content,   \* the file that the finding is in
  original,  \* history: the file before the patch was applied
  patch,     \* the draft
  result,    \* source_region and changed_region of a successful apply
  report,    \* the regions of the target's rule in the scanned file
  outcome

verificationVars == <<content, original, patch, result, report, outcome>>

Applied == [source : RegionType, changed : RegionType]
Judged  == {"UNVERIFIED", "STILL_PRESENT", "RESOLVED"}

ASSUME NothingAssumption == Nothing \notin Applied \cup Judged

(* The regions a scan may report: none is empty (results.py rejects it).   *)
Regions(raw) ==
  UNION {{Region(raw, start, end) : end \in (start + 1)..Len(raw)} : start \in 0..Len(raw)}

VerificationInit ==
  /\ content \in InitialFile
  /\ original = content
  /\ \E old \in OldString, new \in NewString, target \in Regions(content) \cup {NoTarget} :
       /\ CanDraft(content, old, target)
       /\ patch = Draft("f", content, old, new, target)
  /\ result = Nothing
  /\ report = Nothing
  /\ outcome = Nothing

(* Fault: the region that was replaced is reported where it is now. *)
ApplyReportsChanged ==
  /\ result = Nothing
  /\ ApplyChecks(content, patch)
  /\ content' = FinalBytes(content, patch)
  /\ result' = [source |-> ChangedRegion(content, patch), changed |-> ChangedRegion(content, patch)]
  /\ UNCHANGED <<original, patch, report, outcome>>

ApplyPatch ==
  /\ result = Nothing
  /\ ApplyChecks(content, patch)
  /\ content' = FinalBytes(content, patch)
  /\ result' = [source |-> patch.match_region, changed |-> ChangedRegion(content, patch)]
  /\ UNCHANGED <<original, patch, report, outcome>>

-----------------------------------------------------------------------------
(* The span, in the new file, that stands for the target.                  *)
FootprintStart(target, from, to) ==
  IF target.start_offset < from.start_offset THEN target.start_offset ELSE to.start_offset

(* Fault: the end of the target does not move with the replacement. *)
FootprintEndStays(target, from, to) ==
  IF target.end_offset > from.end_offset THEN target.end_offset ELSE to.end_offset

FootprintEnd(target, from, to) ==
  IF target.end_offset > from.end_offset
    THEN target.end_offset + ByteDelta(from, to) ELSE to.end_offset

Footprint(target, from, to) ==
  [start_offset |-> FootprintStart(target, from, to),
   end_offset |-> FootprintEnd(target, from, to)]

(* The evidence of the application fits the patch.                         *)
IsEvidence(from, to) ==
  /\ from = patch.match_region
  /\ to.start_offset = from.start_offset
  /\ to.from = from.from
  /\ Intersects(from, patch.target)
  /\ FootprintStart(patch.target, from, to) <= FootprintEnd(patch.target, from, to)

Verdict(scan) ==
  IF patch.target = NoTarget \/ scan = ScanFailed THEN "UNVERIFIED"
  ELSE IF ~IsEvidence(result.source, result.changed) THEN "UNVERIFIED"
  ELSE IF \E r \in scan :
            Intersects(r, Footprint(patch.target, result.source, result.changed))
    THEN "STILL_PRESENT"
  ELSE "RESOLVED"

VerifyFinding(scan) ==
  /\ result # Nothing
  /\ outcome = Nothing
  /\ report' = scan
  /\ outcome' = Verdict(scan)
  /\ UNCHANGED <<content, original, patch, result>>

(* Bound: a report names at most two regions. *)
Reports == {{}} \cup {{r, s} : r, s \in Regions(content)}

Verify == \E scan \in Reports \cup {ScanFailed} : VerifyFinding(scan)

VerificationNext == ApplyPatch \/ Verify

VerificationSpec == VerificationInit /\ [][VerificationNext]_verificationVars

-----------------------------------------------------------------------------
(* The bytes of the new file that came from the target or replaced part of *)
(* it, byte by byte: each byte of the target that the patch did not touch, *)
(* where it is now, and everything the patch wrote.                        *)
TargetBytes ==
  LET at == patch.match_region
      grown == Len(content) - Len(original)
      kept == {k \in 1..Len(original) :
                 /\ patch.target.start_offset < k /\ k <= patch.target.end_offset
                 /\ k <= at.start_offset \/ k > at.end_offset}
  IN  {IF k <= at.start_offset THEN k ELSE k + grown : k \in kept}
        \cup (at.start_offset + 1)..(at.end_offset + grown)

ReportedBytes(r) == (r.start_offset + 1)..r.end_offset

(* The verdict is right about every byte: RESOLVED is said only when no    *)
(* report of the rule touches a surviving or a new byte of the target, and *)
(* STILL_PRESENT only when one does.  If nothing is left of the target, a  *)
(* report counts when it covers or begins at the point of the deletion.    *)
VerdictIsAboutTheTarget ==
  outcome \in {"RESOLVED", "STILL_PRESENT"} =>
    LET about == IF TargetBytes = {} THEN {patch.match_region.start_offset + 1}
                 ELSE TargetBytes
    IN  (outcome = "STILL_PRESENT") <=> \E r \in report : ReportedBytes(r) \cap about # {}

(* A patch that was applied to a finding, and whose file could be scanned  *)
(* again, always gets a verdict: the regions apply_patch returns are the   *)
(* ones the verifier asks for.                                             *)
AppliedPatchIsJudged ==
  outcome = "UNVERIFIED" => patch.target = NoTarget \/ report = ScanFailed
=============================================================================
