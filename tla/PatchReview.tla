----------------------------- MODULE PatchReview -----------------------------
(***************************************************************************)
(* The review of proposed patches, from the scan that starts an audit to   *)
(* the file on disk: the workspace queue, the workflow that applies,       *)
(* discards, aborts and revises its current patch, and the engine's        *)
(* read - compare - replace, with edits made by others and with the        *)
(* program interrupted between any two steps.                              *)
(*                                                                         *)
(* One process works on the project.  It is sequential, so a phase names   *)
(* the handler that is running; what interleaves with it is the rest of    *)
(* the machine, which edits files, and the end of the process.             *)
(***************************************************************************)
EXTENDS PatchEngine, ReviewQueue

SeqExt == INSTANCE SequencesExt

CONSTANTS
  Path,         \* the files of the repository
  EditedFile,   \* what others may leave in a file
  FindingSpan,  \* the lengths, in bytes, of the regions the scanner reports
  NoDraft, NoApply,
  MaxItems, MaxAudits, MaxFaults, MaxRevised  \* bounds: length of the queue,
                \* audits, edits and interrupts, items of a queue that are revised

ASSUME FileAssumption == EditedFile \subseteq File /\ FindingSpan \subseteq Nat \ {0}

ASSUME BoundAssumption == {MaxItems, MaxAudits, MaxFaults, MaxRevised} \subseteq Nat

VARIABLES
  source,     \* the files
  scanned,    \* the files as the last scan read them
  workspace,  \* the queue, on disk
  phase,      \* the running handler; "prompt" when the user is asked
  draft,      \* the session's proposed or revised draft
  apply,      \* the application under way
  ledger,     \* history: for each item its origin, evidence, writes, revision
  touched,    \* history: files changed since the scan by other than a recorded apply
  audits, faults

vars == <<source, scanned, workspace, phase, draft, apply, ledger, touched, audits, faults>>

Init ==
  /\ source \in [Path -> InitialFile]
  /\ scanned = source
  /\ workspace = IdleWorkspace
  /\ phase = "prompt"
  /\ draft = NoDraft
  /\ apply = NoApply
  /\ ledger = <<>>
  /\ touched = {}
  /\ audits = 0
  /\ faults = 0

-----------------------------------------------------------------------------
(* An audit: a scan, then one attempt of the agent after another.          *)

(* The regions a scan can have reported in a file. *)
Targets(path) ==
  LET file == scanned[path]
  IN  IF file = Unreadable THEN {}
      ELSE UNION {{Region(file, start, start + span) : start \in 0..(Len(file) - span)} :
                    span \in FindingSpan}

(* A pending queue does not stop an audit: the router clears it for a new  *)
(* task, and the audit's own initialize_review overwrites it otherwise.    *)
BeginAudit ==
  /\ phase = "prompt"
  /\ audits < MaxAudits
  /\ phase' = "audit"
  /\ scanned' = source
  /\ workspace' = IdleWorkspace
  /\ draft' = NoDraft
  /\ ledger' = <<>>
  /\ touched' = {}
  /\ audits' = audits + 1
  /\ UNCHANGED <<source, apply, faults>>

(* An audit without findings proposes patches without a target and stops   *)
(* at its first; every patch of another audit has one.                     *)
FitsAudit(target) ==
  \/ workspace.items = <<>>
  \/ target # NoTarget /\ \A i \in 1..Len(workspace.items) :
                             workspace.items[i].draft.target # NoTarget

Propose(path, old, new, target) ==
  /\ phase = "audit"
  /\ Len(workspace.items) < MaxItems
  /\ FitsAudit(target)
  /\ draft' = IF CanDraft(source[path], old, target)
                THEN Draft(path, source[path], old, new, target)
                ELSE NoDraft
  /\ UNCHANGED <<source, scanned, workspace, phase, apply, ledger, touched, audits, faults>>

Evidence(d) ==
  IF d.target = NoTarget \/ scanned[d.path] = Unreadable
    THEN <<>> ELSE BytesAt(scanned[d.path], d.target)

CommitProposal ==
  /\ phase = "audit"
  /\ draft # NoDraft
  /\ workspace' = AddPatch(workspace, draft)
  /\ ledger' = Append(ledger, [origin |-> draft.match_region, evidence |-> Evidence(draft),
                               writes |-> 0, revised |-> FALSE])
  /\ draft' = NoDraft
  /\ UNCHANGED <<source, scanned, phase, apply, touched, audits, faults>>

EndAudit ==
  /\ phase = "audit"
  /\ phase' = "prompt"
  /\ draft' = NoDraft
  /\ IF HasPendingPatch(workspace)
       THEN UNCHANGED <<workspace, ledger>>
       ELSE workspace' = IdleWorkspace /\ ledger' = <<>>
  /\ UNCHANGED <<source, scanned, apply, touched, audits, faults>>

-----------------------------------------------------------------------------
(* The user decides about the current patch.                               *)

Discard ==
  /\ phase = "prompt"
  /\ HasPendingPatch(workspace)
  /\ workspace' = MarkCurrentPatch(workspace, "discarded")
  /\ UNCHANGED <<source, scanned, phase, draft, apply, ledger, touched, audits, faults>>

Abort ==
  /\ phase = "prompt"
  /\ workspace' = IdleWorkspace
  /\ ledger' = <<>>
  /\ UNCHANGED <<source, scanned, phase, draft, apply, touched, audits, faults>>

BeginRevise ==
  /\ phase = "prompt"
  /\ Cardinality({i \in 1..Len(ledger) : ledger[i].revised}) < MaxRevised
  /\ HasPendingPatch(workspace)
  /\ CurrentPatch(workspace).draft.error # "STALE_DRAFT"
  /\ phase' = "revise"
  /\ draft' = NoDraft
  /\ UNCHANGED <<source, scanned, workspace, apply, ledger, touched, audits, faults>>

(* The revision inherits the file and the target of the current patch; a   *)
(* call that fails leaves the session as it was.                           *)
Revise(old, new) ==
  LET current == CurrentPatch(workspace).draft
  IN  /\ phase = "revise"
      /\ CanDraft(source[current.path], old, current.target)
      /\ draft' = Draft(current.path, source[current.path], old, new, current.target)
      /\ UNCHANGED <<source, scanned, workspace, phase, apply, ledger, touched, audits, faults>>

ReplaceAllowed(current) ==
  /\ draft # NoDraft
  /\ current.error # "STALE_DRAFT"
  /\ draft.path = current.path
  /\ draft.target = current.target
  /\ Touches(draft.match_region, draft.target)

EndRevise ==
  /\ phase = "revise"
  /\ phase' = "prompt"
  /\ draft' = NoDraft
  /\ IF ReplaceAllowed(CurrentPatch(workspace).draft)
       THEN /\ workspace' = ReplaceCurrentPatch(workspace, draft)
            /\ ledger' = [ledger EXCEPT ![workspace.cursor].revised = TRUE]
       ELSE UNCHANGED <<workspace, ledger>>
  /\ UNCHANGED <<source, scanned, apply, touched, audits, faults>>
-----------------------------------------------------------------------------
(* apply: the engine reads and checks the file and prepares the new bytes  *)
(* beside it, compares the file with what it read, replaces it, and the    *)
(* workflow then records the item and rebases its siblings.  The target is *)
(* scanned again between the last two.                                     *)

(* Fault: a stale draft is tried like any other. *)
StageAnyDraft ==
  LET current == CurrentPatch(workspace).draft
  IN  /\ phase = "prompt"
      /\ HasPendingPatch(workspace)
      /\ ApplyChecks(source[current.path], current)
      /\ phase' = "apply"
      /\ apply' = [step |-> "staged", draft |-> current,
                   read |-> source[current.path], raced |-> FALSE]
      /\ UNCHANGED <<source, scanned, workspace, draft, ledger, touched, audits, faults>>

(* A refused application (stale, or a failed check) changes nothing.       *)
StageApply ==
  LET current == CurrentPatch(workspace).draft
  IN  /\ phase = "prompt"
      /\ HasPendingPatch(workspace)
      /\ current.error # "STALE_DRAFT"
      /\ ApplyChecks(source[current.path], current)
      /\ phase' = "apply"
      /\ apply' = [step |-> "staged", draft |-> current,
                   read |-> source[current.path], raced |-> FALSE]
      /\ UNCHANGED <<source, scanned, workspace, draft, ledger, touched, audits, faults>>

(* Fault: the file is not compared with what was read. *)
CompareNothing ==
  /\ phase = "apply"
  /\ apply.step = "staged"
  /\ apply' = [apply EXCEPT !.step = "compared"]
  /\ UNCHANGED <<source, scanned, workspace, phase, draft, ledger, touched, audits, faults>>

CompareSource ==
  /\ phase = "apply"
  /\ apply.step = "staged"
  /\ source[apply.draft.path] = apply.read
  /\ apply' = [apply EXCEPT !.step = "compared"]
  /\ UNCHANGED <<source, scanned, workspace, phase, draft, ledger, touched, audits, faults>>

(* Fault: a failure after the replacement is reported as a refusal. *)
RejectAnyTime ==
  /\ phase = "apply"
  /\ phase' = "prompt"
  /\ apply' = NoApply
  /\ UNCHANGED <<source, scanned, workspace, draft, ledger, touched, audits, faults>>

(* Fault: what was staged is left behind. *)
RejectLeavesStaged ==
  /\ phase = "apply"
  /\ apply.step \in {"staged", "compared"}
  /\ phase' = "prompt"
  /\ UNCHANGED <<source, scanned, workspace, draft, apply, ledger, touched, audits, faults>>

(* The comparison differs, or writing or replacing failed. *)
RejectApply ==
  /\ phase = "apply"
  /\ apply.step \in {"staged", "compared"}
  /\ phase' = "prompt"
  /\ apply' = NoApply
  /\ UNCHANGED <<source, scanned, workspace, draft, ledger, touched, audits, faults>>

ReplaceSource ==
  /\ phase = "apply"
  /\ apply.step = "compared"
  /\ source' = [source EXCEPT ![apply.draft.path] = FinalBytes(apply.read, apply.draft)]
  /\ apply' = [apply EXCEPT !.step = "replaced"]
  /\ ledger' = [ledger EXCEPT ![workspace.cursor].writes = @ + 1]
  /\ UNCHANGED <<scanned, workspace, phase, draft, touched, audits, faults>>

(* Fault: the siblings keep the places they were drafted at. *)
RebaseNothing(w, file, path, from, to) == w

(* Every pending patch of the file that still has a binding is bound to    *)
(* the file as it is now, or marked stale.                                 *)
RebasePending(w, file, path, from, to) ==
  [w EXCEPT !.items = [i \in 1..Len(w.items) |->
     LET item == w.items[i]
     IN  IF IsPending(item) /\ item.draft.path = path /\ item.draft.error # "STALE_DRAFT"
           THEN [item EXCEPT !.draft = RebaseDraft(file, @, from, to)]
           ELSE item]]

RecordApply ==
  /\ phase = "apply"
  /\ apply.step = "replaced"
  /\ workspace' = RebasePending(MarkCurrentPatch(workspace, "applied"),
                                source[apply.draft.path], apply.draft.path,
                                apply.draft.match_region,
                                ChangedRegion(apply.read, apply.draft))
  /\ phase' = "prompt"
  /\ apply' = NoApply
  /\ UNCHANGED <<source, scanned, draft, ledger, touched, audits, faults>>

-----------------------------------------------------------------------------
(* An editor, a build or another program writes a file.                    *)
ExternalEdit(path, file) ==
  /\ faults < MaxFaults
  /\ file # source[path]
  /\ source' = [source EXCEPT ![path] = file]
  /\ touched' = touched \cup {path}
  /\ apply' = IF phase = "apply" /\ apply.step = "compared" /\ apply.draft.path = path
                THEN [apply EXCEPT !.raced = TRUE] ELSE apply
  /\ faults' = faults + 1
  /\ UNCHANGED <<scanned, workspace, phase, draft, ledger, audits>>

(* The running handler never finishes: the process is interrupted or dies  *)
(* and is started again, or the workspace cannot be saved.  What is on     *)
(* disk stays.                                                             *)
Interrupt ==
  /\ phase # "prompt"
  /\ faults < MaxFaults
  /\ phase' = "prompt"
  /\ draft' = NoDraft
  /\ apply' = NoApply
  /\ touched' = IF phase = "apply" /\ apply.step = "replaced"
                  THEN touched \cup {apply.draft.path} ELSE touched
  /\ faults' = faults + 1
  /\ UNCHANGED <<source, scanned, workspace, ledger, audits>>

ProposeSome ==
  \E path \in Path, old \in OldString, new \in NewString :
    \E target \in Targets(path) \cup {NoTarget} : Propose(path, old, new, target)

ReviseSome == \E old \in OldString, new \in NewString : Revise(old, new)

ExternalEditSome == \E path \in Path, file \in EditedFile : ExternalEdit(path, file)

Next ==
  \/ BeginAudit \/ ProposeSome \/ CommitProposal \/ EndAudit
  \/ Discard \/ Abort \/ BeginRevise \/ ReviseSome \/ EndRevise
  \/ StageApply \/ CompareSource \/ RejectApply \/ ReplaceSource \/ RecordApply
  \/ ExternalEditSome \/ Interrupt

Spec == Init /\ [][Next]_vars
-----------------------------------------------------------------------------
(* Type invariant: the shape of every variable, with the history in step   *)
(* with the queue (ReviewWorkspace, PatchDraftSnapshot, AgentSession).     *)
DraftType ==
  [path : Path, old : OldString, new : NewString, target : RegionType \cup {NoTarget},
   match_region : RegionType, error : {"none", "STALE_DRAFT"}]
ItemType == [status : {"pending", "applied", "discarded"}, draft : DraftType]
WorkspaceType == [mode : {"idle", "reviewing"}, items : Seq(ItemType), cursor : Nat]
ApplyType ==
  [step : {"staged", "compared", "replaced"}, draft : DraftType, read : Seq(Byte),
   raced : BOOLEAN]
LedgerType ==
  [origin : RegionType, evidence : Seq(Byte), writes : Nat, revised : BOOLEAN]

TypeOK ==
  /\ source \in [Path -> File] /\ scanned \in [Path -> File]
  /\ workspace \in WorkspaceType
  /\ workspace.cursor \in 1..(Len(workspace.items) + 1)
  /\ phase \in {"prompt", "audit", "revise", "apply"}
  /\ draft \in DraftType \cup {NoDraft}
  /\ IF phase = "apply" THEN apply \in ApplyType ELSE apply = NoApply
  /\ ledger \in Seq(LedgerType) /\ Len(ledger) = Len(workspace.items)
  /\ touched \subseteq Path
  /\ audits \in Nat /\ faults \in Nat

(* The cursor splits the queue: what is before it is decided, what is from *)
(* it on is pending, and the workspace is idle exactly when nothing is     *)
(* left (current_patch and has_pending_patch look only at the cursor, so   *)
(* a pending patch elsewhere would be lost to the user).                   *)
CursorSplitsQueue ==
  /\ \A i \in 1..Len(workspace.items) : IsPending(workspace.items[i]) <=> i >= workspace.cursor
  /\ (workspace.mode = "idle") <=> (workspace.cursor = Len(workspace.items) + 1)

(* The items whose file nobody has changed behind the workspace's back.    *)
Undisturbed(i) ==
  LET path == workspace.items[i].draft.path
  IN  /\ path \notin touched
      /\ ~(phase = "apply" /\ apply.step = "replaced" /\ apply.draft.path = path)

IsStale(i) == workspace.items[i].draft.error = "STALE_DRAFT"

Bound == {i \in 1..Len(workspace.items) :
            IsPending(workspace.items[i]) /\ ~IsStale(i) /\ Undisturbed(i)}

(* A pending patch that is not marked stale can be applied as it was shown *)
(* as long as nobody else writes its file: the match region that earlier   *)
(* applications rebased is where apply_patch finds old_string.             *)
PendingDraftsApply ==
  \A i \in Bound :
    ApplyChecks(source[workspace.items[i].draft.path], workspace.items[i].draft)

(* The target region of a pending patch still covers the very bytes the    *)
(* scanner reported, however often other patches of the file moved them.   *)
TargetTracksEvidence ==
  \A i \in Bound :
    LET d == workspace.items[i].draft
    IN  d.target # NoTarget => BytesAt(source[d.path], d.target) = ledger[i].evidence

(* The queue tells the truth about the files: a patch is recorded applied  *)
(* only if the engine wrote it, it is written at most once, and a patch    *)
(* not recorded applied is not in the file, unless an interrupt fell       *)
(* between the replacement and the record (the file is touched then).      *)
AppliedIffWritten ==
  \A i \in 1..Len(workspace.items) :
    /\ workspace.items[i].status = "applied" => ledger[i].writes > 0
    /\ Undisturbed(i) =>
         ledger[i].writes = IF workspace.items[i].status = "applied" THEN 1 ELSE 0

(* A draft that lost its binding is never written to its file, whatever    *)
(* the faults (spec: a STALE_DRAFT is neither applied nor revised).        *)
StaleNeverWritten ==
  \A i \in 1..Len(workspace.items) :
    IsStale(i) => /\ ledger[i].writes = 0 /\ ~ledger[i].revised
                  /\ workspace.items[i].status # "applied"

(* What a file should hold: the scanned bytes with every applied patch of  *)
(* it put in the place where it was drafted, its lines ended as they may   *)
(* be.                                                                     *)
AppliedOn(path) ==
  {i \in 1..Len(workspace.items) :
     workspace.items[i].status = "applied" /\ workspace.items[i].draft.path = path}

Covering(path, k) ==
  {i \in AppliedOn(path) :
     ledger[i].origin.start_offset < k /\ k <= ledger[i].origin.end_offset}

PatchAt(path, k) == CHOOSE i \in Covering(path, k) : TRUE

Piece(path, ending, k) ==
  LET i == PatchAt(path, k)
  IN  IF Covering(path, k) = {} THEN <<scanned[path][k]>>
      ELSE IF k = ledger[i].origin.start_offset + 1
        THEN RestoreNewlines(Normalize(workspace.items[i].draft.new), ending[i])
      ELSE <<>>

AllAtOnce(path, ending) ==
  SeqExt!FlattenSeq([k \in 1..Len(scanned[path]) |-> Piece(path, ending, k)])

(* Patches applied one after the other, each rebased past the ones before, *)
(* never overlap, and leave the bytes that applying all of them to the     *)
(* scanned file at once leaves.  (Only how the lines of a patch end is     *)
(* read from the file as the patches before it left it.)                   *)
OneByOneIsAllAtOnce ==
  \A path \in Path :
    ( /\ workspace.items # <<>>
      /\ scanned[path] \notin {Unreadable, <<>>}
      /\ path \notin touched
      /\ ~(phase = "apply" /\ apply.step = "replaced")
      /\ \A i \in AppliedOn(path) : ~ledger[i].revised )
    =>
    /\ \A i, j \in AppliedOn(path) : i # j => IsApart(ledger[i].origin, ledger[j].origin)
    /\ \E ending \in [AppliedOn(path) -> LineEnding] : source[path] = AllAtOnce(path, ending)

IsReplaceStep ==
  /\ phase = "apply" /\ apply.step = "compared"
  /\ phase' = "apply" /\ apply'.step = "replaced"

(* The bytes that were in the file before and after the match region are   *)
(* in it still, and what was between them, read as text, goes from         *)
(* old_string to new_string.                                               *)
ReplacedAsReviewed ==
  LET d   == CurrentPatch(workspace).draft
      was == source[d.path]
      now == source'[d.path]
      before == SubSeq(was, 1, d.match_region.start_offset)
      after  == SubSeq(was, d.match_region.end_offset + 1, Len(was))
      inserted == SubSeq(now, Len(before) + 1, Len(now) - Len(after))
  IN  /\ SubSeq(now, 1, Len(before)) = before
      /\ SubSeq(now, Len(now) - Len(after) + 1, Len(now)) = after
      /\ Normalize(BytesAt(was, d.match_region)) = Normalize(d.old)
      /\ Normalize(inserted) = Normalize(d.new)

(* An application replaces exactly what was reviewed.  (Only a write after *)
(* the final comparison is exempt, as in the spec.)                        *)
ReplacesOnlyTheReviewedText ==
  [][ IsReplaceStep /\ ~apply.raced => ReplacedAsReviewed ]_vars

(* What someone else wrote before the final comparison is never            *)
(* overwritten by an application that had read the file before.            *)
SeenEditSurvives ==
  [][ IsReplaceStep /\ ~apply.raced => source[apply.draft.path] = apply.read ]_vars
=============================================================================
