------------------------------ MODULE CodeAudit ------------------------------
(***************************************************************************)
(* One audit request (cli/workflows/code_audit.py): the findings of a scan *)
(* are given to the agent one at a time, the agent's propose_patch calls   *)
(* leave a draft in the session, the backlog (core/review/backlog.py)      *)
(* infers from the tool messages what became of the attempt, and the       *)
(* workflow queues the draft, retries the finding once, or gives it up.    *)
(* Without findings every file gets one attempt and the first draft is     *)
(* queued.                                                                 *)
(*                                                                         *)
(* What a draft replaces and by what is left to PatchReview: here a draft  *)
(* is the finding it is bound to.                                          *)
(***************************************************************************)
EXTENDS Integers, Sequences, FiniteSets

CONSTANTS
  MaxFindings,  \* bound: findings of one scan
  Files,        \* bound: focus files of an audit without findings
  BatchLimit,   \* GlobalConfig.audit_batch_limit
  MaxCalls,     \* bound: propose_patch calls in one attempt
  NoFinding,    \* a draft or a call that names no finding
  NoDraft

ASSUME AuditAssumption ==
  /\ {MaxFindings, Files, MaxCalls} \subseteq Nat
  /\ BatchLimit \in Nat \ {0}

VARIABLES
  phase,      \* "prompt", "backlog" (between attempts), "attempt", "review"
              \* (an attempt on a file of an audit without findings)
  backlog,    \* the findings, in the order of the scan: status and retry count
  processed,  \* findings taken from the backlog in this request
  current,    \* the finding or file of the running attempt
  retrying,   \* the attempt is the second for its finding
  messages,   \* the propose_patch messages of the attempt
  draft,      \* session.proposed_patch_draft
  queue       \* the findings of the queued patches

vars == <<phase, backlog, processed, current, retrying, messages, draft, queue>>

Findings == 1..Len(backlog)

Init ==
  /\ phase = "prompt"
  /\ backlog = <<>>
  /\ processed = 0
  /\ current = 0
  /\ retrying = FALSE
  /\ messages = <<>>
  /\ draft = NoDraft
  /\ queue = <<>>

-----------------------------------------------------------------------------
(* A scan that fails raises before the workspace is touched.               *)
BeginAudit(count) ==
  /\ phase = "prompt"
  /\ backlog' = [i \in 1..count |-> [status |-> "pending", retry_count |-> 0]]
  /\ processed' = 0
  /\ queue' = <<>>
  /\ messages' = <<>>
  /\ draft' = NoDraft
  /\ retrying' = FALSE
  /\ current' = IF count = 0 THEN 1 ELSE 0
  /\ phase' = IF count > 0 THEN "backlog" ELSE IF Files > 0 THEN "review" ELSE "prompt"

PendingFindings == {i \in Findings : backlog[i].status = "pending"}

IsCurrent(i) == i \in PendingFindings /\ \A j \in PendingFindings : i <= j

(* The next finding of the backlog, with a clean session. *)
BeginAttempt ==
  /\ phase = "backlog"
  /\ processed < BatchLimit
  /\ \E i \in Findings : IsCurrent(i) /\ current' = i
  /\ retrying' = FALSE
  /\ messages' = <<>>
  /\ draft' = NoDraft
  /\ phase' = "attempt"
  /\ UNCHANGED <<backlog, processed, queue>>

(* The backlog is empty, or this request has had its share of it.          *)
EndAudit ==
  /\ phase = "backlog"
  /\ PendingFindings = {} \/ processed >= BatchLimit
  /\ phase' = "prompt"
  /\ current' = 0
  /\ UNCHANGED <<backlog, processed, retrying, messages, draft, queue>>

-----------------------------------------------------------------------------
(* propose_patch: what the message says of a call, and what the call does  *)
(* to the session.  A message tells the finding the call named, whether    *)
(* the file was written as the finding writes it (the backlog compares the *)
(* spellings, the tool the files), and the outcome.                        *)

Drafted == {"ok", "invalid", "unavailable"}   \* the status of a draft
Failed  == {"OLD_STRING_NOT_FOUND", "OTHER"}  \* an error with a payload

CanCall == phase \in {"attempt", "review"} /\ Len(messages) < MaxCalls

Message(finding, spelled, outcome) ==
  [finding |-> finding, spelled |-> spelled, outcome |-> outcome]

ProposeDrafts(finding, spelled, outcome) ==
  /\ CanCall
  /\ draft' = finding
  /\ messages' = Append(messages, Message(finding, spelled, outcome))
  /\ UNCHANGED <<phase, backlog, processed, current, retrying, queue>>

ProposeFails(finding, spelled, outcome) ==
  /\ CanCall
  /\ draft' = NoDraft
  /\ messages' = Append(messages, Message(finding, spelled, outcome))
  /\ UNCHANGED <<phase, backlog, processed, current, retrying, queue>>

(* Bad arguments or an exception: an error without a payload, and the      *)
(* session as it was.                                                      *)
ProposeRaises ==
  /\ CanCall
  /\ messages' = Append(messages, Message(NoFinding, TRUE, "UNKNOWN"))
  /\ UNCHANGED <<phase, backlog, processed, current, retrying, draft, queue>>

-----------------------------------------------------------------------------
(* infer_attempt_decision: the last message about the finding decides.     *)
About(message) ==
  /\ message.finding \in {NoFinding, current}
  /\ message.spelled

Relevant == {k \in 1..Len(messages) : About(messages[k])}

Decision ==
  IF Relevant = {} THEN "no_patch"
  ELSE LET last == messages[CHOOSE k \in Relevant : \A j \in Relevant : j <= k]
       IN  IF last.outcome \in {"ok", "invalid"} THEN "patch_ready"
           ELSE IF last.outcome = "OLD_STRING_NOT_FOUND" THEN "retryable_error"
           ELSE "no_patch"

Leave(status) ==
  /\ backlog' = [backlog EXCEPT ![current].status = status]
  /\ processed' = processed + 1
  /\ phase' = "backlog"
  /\ current' = 0
  /\ retrying' = FALSE
  /\ messages' = <<>>
  /\ draft' = NoDraft

(* Fault: any draft of the attempt is queued. *)
CommitAnyDraft ==
  /\ phase = "attempt"
  /\ Decision = "patch_ready"
  /\ draft # NoDraft
  /\ queue' = Append(queue, draft)
  /\ Leave("patch_ready")

(* Fault: the patch takes the place of the queue. *)
CommitAlone ==
  /\ phase = "attempt"
  /\ Decision = "patch_ready"
  /\ draft = current
  /\ queue' = <<draft>>
  /\ Leave("patch_ready")

(* The draft is queued if it is still there and bound to this finding.     *)
CommitPatch ==
  /\ phase = "attempt"
  /\ Decision = "patch_ready"
  /\ draft = current
  /\ queue' = Append(queue, draft)
  /\ Leave("patch_ready")

CanRetry ==
  /\ Decision = "retryable_error"
  /\ ~retrying
  /\ backlog[current].retry_count < 1

(* Fault: the retry is not recorded. *)
RetryUncounted ==
  /\ phase = "attempt"
  /\ CanRetry
  /\ messages' = <<>>
  /\ draft' = NoDraft
  /\ UNCHANGED <<phase, backlog, processed, current, retrying, queue>>

(* Fault: the session is not cleaned for the second attempt. *)
RetryKeepsDraft ==
  /\ phase = "attempt"
  /\ CanRetry
  /\ backlog' = [backlog EXCEPT ![current].retry_count = @ + 1]
  /\ retrying' = TRUE
  /\ messages' = <<>>
  /\ UNCHANGED <<phase, processed, current, draft, queue>>

RetryFinding ==
  /\ phase = "attempt"
  /\ CanRetry
  /\ backlog' = [backlog EXCEPT ![current].retry_count = @ + 1]
  /\ retrying' = TRUE
  /\ messages' = <<>>
  /\ draft' = NoDraft
  /\ UNCHANGED <<phase, processed, current, queue>>

GiveUp ==
  /\ phase = "attempt"
  /\ Decision = "patch_ready" => draft # current
  /\ ~CanRetry
  /\ UNCHANGED queue
  /\ Leave("failed")

(* The agent raises: the session is cleaned and the request ends; what was *)
(* queued before stays queued.                                             *)
AttemptRaises ==
  /\ phase \in {"attempt", "review"}
  /\ draft' = NoDraft
  /\ phase' = "prompt"
  /\ messages' = <<>>
  /\ current' = 0
  /\ UNCHANGED <<backlog, processed, retrying, queue>>

-----------------------------------------------------------------------------
(* No findings: the first file whose attempt leaves a draft ends the audit.*)
CommitReview ==
  /\ phase = "review"
  /\ draft # NoDraft
  /\ queue' = Append(queue, draft)
  /\ draft' = NoDraft
  /\ phase' = "prompt"
  /\ messages' = <<>>
  /\ current' = 0
  /\ UNCHANGED <<backlog, processed, retrying>>

NextFile ==
  /\ phase = "review"
  /\ draft = NoDraft
  /\ messages' = <<>>
  /\ current' = IF current < Files THEN current + 1 ELSE 0
  /\ phase' = IF current < Files THEN "review" ELSE "prompt"
  /\ UNCHANGED <<backlog, processed, retrying, draft, queue>>

-----------------------------------------------------------------------------
(* The findings a call can name with success: those of the scan.           *)
Propose ==
  \/ ProposeRaises
  \/ \E spelled \in BOOLEAN :
       \/ \E finding \in Findings \cup {NoFinding}, outcome \in Drafted :
            ProposeDrafts(finding, spelled, outcome)
       \/ \E finding \in Findings \cup {NoFinding}, outcome \in Failed :
            ProposeFails(finding, spelled, outcome)

Begin == \E count \in 0..MaxFindings : BeginAudit(count)

Work ==
  \/ BeginAttempt \/ EndAudit
  \/ Propose
  \/ CommitPatch \/ RetryFinding \/ GiveUp \/ AttemptRaises
  \/ CommitReview \/ NextFile

Next == Begin \/ Work

(* The user need not ask for an audit, but a request that runs goes on:    *)
(* the loop is the program's own, an attempt ends after a bounded number   *)
(* of steps, and a call of the model returns or times out.                 *)
Spec == Init /\ [][Next]_vars /\ WF_vars(Work)
-----------------------------------------------------------------------------
Ready   == {i \in Findings : backlog[i].status = "patch_ready"}
Decided == {i \in Findings : backlog[i].status # "pending"}

(* What the summary of the request counts as patches to review is what the *)
(* user finds in the queue: every finding marked patch_ready has exactly   *)
(* one queued patch, bound to it, in the order of the scan, and no other   *)
(* finding has one, whichever findings the agent's calls named.            *)
QueueIsTheReadyFindings ==
  backlog # <<>> =>
    /\ {queue[k] : k \in 1..Len(queue)} = Ready
    /\ \A k, l \in 1..Len(queue) : k < l => queue[k] < queue[l]

(* A draft of an earlier attempt is never there to be committed by a later *)
(* one: while the session holds a draft, a call of the running attempt     *)
(* made it, and between attempts it holds none.                            *)
DraftIsOfThisAttempt ==
  draft # NoDraft =>
    /\ phase \in {"attempt", "review"}
    /\ \E k \in 1..Len(messages) :
         messages[k].finding = draft /\ messages[k].outcome \in Drafted

(* A finding that was decided, and a patch that was queued, stay as they   *)
(* are until the next request; one that was retried is not tried a third   *)
(* time, only decided.                                                     *)
DecisionsAreFinal ==
  [][ phase # "prompt" =>
        /\ \A i \in Decided : backlog'[i] = backlog[i]
        /\ \A i \in PendingFindings :
             backlog[i].retry_count > 0 => backlog'[i] = backlog[i] \/ i \in Decided'
        /\ SubSeq(queue', 1, Len(queue)) = queue ]_vars

(* A request for an audit comes to an end, however often the agent drafts, *)
(* fails and is retried (the loop takes the first pending finding, so one  *)
(* that is not decided would be taken for ever).                           *)
RequestEnds == phase # "prompt" ~> phase = "prompt"
=============================================================================
