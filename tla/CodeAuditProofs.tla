--------------------------- MODULE CodeAuditProofs ---------------------------
(***************************************************************************)
(* The queue of an audit holds the patches that the backlog counts, for    *)
(* any number of findings and of calls, whatever the calls name.           *)
(*                                                                         *)
(* What makes an appended patch the last in the order of the scan is that  *)
(* the backlog is decided from its front (Front), and that the finding of  *)
(* an attempt is the first of the rest (Attempts).                         *)
(***************************************************************************)
EXTENDS CodeAudit, TLAPS

-----------------------------------------------------------------------------
(* The inductive invariant.                                                *)

Row == [status : {"pending", "patch_ready", "failed"}, retry_count : Nat]
Drafts == Nat \cup {NoFinding, NoDraft}
Calls == [finding : Nat \cup {NoFinding}, spelled : BOOLEAN,
          outcome : Drafted \cup Failed \cup {"UNKNOWN"}]

Types ==
  /\ phase \in {"prompt", "backlog", "attempt", "review"}
  /\ backlog \in Seq(Row)
  /\ current \in Nat
  /\ messages \in Seq(Calls)
  /\ draft \in Drafts
  /\ queue \in Seq(Drafts)

(* The attempt is about the first finding that is not decided.             *)
Attempts ==
  /\ phase = "attempt" => IsCurrent(current)
  /\ phase = "review" => backlog = << >>

Front == \A i, j \in Findings : i < j /\ j \in Decided => i \in Decided

IInv == Types /\ Attempts /\ Front /\ QueueIsTheReadyFindings /\ DraftIsOfThisAttempt

-----------------------------------------------------------------------------
(* Every step keeps the invariant.                                         *)

LEMMA InitInv == Init => IInv
BY DEF Init, IInv, Types, Attempts, Front, QueueIsTheReadyFindings, DraftIsOfThisAttempt,
       Findings, Decided, Drafts

LEMMA TypesStep == Types /\ Attempts /\ [Next]_vars => Types'
<1> SUFFICES ASSUME Types, Attempts, [Next]_vars PROVE Types'
  OBVIOUS
<1>0. \A i \in Findings : backlog[i] \in Row
  BY DEF Types, Findings
<1> USE AuditAssumption DEF Types, Row, Drafts, Calls, Drafted, Failed, Message, Findings
<1>1. CASE Begin
  BY <1>1 DEF Begin, BeginAudit
<1>2. CASE BeginAttempt
  BY <1>2 DEF BeginAttempt
<1>3. CASE EndAudit
  BY <1>3 DEF EndAudit
<1>4. CASE Propose
  <2>1. ASSUME NEW m \in Calls, NEW d \in Drafts, messages' = Append(messages, m), draft' = d,
               UNCHANGED <<phase, backlog, current, queue>>
        PROVE  Types'
    BY <2>1
  <2>2. CASE ProposeRaises
    BY <2>1, <2>2 DEF ProposeRaises
  <2>3. ASSUME NEW finding \in Findings \cup {NoFinding}, NEW spelled \in BOOLEAN,
               NEW outcome \in Drafted \cup Failed
        PROVE  /\ finding \in Drafts /\ NoDraft \in Drafts
               /\ Message(finding, spelled, outcome) \in Calls
    OBVIOUS
  <2>4. ASSUME NEW finding \in Findings \cup {NoFinding}, NEW spelled \in BOOLEAN,
               NEW outcome \in Drafted, ProposeDrafts(finding, spelled, outcome)
        PROVE  Types'
    <3>1. messages' = Append(messages, Message(finding, spelled, outcome)) /\ draft' = finding
      BY <2>4 DEF ProposeDrafts
    <3> QED
      BY <2>1, <2>3, <2>4, <3>1 DEF ProposeDrafts
  <2>5. ASSUME NEW finding \in Findings \cup {NoFinding}, NEW spelled \in BOOLEAN,
               NEW outcome \in Failed, ProposeFails(finding, spelled, outcome)
        PROVE  Types'
    <3>1. messages' = Append(messages, Message(finding, spelled, outcome)) /\ draft' = NoDraft
      BY <2>5 DEF ProposeFails
    <3> QED
      BY <2>1, <2>3, <2>5, <3>1 DEF ProposeFails
  <2> QED
    BY <1>4, <2>2, <2>4, <2>5 DEF Propose
<1>5. ASSUME phase = "attempt",
             NEW i \in Findings, NEW row \in Row, backlog' = [backlog EXCEPT ![i] = row]
      PROVE  backlog' \in Seq(Row)
  BY <1>5
<1>6. ASSUME NEW status \in {"patch_ready", "failed"}, phase = "attempt", Leave(status),
             queue' \in Seq(Drafts)
      PROVE  Types'
  <2>1. current \in Findings
    BY <1>6 DEF Attempts, IsCurrent, PendingFindings
  <2>2. [backlog[current] EXCEPT !.status = status] \in Row
    <3>1. backlog[current] \in Row
      BY <1>0, <2>1
    <3> QED
      BY ONLY <1>6, <3>1 DEF Row
  <2>3. backlog' \in Seq(Row)
    BY <1>5, <1>6, <2>1, <2>2 DEF Leave
  <2> QED
    BY <1>6, <2>3 DEF Leave
<1>7. CASE CommitPatch
  BY <1>6, <1>7 DEF CommitPatch
<1>8. CASE RetryFinding
  <2>1. current \in Findings
    BY <1>8 DEF RetryFinding, Attempts, IsCurrent, PendingFindings
  <2>2. [backlog[current] EXCEPT !.retry_count = @ + 1] \in Row
    <3>1. backlog[current] \in Row
      BY <1>0, <2>1
    <3> QED
      BY ONLY <3>1 DEF Row
  <2>3. backlog' \in Seq(Row)
    BY <1>5, <1>8, <2>1, <2>2 DEF RetryFinding
  <2> QED
    BY <1>8, <2>3 DEF RetryFinding
<1>9. CASE GiveUp
  BY <1>6, <1>9 DEF GiveUp
<1>10. CASE AttemptRaises
  BY <1>10 DEF AttemptRaises
<1>11. CASE CommitReview
  BY <1>11 DEF CommitReview
<1>12. CASE NextFile
  BY <1>12 DEF NextFile
<1>13. CASE UNCHANGED vars
  BY <1>13 DEF vars
<1> QED
  BY <1>1, <1>2, <1>3, <1>4, <1>7, <1>8, <1>9, <1>10, <1>11, <1>12, <1>13 DEF Next, Work

(* What a decision about the finding of the attempt changes.               *)
LEMMA Decides ==
  ASSUME Types, Attempts, Front, phase = "attempt", NEW status \in {"patch_ready", "failed"},
         Leave(status)
  PROVE  /\ current \in Findings /\ Findings' = Findings
         /\ \A i \in Findings : backlog'[i].status = IF i = current THEN status ELSE backlog[i].status
         /\ \A i \in Decided : i < current
         /\ \A i \in Findings : i < current => i \in Decided
<1>1. current \in Findings /\ \A j \in PendingFindings : current <= j
  BY DEF Attempts, IsCurrent, PendingFindings
<1>2. backlog \in Seq(Row)
  BY DEF Types
<1>3. backlog' = [backlog EXCEPT ![current].status = status]
  BY DEF Leave
<1>4. Findings' = Findings
  BY <1>2, <1>3 DEF Findings
<1>5. \A i \in Findings : backlog[i] \in Row
  BY <1>2 DEF Findings
<1>6. \A i \in Findings : backlog'[i].status = IF i = current THEN status ELSE backlog[i].status
  BY <1>1, <1>2, <1>3, <1>5 DEF Findings, Row
<1>7. \A i \in Findings : i < current => i \in Decided
  BY <1>1, <1>2 DEF Decided, PendingFindings, Findings
<1>8. current \notin Decided
  BY DEF Attempts, IsCurrent, PendingFindings, Decided
<1>9. \A i \in Decided : i < current
  BY <1>1, <1>2, <1>8 DEF Front, Decided, Findings
<1> QED
  BY <1>1, <1>4, <1>6, <1>7, <1>9

LEMMA FrontStep == Types /\ Attempts /\ Front /\ [Next]_vars => Front'
<1> SUFFICES ASSUME Types, Attempts, Front, [Next]_vars PROVE Front'
  OBVIOUS
<1>1. CASE UNCHANGED backlog
  BY <1>1 DEF Front, Decided, Findings
<1>2. CASE Begin
  BY <1>2 DEF Begin, BeginAudit, Front, Decided, Findings
<1>3. ASSUME NEW status \in {"patch_ready", "failed"}, phase = "attempt", Leave(status)
      PROVE  Front'
  <2>1. Decided' = Decided \cup {current}
    BY <1>3, Decides DEF Decided
  <2> QED
    BY <1>3, <2>1, Decides DEF Front, Findings, Types
<1>4. CASE RetryFinding
  <2>1. current \in Findings
    BY <1>4 DEF RetryFinding, Attempts, IsCurrent, PendingFindings
  <2>2. Findings' = Findings /\ \A i \in Findings : backlog'[i].status = backlog[i].status
    BY <1>4, <2>1 DEF RetryFinding, Types, Findings, Row
  <2> QED
    BY <2>2 DEF Front, Decided
<1> QED
  BY <1>1, <1>2, <1>3, <1>4
  DEF Next, Work, BeginAttempt, EndAudit, Propose, ProposeRaises, ProposeDrafts, ProposeFails,
      CommitPatch, GiveUp, AttemptRaises, CommitReview, NextFile, vars

LEMMA AttemptsStep == Types /\ Attempts /\ [Next]_vars => Attempts'
<1> SUFFICES ASSUME Types, Attempts, [Next]_vars PROVE Attempts'
  OBVIOUS
<1>1. CASE UNCHANGED <<phase, backlog, current>>
  BY <1>1 DEF Attempts, IsCurrent, PendingFindings, Findings
<1>2. CASE Begin
  BY <1>2 DEF Begin, BeginAudit, Attempts
<1>3. CASE BeginAttempt
  BY <1>3 DEF BeginAttempt, Attempts, IsCurrent, PendingFindings, Findings
<1>4. CASE phase' \in {"backlog", "prompt"}
  BY <1>4 DEF Attempts
<1>5. CASE RetryFinding
  <2>1. current \in Findings
    BY <1>5 DEF RetryFinding, Attempts, IsCurrent, PendingFindings
  <2>2. Findings' = Findings /\ \A i \in Findings : backlog'[i].status = backlog[i].status
    BY <1>5, <2>1 DEF RetryFinding, Types, Findings, Row
  <2>3. phase' = phase /\ current' = current /\ phase = "attempt"
    BY <1>5 DEF RetryFinding
  <2> QED
    BY <2>2, <2>3 DEF Attempts, IsCurrent, PendingFindings
<1>6. CASE NextFile
  BY <1>6 DEF NextFile, Attempts
<1> QED
  BY <1>1, <1>2, <1>3, <1>4, <1>5, <1>6
  DEF Next, Work, EndAudit, Propose, ProposeRaises, ProposeDrafts, ProposeFails,
      CommitPatch, GiveUp, Leave, AttemptRaises, CommitReview, vars

(* A patch that is appended is the last in the order of the scan.          *)
LEMMA QueueStep ==
  Types /\ Attempts /\ Front /\ QueueIsTheReadyFindings /\ [Next]_vars => QueueIsTheReadyFindings'
<1> SUFFICES ASSUME Types, Attempts, Front, QueueIsTheReadyFindings, [Next]_vars,
                    backlog' # << >>
             PROVE  QueueIsTheReadyFindings'
  BY DEF QueueIsTheReadyFindings
<1>1. CASE UNCHANGED <<backlog, queue>>
  BY <1>1 DEF QueueIsTheReadyFindings, Ready, Findings
<1>2. CASE Begin
  BY <1>2 DEF Begin, BeginAudit, QueueIsTheReadyFindings, Ready, Findings
<1>3. CASE CommitPatch
  <2>1. phase = "attempt" /\ Leave("patch_ready") /\ queue' = Append(queue, current)
    BY <1>3 DEF CommitPatch
  <2>2. backlog # << >>
    BY <2>1, Decides DEF Findings
  <2>3. /\ {queue[k] : k \in 1..Len(queue)} = Ready
        /\ \A k, l \in 1..Len(queue) : k < l => queue[k] < queue[l]
    BY <2>2 DEF QueueIsTheReadyFindings
  <2>4. Ready' = Ready \cup {current}
    BY <2>1, Decides DEF Ready
  <2>5. \A k \in 1..Len(queue) : queue[k] < current
    BY <2>1, <2>3, Decides DEF Ready, Decided
  <2>6. /\ Len(queue') = Len(queue) + 1 /\ Len(queue) \in Nat
        /\ \A k \in 1..Len(queue) : queue'[k] = queue[k]
        /\ queue'[Len(queue) + 1] = current
    BY <2>1 DEF Types, Drafts
  <2>7. {queue'[k] : k \in 1..Len(queue')} = {queue[k] : k \in 1..Len(queue)} \cup {current}
    BY <2>6
  <2>8. \A k, l \in 1..Len(queue') : k < l => queue'[k] < queue'[l]
    BY <2>3, <2>5, <2>6
  <2> QED
    BY <2>3, <2>4, <2>7, <2>8 DEF QueueIsTheReadyFindings
<1>4. CASE GiveUp
  <2>1. phase = "attempt" /\ Leave("failed") /\ queue' = queue
    BY <1>4 DEF GiveUp
  <2>2. backlog # << >>
    BY <2>1, Decides DEF Findings
  <2>3. current \notin Ready
    BY <2>1, Decides DEF Ready, Decided, Types
  <2>4. Ready' = Ready
    BY <2>1, <2>3, Decides DEF Ready
  <2> QED
    BY <2>1, <2>2, <2>4 DEF QueueIsTheReadyFindings
<1>5. CASE RetryFinding
  <2>1. current \in Findings /\ queue' = queue
    BY <1>5 DEF RetryFinding, Attempts, IsCurrent, PendingFindings
  <2>2. Findings' = Findings /\ \A i \in Findings : backlog'[i].status = backlog[i].status
    BY <1>5, <2>1 DEF RetryFinding, Types, Findings, Row
  <2>3. backlog # << >>
    BY <2>1 DEF Findings
  <2> QED
    BY <2>1, <2>2, <2>3 DEF QueueIsTheReadyFindings, Ready
<1>6. CASE CommitReview
  BY <1>6 DEF CommitReview, Attempts
<1> QED
  BY <1>1, <1>2, <1>3, <1>4, <1>5, <1>6
  DEF Next, Work, BeginAttempt, EndAudit, Propose, ProposeRaises, ProposeDrafts, ProposeFails,
      AttemptRaises, NextFile, vars

LEMMA DraftStep == Types /\ DraftIsOfThisAttempt /\ [Next]_vars => DraftIsOfThisAttempt'
<1> SUFFICES ASSUME Types, DraftIsOfThisAttempt, [Next]_vars, draft' # NoDraft
             PROVE  DraftIsOfThisAttempt'
  BY DEF DraftIsOfThisAttempt
<1>1. ASSUME NEW finding \in Findings \cup {NoFinding}, NEW spelled \in BOOLEAN,
             NEW outcome \in Drafted, ProposeDrafts(finding, spelled, outcome)
      PROVE  DraftIsOfThisAttempt'
  <2> DEFINE m == Message(finding, spelled, outcome)
  <2>1. /\ messages' = Append(messages, m) /\ draft' = finding
        /\ phase' = phase /\ phase \in {"attempt", "review"}
    BY <1>1 DEF ProposeDrafts, CanCall
  <2>2. m.finding = finding /\ m.outcome \in Drafted
    BY DEF Message
  <2>3. Len(messages') = Len(messages) + 1 /\ Len(messages) \in Nat
        /\ messages'[Len(messages) + 1] = m
    <3> HIDE DEF m
    <3> QED
      BY <2>1 DEF Types
  <2> QED
    BY <2>1, <2>2, <2>3 DEF DraftIsOfThisAttempt
<1>2. CASE ProposeRaises
  <2> DEFINE m == Message(NoFinding, TRUE, "UNKNOWN")
  <2>1. messages' = Append(messages, m) /\ draft' = draft /\ phase' = phase
    BY <1>2 DEF ProposeRaises
  <2>2. /\ Len(messages') = Len(messages) + 1 /\ Len(messages) \in Nat
        /\ \A k \in 1..Len(messages) : messages'[k] = messages[k]
    <3> HIDE DEF m
    <3> QED
      BY <2>1 DEF Types
  <2>3. PICK k \in 1..Len(messages) : messages[k].finding = draft /\ messages[k].outcome \in Drafted
    BY <2>1 DEF DraftIsOfThisAttempt
  <2>4. k \in 1..Len(messages') /\ messages'[k] = messages[k]
    BY <2>2
  <2> QED
    BY <2>1, <2>3, <2>4 DEF DraftIsOfThisAttempt
<1>3. CASE UNCHANGED <<phase, draft, messages>>
  BY <1>3 DEF DraftIsOfThisAttempt
<1> QED
  BY <1>1, <1>2, <1>3
  DEF Next, Begin, BeginAudit, Work, BeginAttempt, EndAudit, Propose, ProposeFails, CommitPatch,
      RetryFinding, GiveUp, Leave, AttemptRaises, CommitReview, NextFile, DraftIsOfThisAttempt,
      vars

-----------------------------------------------------------------------------
(* The theorems.                                                           *)

(* The invariant holds in every state of an audit.                         *)
THEOREM Invariance == Spec => []IInv
<1>1. Init => IInv
  BY InitInv
<1>2. IInv /\ [Next]_vars => IInv'
  BY TypesStep, AttemptsStep, FrontStep, QueueStep, DraftStep DEF IInv
<1> QED
  BY <1>1, <1>2, PTL DEF Spec

(* The queue holds exactly one patch for each finding that the backlog     *)
(* calls ready (_commit_patch_for_finding), in the order of the scan,      *)
(* whichever findings the agent's calls name and however often they fail.  *)
THEOREM QueuesMatchBacklogs == Spec => []QueueIsTheReadyFindings
<1>1. IInv => QueueIsTheReadyFindings
  BY DEF IInv
<1> QED
  BY <1>1, Invariance, PTL

(* No attempt finds the draft of an earlier one in the session             *)
(* (clear_proposed_patch_draft), not after a retry and not after an error. *)
THEOREM DraftsAreOfTheirAttempt == Spec => []DraftIsOfThisAttempt
<1>1. IInv => DraftIsOfThisAttempt
  BY DEF IInv
<1> QED
  BY <1>1, Invariance, PTL

(* Within a request no decision is taken back, no queued patch lost, and   *)
(* no finding tried a third time (mark_patch_ready, mark_failed,           *)
(* record_retry): an attempt writes the row of its own finding, which was  *)
(* still pending, and the queue only grows.                                *)
THEOREM DecisionsStay == Spec => DecisionsAreFinal
<1>1. ASSUME IInv, [Next]_vars, phase # "prompt", NEW i \in Decided
      PROVE  backlog'[i] = backlog[i]
  <2> USE DEF IInv
  <2>1. CASE UNCHANGED backlog
    BY <2>1
  <2>2. ASSUME phase = "attempt", NEW row, backlog' = [backlog EXCEPT ![current] = row]
        PROVE  backlog'[i] = backlog[i]
    <3>1. i # current
      BY <1>1, <2>2 DEF Attempts, IsCurrent, PendingFindings, Decided
    <3> QED
      BY <1>1, <2>2, <3>1 DEF Decided, Findings, Types
  <2> QED
    BY <1>1, <2>1, <2>2
    DEF Next, Begin, BeginAudit, Work, BeginAttempt, EndAudit, Propose, ProposeRaises,
        ProposeDrafts, ProposeFails, CommitPatch, RetryFinding, GiveUp, Leave, AttemptRaises,
        CommitReview, NextFile, vars
<1>2. ASSUME IInv, [Next]_vars, phase # "prompt"
      PROVE  SubSeq(queue', 1, Len(queue)) = queue
  <2>1. queue \in Seq(Drafts)
    BY <1>2 DEF IInv, Types
  <2>2. queue' = queue \/ \E d \in Drafts : queue' = Append(queue, d)
    BY <1>2
    DEF IInv, Types, Next, Begin, BeginAudit, Work, BeginAttempt, EndAudit, Propose, ProposeRaises,
        ProposeDrafts, ProposeFails, CommitPatch, RetryFinding, GiveUp, Leave, AttemptRaises,
        CommitReview, NextFile, vars
  <2> QED
    BY <2>1, <2>2
<1>3. ASSUME IInv, [Next]_vars, phase # "prompt",
             NEW i \in PendingFindings, backlog[i].retry_count > 0
      PROVE  backlog'[i] = backlog[i] \/ i \in Decided'
  <2> USE DEF IInv
  <2>1. CASE UNCHANGED backlog
    BY <2>1
  <2>2. CASE RetryFinding
    <3>1. current \in Findings /\ backlog[current].retry_count < 1
      BY <1>3, <2>2 DEF RetryFinding, CanRetry, Attempts, IsCurrent, PendingFindings
    <3>2. backlog[current].retry_count \in Nat
      <4>1. backlog[current] \in Row
        BY <1>3, <3>1 DEF Types, Findings
      <4> QED
        BY ONLY <4>1 DEF Row
    <3>3. i # current
      BY <1>3, <3>1, <3>2
    <3> QED
      BY <1>3, <2>2, <3>1, <3>3 DEF RetryFinding, PendingFindings, Findings, Types
  <2>3. ASSUME NEW status \in {"patch_ready", "failed"}, phase = "attempt", Leave(status)
        PROVE  backlog'[i] = backlog[i] \/ i \in Decided'
    <3>1. CASE i = current
      BY <1>3, <2>3, <3>1, Decides DEF PendingFindings, Decided
    <3>2. CASE i # current
      BY <1>3, <2>3, <3>2 DEF Leave, PendingFindings, Findings, Types
    <3> QED
      BY <3>1, <3>2
  <2> QED
    BY <1>3, <2>1, <2>2, <2>3
    DEF Next, Begin, BeginAudit, Work, BeginAttempt, EndAudit, Propose, ProposeRaises,
        ProposeDrafts, ProposeFails, CommitPatch, GiveUp, AttemptRaises, CommitReview, NextFile, vars
<1>4. IInv /\ [Next]_vars =>
        [phase # "prompt" =>
           /\ \A i \in Decided : backlog'[i] = backlog[i]
           /\ \A i \in PendingFindings :
                backlog[i].retry_count > 0 => backlog'[i] = backlog[i] \/ i \in Decided'
           /\ SubSeq(queue', 1, Len(queue)) = queue]_vars
  BY <1>1, <1>2, <1>3
<1>5. Init => IInv
  BY InitInv
<1>6. IInv /\ [Next]_vars => IInv'
  BY TypesStep, AttemptsStep, FrontStep, QueueStep, DraftStep DEF IInv
<1> QED
  BY <1>4, <1>5, <1>6, PTL DEF Spec, DecisionsAreFinal
==============================================================================
