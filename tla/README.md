# AutoPatch-J in TLA+

AutoPatch-J is a command line assistant that scans a Java repository with
Semgrep, lets an LLM agent draft search/replace patches for the findings, and
puts the drafts into a queue where the user applies, discards or revises them
one by one. A memory subsystem extracts and consolidates facts about past
conversations in a background worker. This directory holds the TLA+ model of
it: what the modules say, what TLC checks, what TLAPS proves, and what is left.
All paths below are relative to `src/src/autopatch_j/`, but for `docs/` and
`tests/`, which are in `src/`.

## 1. Inventory

| component | code | state | operations | what is hard, and what makes it correct |
|---|---|---|---|---|
| patch engine | `core/patching/search_replace.py`, `types.py` | none; the files on disk | create_draft, rebase_draft, apply_patch | matches are found in text with normalised line endings and cut in raw bytes; the file may change between read and replace. Correct: only the reviewed text changes; an edit seen is never overwritten; a rebased draft is where it was |
| review queue | `core/domain/workspace.py`, `core/review/workspace.py` | mode, items with status and draft, cursor; saved as JSON | add, mark applied/discarded, replace current, clear | the cursor looks at one item only. Correct: nothing pending is behind the cursor |
| review workflow | `cli/workflows/patch_review.py`, `cli/command_handlers.py` | the queue, the session's revised draft | apply, discard, abort, revise | apply is a file write, a rescan and a workspace save, with failures between; siblings are rebased. Correct: the queue tells the truth about the files; stale drafts are never written |
| patch drafting tools | `tools/search_replace_draft_builder.py`, `tools/function_calls/propose_patch.py`, `revise_patch.py` | the session's proposed and revised draft | called by the agent in any order | several calls in an attempt, drafts for other findings. Correct: a draft is bound to the evidence it names |
| finding identity, verification | `core/finding.py`, `core/patching/verification.py` | none | intersects, verify_finding_resolved | region arithmetic at every boundary. Correct: the verdict is about the bytes that came from the target |
| code audit, backlog | `cli/workflows/code_audit.py`, `core/review/backlog.py` | status and retries of each finding, the session's draft, the queue | one loop per request | the outcome of an attempt is inferred from tool messages. Correct: what is reported ready is what is queued; the loop ends |
| scanner results, scanner | `scanners/` | scan artifacts | parse, validate, fingerprint; run Semgrep | external process, errors |
| ReAct loop, progress guard | `agent/react_runner.py`, `progress_guard.py`, `task_executor.py`, `tool_executor.py` | messages, the last 8 traces | step, overflow recovery, guard | bounded steps; a stop in the middle of a list of calls. Correct: the loop ends, and repetition without progress is stopped |
| context manager | `agent/context_manager.py`, `message_adapter.py` | checkpoint, compacted prefix | prepare, compact, rebuild | progress of compaction. Correct: the request fits and keeps the current input and its call/result pairs |
| routing, CLI lifecycle | `cli/input_router.py`, `core/user_input/`, `cli/app.py`, `cli/runtime.py`, `cli/command_handlers.py` | runtime, pending review | commands, /init, /reset, /new, exit, SIGINT | a signal runs the exit path on top of anything. Correct: every command returns and every exit ends |
| memory turns and threads | `core/memory/store.py`, `store_schema.py`, `cli/workflows/memory_turn.py`, `chat.py` | turns with leases, threads | begin, bind, complete, fail, heartbeat, recover, new thread | several processes; a lease that runs out in a long answer. Correct: a live turn is not taken; a lost answer is told; a request stays in its thread |
| memory jobs, pipeline | `core/memory/store.py` (jobs), `pipeline.py` | jobs with leases, attempts, LLM calls, generation | claim, reserve, complete, defer, fail, reclaim, clear | crash, late results, retries. Correct: no job is lost or run past its budget, no late write passes the fence |
| consolidation | `core/memory/store.py` (candidates, items), `pipeline.py`, `contracts.py` | candidates, items, lines of revisions | extraction's candidates, payload, apply_consolidation, forget | a decision made on a snapshot. Correct: one active item per identity; what is forgotten stays forgotten |
| worker, flush, close, summary | `core/memory/manager.py`, `summary_projection.py` | three locks, two events, threads, dirty flag | worker loop, watermark flush, exit flush, close, refresh | locks and joins; deadlines against late completion. Correct: a stale summary is known to be; the exit tries everything |
| recall | `core/memory/manager.py`, `tools/function_calls/memory_*.py` | a request's map, pool of tokens, cache | open, refresh, search, read | the map is replaced in the middle of a request. Correct: one pool pays for all |
| LLM client, project index, source reader, prompts, presentation, configuration | `llm/`, `core/project/`, `agent/prompt*.py`, `cli/*presenter.py`, `config.py` | caches | | I/O, read-only or formatting; only what a call of the model may end in is modelled |

How they interact: the CLI loop is one thread and runs one handler at a time.
`code_audit` calls the agent, whose tool calls write one draft into the
session; the workflow moves it into the saved queue. `patch_review` loads the
queue for every input, calls the engine, and saves the queue. Files are shared
with every other program on the machine, and the process may end at any point.
The agent's loop asks the context manager for a request before each call of the
model, and carries a map of the memory's items in it. Around a request, the
memory turn is opened and closed; its end queues an extraction job. The memory
worker is a second thread of the process and runs the jobs, flushes run beside
it in threads of their own and in the main thread at the exit, and other
processes share the database with all of them.

The hazards of this code, each at its line, are in `PROJECT.json`.

## 2. Modules

| module | stands for | state |
|---|---|---|
| `SourceText` | bytes, normalised text, positions, regions | constants `Byte`, `CR`, `LF` |
| `PatchEngine` | the engine's functions: `CanDraft`/`Draft`, `ApplyChecks`/`FinalBytes`, `CanRebase`/`RebaseDraft` | none |
| `ReviewQueue` | operations on a workspace value | none |
| `PatchReview` | audit, review and application over files, queue and session; edits of others and interrupts | `source`, `scanned`, `workspace`, `phase`, `draft`, `apply`, and the history `ledger`, `touched` |
| `PatchVerification` | one application and the verdict after the rescan | `content`, `patch`, `result`, `report`, `outcome`, and the history `original` |
| `CodeAudit` | one audit request after another: backlog, attempts, retries, commits | `backlog`, `processed`, `current`, `retrying`, `messages`, `draft`, `queue` |
| `MemoryJobs` | the durable job queue of the memory and the pipelines of several processes on it | `jobs`, `issued`, `generation`, `active`, `begun`, `compaction`, `pipeline`, and `turns`, `events` for the bounds |
| `JobLedger` | what that queue promises: bounded attempts, each job ends once, queues from the front, one consolidation per committed extraction | `ledger`, `issued` |
| `AgentLoop` | one request of the agent: the loop, the projection of its messages into requests, the guard | `messages`, `history`, `thread`, `checkpoint`, `through`, `summarised`, `pc`, `mode`, `hardRecall`, `step`, `compaction`, `request`, `calls`, `seen` |
| `MemoryTurns` | threads and turns with their leases, as several processes share them | `active`, `archived`, `turns`, `pending`, `main`, `at`, `call`, `beaten`, `told`, and the history `flushed`, `missed`, `faults` |
| `MemoryWorker` | the threads of one process on its memory: commands, worker, flushes, exit, locks, the summary file | `pc`, `after`, `work`, `lock`, `stop`, `leaving`, `turn`, `jobs`, `snapshot`, `summary`, `dirty`, `faults` |
| `MemoryItems` | candidates, consolidation jobs and items, with the transaction of an answer | `cands`, `jobs`, `items`, `txn` |
| `MemoryRecall` | a request that recalls, composed with the steps of `MemoryItems` | those of `MemoryItems`, `req`, `spent` |
| `MC...` | instances for TLC | |
| `PatchProofs`, `CodeAuditProofs`, `AgentLoopProofs`, `MemoryJobsProofs`, `MemoryTurnsProofs`, `MemoryRecallProofs`, `MemoryWorkerProofs` | theorems, and the lemmas they rest on | |
| `DataLemmas` | lemmas on numbers, finite sets, sequences and sums that several of these cite | |

`PatchReview` extends `PatchEngine` (which extends `SourceText`) and
`ReviewQueue`; `PatchVerification` extends `PatchEngine`. `CodeAudit` stands
alone: it refines the audit phase of `PatchReview` in control and abstracts it
in data, a draft being the finding it is bound to. `MemoryJobs` implements
`JobLedger` under the mapping `Entry`, which forgets owners, timers and calls.
`MemoryRecall` extends `MemoryItems`: its next step is one of either.

The memory is seen from four sides, each of which keeps of the others what it
needs. `MemoryJobs` has the queue with its leases; to `MemoryWorker` a row is a
status that tells who may take it, to `MemoryTurns` it is one of the `pending`
calls, to `MemoryItems` a job that may be given back at any time. What a model
answers is an outcome in `MemoryJobs` and an answer in `MemoryItems`.

Correspondence with the code, for what is not one to one:

* **Time inside apply.** `apply_patch` and what `handle_review_action` does
  after it are five actions: `StageApply` (read, check, prepare the bytes in a
  temporary file), `CompareSource`, `ReplaceSource` (`os.replace`),
  `RecordApply` (mark, advance, rebase the siblings, save), and `RejectApply`
  for each failure before the replacement. An edit by another program or an
  interrupt can fall between any two. A write between the comparison and
  `os.replace` is marked `raced`: no program can exclude it with these calls,
  and the properties except it.
* **Rebasing** reads the file once for all siblings. The code reads it once per
  sibling; an edit that falls between two of those reads is not modelled.
* **History variables.** `ledger` records for each queue item where it was
  drafted, the bytes of its target when scanned, how often it was written and
  whether it was revised; `touched` the files changed other than by a recorded
  application. Guards do not read them, except that `BeginRevise` counts
  `ledger[i].revised` for the bound `MaxRevised`.
* **Interrupt** ends the running handler: Ctrl-C, a crash and restart, or an
  exception out of `workspace_manager.edit()`, which then does not save. What
  is on disk stays, the session's drafts are gone.
* **Cursor.** It counts from 1; the code's counts from 0.
* **Audit messages.** `CodeAudit` keeps of each `propose_patch` message the
  finding it names, whether its path is spelled as in the finding, and its
  outcome, which is all that `infer_attempt_decision` reads.
* **Memory transactions.** Every store method is one `BEGIN IMMEDIATE`
  transaction, so one action; `process_one` looks for an extraction batch and
  for a consolidation job in two of them, hence its steps `worker` and `flush`
  between. The steps of a pipeline are the points between its transactions:
  claimed, in the first call, after a malformed answer, lease renewed, in the
  second call.
* **Memory time.** The code compares time stamps with the clock; the model keeps
  what is left until a lease expires, a retry is due or a job has waited long
  enough, and `Tick` takes one from each. Ids are issued in the order of
  `created_at`, so ties of equal time stamps are not modelled.
* **Memory turns** are only what gives a job its place: `begun` counts them, and
  `EndTurn` ends any open one in any order, as processes that share a thread
  and the recovery of dead ones do.
* **The agent's messages** are only appended to; the code's is the same list.
  What is sent is computed before each call. A message is its length in tokens,
  its role and whose calls it answers; a tool is what its call may leave: a
  trace (name and arguments), a status, a size, and whether it can be done
  again. The constants of `context_manager.py` are in the operators, counted
  in a `Kibi` of one token. A call of the builder of a checkpoint is one action
  for each fragment, and may fail, come back empty or too long.
* **Turn time.** A tick of `MemoryTurns` is half a lease (60 s), longer than a
  heartbeat's interval (30 s) or a poll's: a thread that can move beats in every
  one. A thread that waits for the process lock does not, nor does one in a
  call whose heartbeat has ended. `Tick` may leave a process behind (a laptop
  that sleeps), which counts as a fault. `missed` says why a turn was not
  renewed in time, and no guard reads it. A poll's two transactions are
  one step; what an ended turn is no longer asked for is forgotten. A `/new` is
  three steps: it starts the flush, waits, and archives. `FlushEnds` is the end
  of the wait, when the flush is over, has failed, or goes on without it; of the
  last two the user is told. `told` remembers for good what was said and of
  what, `flushed` of which threads a flush is over.
* **Threads of a process.** In `MemoryWorker` each value of `pc` is a point at
  which the thread may be held up or another may run: waiting for a lock, in a
  call of the model, before and in a refresh. `Interrupt` displaces the main
  thread, which keeps what it holds, as a signal handler does; `Unwind` is the
  SystemExit that leaves through the displaced frames. The locks are
  `_process_lock`, `_summary_lock` and `_state_lock`, none of them reentrant.
  What main does under one of them and under Ctrl-C is in steps: the snapshot
  and the write of a refresh (`refresh`, `project`), the start of a flush
  thread (`register`, `started`), the look whether a failure was told already
  (`notice`). Short sections of main are one step, as no other thread can tell
  the difference; Ctrl-C in the middle of those under the summary lock (`mark`,
  `/memory status`) is the second disjunct of `Interrupt`. `close` gives the
  state lock back before it joins, and takes it again when no thread is left
  that could have it. In the middle of the close of `/reset` or `/init` the
  runtime counts as closed, and an exit there (`InterruptClose`) waits for
  nothing but its own flush. `start` takes the state lock of a manager that
  nobody else has yet. `snapshot[t]` is whether
  what `t` read is what is committed, `summary` whether the file shows it.
* **Answers of a consolidation** are chosen operation by operation (`Operate`)
  between `Begin` and `Commit`, which is what the validation of the pipeline
  and the store lets through; any other answer is a `GiveBack`. A text is its
  subject; whether an item shares a term with a candidate is left open, and so
  is which matches rank first: any choice to which nothing could be added.
* **Finished jobs** drop their counts, which only diagnostics read.
  `IsSuperseded` translates a check that `clear` makes unreachable, for it
  deletes the jobs of the old generation in the same transaction.
* **Operators headed "Fault:"** are single plausible mistakes, each beside the
  definition it distorts: a dropped guard, a missing reset, an offset that
  does not move. `Spec` uses none of them. `PROJECT.json` (`mutants`) says
  which property fails when one takes the place of the original, so that
  every property is known to be able to fail.

## 3. Runs

| run | instance | states | shows |
|---|---|---|---|
| `ReviewFaults` | 2 files, queue of 2, 1 audit, 1 edit or interrupt, 1 revision | 113,000 | `TypeOK`, `CursorSplitsQueue`, `PendingDraftsApply`, `AppliedIffWritten`, `StaleNeverWritten`, `SeenEditSurvives` |
| `ReviewRebase` | 1 file of 2 to 4 bytes with CR and LF, queue of 3, no faults | 134,000 | `TargetTracksEvidence`, `OneByOneIsAllAtOnce`, `ReplacesOnlyTheReviewedText` |
| `PatchVerification` | a small file, all targets and patches, reports of at most 2 regions | 30,000 | `VerdictIsAboutTheTarget`, `AppliedPatchIsJudged` |
| `CodeAudit` | up to 3 findings, batch limit 2, 2 files, 2 calls per attempt | 28,000 | `QueueIsTheReadyFindings`, `DraftIsOfThisAttempt`, `DecisionsAreFinal`, `RequestEnds` |
| `AgentLoop` | capacity 40, 3 steps, 2 calls an answer, with and without history | 57,000 | `RequestFits`, `RequestIsWhole`, `NoProgressIsStopped`, `RunEnds` |
| `MemoryTurns` | 2 processes, 2 turns, 2 threads, lease and calls of 2 ticks, 1 fault | 1,993,000 | `LiveTurnIsKept`, `AnswerKeptOrTold`, `ArchivedThreadsWereFlushed`, `RequestStaysInItsThread` |
| `MemoryJobs` | 2 processes, 2 turns, 1 new thread or clear, lease of 1 tick, no delays | 713,000 | `WaitingJobsHaveBudget`, `BatchIsTheClaim`, `CandidatesFollowTheirJob`, `HeadOfLine`, `ExtractedOnce`, `CheckpointIsNewest`, `FinishedIsFinal`, `KeepsTheLedger` (refinement) |
| `MemoryProgress` | 1 process, 2 turns, 1 crash, flush or unrecorded failure, retry delay and waiting time of 1 tick, threshold 2 | 46,000 | `EveryJobEnds` |
| `MemoryRecall` | 4 repair turns, 2 candidates, 2 items, 2 subjects, 1 request after another | 479,000 | `OneActiveItem`, `ForgottenIsFinal`, `InferredIsRepeated`, `RequestStaysInItsPool` |
| `MemoryWorker` | 1 flush thread, 2 jobs, 1 fault, Ctrl-C anywhere | 1,839,000 | `StaleSummaryIsMarked`, `ExitTriesWhatWasPending` |
| `MemoryWorkerReturns` | the same, 1 job, Ctrl-C except while main holds the summary or the state lock | 51,000 | `MainReturns`, `SummaryCatchesUp` |
| `InterruptExit` | the same, Ctrl-C anywhere | | **violation** of `ExitEnds` |

Why the bounds are enough for what they are used for:

* Rebasing concerns a pair (applied, pending) and, through accumulated shifts,
  a triple; three items in one file, with replacements of 0, 2 and 3 bytes for
  matches of 1 to 3, give every order of three regions, growing and
  shrinking, meeting and apart, and a replacement that makes another match
  ambiguous.
* Two faults that matter are caught by one: an edit between two steps, and an
  interrupt between the replacement and the record. Two files are needed so
  that one can be disturbed and the other not.
* Line endings act between neighbouring bytes: a CRLF in the file, LF alone
  in a match and CRLF in a replacement give every conversion; what is deleted or
  written between a CR and a LF makes neighbours of them.
* Three findings with a limit of two leave one over; two calls in an attempt
  give draft then failure, failure then draft, and a draft for another
  finding.
* Two turns in `MemoryJobs` give a batch of two, or two batches that end in
  either order, and up to two consolidation jobs; two processes and a lease of
  one tick give a late answer for every step of a batch, against a reclaim, a
  claim by the other or by the same process again, and a clear. A crash is not needed
  there: a process that does nothing more is one. The budgets are the code's
  own, 2 attempts and 3 calls.
* Forty tokens make the shares of the window (80 %, 85 %, 40 %, 20 %, 10 %, 4 %)
  differ by more than one message. Old talk fills its share or is absent, an
  input is short or takes the window, reads of a third of it need compaction
  after two; three steps with two calls each run more than the four calls that
  the rules of the guard look at, and end at `MaxSteps`. The pruning of old
  results begins behind the last five messages, which six calls pass.
* A lease of two ticks and calls of two are the least for which a thread that
  waits for another's call can be too late. Two turns are a request and one
  before it; two threads one /new; two processes one to recover what the other
  has left.
* Three turns about three findings in two files are needed for an inference.
  Of the two citations of the instance one has three findings by union only
  (two of its turns share their single one), the other has one for each turn. Two candidates and two items give two consolidations that
  both saw the same item or none, a forget in between, and a revision. The
  invariants of the items were also checked with four of each (3.4 million
  states), without the request.
* A flush thread, the worker and the exit are the three that may have the
  process lock; one job that has another come of it is enough for a flush to
  have to follow it. One fault separates a refresh that fails from one that
  works, in any place.
* Symmetry is used for the processes in `MemoryJobs` and `MemoryTurns`, which
  check safety only and in which processes differ in nothing but their name.
  It is not used where liveness is checked, nor in the review models, whose
  instances name their files.

`PatchVerification` stops after its verdict, so its configuration does not
check deadlock. The other systems always have a next step.

**Fairness.** `CodeAudit` assumes `WF_vars(Work)`. A user need not ask
for an audit (`Begin` is outside), but once one runs the loop is the program's
own: the ReAct loop makes at most `max_steps` model calls, a model call returns
or times out, and each return leads to one of the actions in `Work`. That
`MaxCalls` bounds the calls of an attempt stands for `max_steps` and the
guard. Nothing is assumed about which outcome is taken: a run that never
drafts ends as well.

`MemoryProgress` assumes `WF_vars(Tick)`, that time passes, and
`WF_vars(Progress(p))`: the worker polls every `WORKER_POLL_SECONDS`, a provider
call returns or times out, and each of these ways on is in `Progress`. Nothing
is assumed about which way it goes, about heartbeats (a lease may always
expire), nor about flushes. A process that crashed is started again; what is
claimed by one that never returns is reclaimed by any other.

`AgentLoop` assumes `WF_vars(Next)`: one thread that runs its own loop, whose
calls of the model and of tools return or time out.

`MemoryWorker` assumes `SF` for the steps of each thread and `WF` for time and
the deadline of a flush. Strong fairness is for the three locks: a thread that
waits for one competes with others that take it again and again. Their holders
release a lock after every batch, write and look at the list of threads, and the worker then sleeps
for its poll interval, so that a waiter gets its turn; the lock itself promises
no order. Nothing is assumed of commands, Ctrl-C or faults.

`MemoryTurns` and `MemoryRecall` check safety only.

Seen while modelling, and not run (the models behave this way, and no property
excludes it):

* **Unchecked drafts are dropped** (`core/review/backlog.py:109`). A draft made
  without a syntax checker has status `unavailable`; the tool's message tells
  the agent it will enter the queue (`propose_patch.py:65`), and the backlog
  takes it for "no patch" and fails the finding. An `invalid` draft is queued.
* **Respelled paths are dropped** (`core/review/backlog.py:105`). The tool
  accepts `./src/A.java` for `src/A.java`, the backlog compares the spellings.
* **Overlapping occurrences count once** (`core/patching/search_replace.py:378`).
  The match region of a draft is not always the only place of its text,
  contrary to `core/patching/types.py:52`.
* **A locked database fails a memory job** (`core/memory/pipeline.py:985`). The
  pipeline means to defer the job (`tests/test_memory_llm_contract_v4.py:730`),
  but it looks for sqlite's `OperationalError`, which the store's connection
  has turned into a `MemoryStorageError` (`core/memory/store.py:687`).
* `docs/memory_design.md:210` describes a back-off from 5 seconds to an hour
  where the code has one delay of 5 seconds and two attempts;
  `docs/memory_design.md:135` lets batches follow the order of turns, where the
  claim orders by the end of a turn first (hence `CheckpointIsNewest`).
* The guard's early stop leaves the rest of a list of calls without answers, in
  the returned trace only; a cycle of three calls, or of two calls each made
  twice, is ended by `max_steps` alone. After an overflow the request that is
  sent again may be the one that overflowed, when nothing of it can be left out.
* After `/memory clear` has fenced a call of the provider, its heartbeat ends,
  and until the call returns nothing renews the turns of that process: one
  asked in the meantime may be interrupted by its own worker
  (`LiveTurnIsKept` excepts it).
* A `memory_read` that repeats an earlier one is answered from the request's
  cache, without cost and also after the item was forgotten; a search that
  fails in the database uses up a query (`core/memory/manager.py:404`).

### Finding

**Ctrl-C while the main thread holds a lock: the exit never ends** (`cli/app.py:62`,
run `InterruptExit`). The handler runs the whole exit on top of the interrupted
step, with the locks that the step holds. There are two of them:

* The summary lock, in a refresh (`core/memory/manager.py:908-932`), a mark
  (890-895) or `/memory status` (556-562). The worker comes to wait for it, and
  `close` joins the worker without a timeout (830-834).
* The state lock, while `/new` starts its flush thread (715-726), or when main
  looks whether a failure of the database was told already (134-137). `close`
  waits for it (825) before it has told any thread to stop.

Only another Ctrl-C then ends the program. TLC stops at the first of the two that
it meets; with one lock in `InterruptHolding` it finds that one. `MainReturns`
shows that there is no third: where main holds neither lock, every exit comes
to its end. What this contradicts: `docs/memory_design.md:238`, of an exit one
of whose jobs has failed, "CLI 随后继续退出" (the CLI then goes on with the exit),
and line 365 of `openspec/specs/persistent-conversation-memory/spec.md` (in
`src/`), of one whose job is to be retried, "CLI 继续退出". `ExitEnds` takes these
for the promise that an exit which has begun comes to its end, whatever its
flush came to.

## 4. Proofs

`PatchProofs` proves about `PatchReview` and `PatchVerification`, for every set of
files, every set of strings, spans and bounds:

| theorem | property |
|---|---|
| `TypeCorrect` | `TypeOK` |
| `CursorSplitsTheQueue` | `CursorSplitsQueue` |
| `StaleDraftsAreNeverWritten` | `StaleNeverWritten` |
| `PendingDraftsAreApplicable` | `PendingDraftsApply` |
| `QueueTellsWhatWasWritten` | `AppliedIffWritten` |
| `EditsSeenSurvive` | `SeenEditSurvives` |
| `TargetsStayOnTheirEvidence` | `TargetTracksEvidence` |
| `OneByOneEqualsAllAtOnce` | `OneByOneIsAllAtOnce` |
| `OnlyTheReviewedTextIsReplaced` | `ReplacesOnlyTheReviewedText` |
| `VerdictsAreAboutTheTarget` | `VerdictIsAboutTheTarget` |
| `AppliedPatchesAreJudged` | `AppliedPatchIsJudged` |

Assumptions: `LineEndingAssumption` (CR and LF are two bytes), `TextAssumption`
and `FileAssumption` (files and strings are sequences of bytes, spans are
positive), `BoundAssumption` (bounds are naturals), and for the verification
`NothingAssumption` (the value for "not there yet" is none of the values it
stands in for). Nothing is assumed of the values that stand for "no draft" and
"no application".

The argument for the queue. None of the properties is inductive alone. The
invariant `IInv` is the conjunction of `TypeOK`, `CursorSplitsQueue` and

* `HandlerInv`: what a running handler relies on. In `revise` and `apply` there
  is a current pending patch that is not stale; the application under way is of
  that patch and passed the checks on what it read, and once it has compared
  the file, the file is what it read unless a write raced it;
* `LedgerInv`: the number of writes of each item in terms of its status, the
  step of the application and `touched`, and none for the items ahead;
* `StaleNeverWritten`;
* `DraftApplies`: the session's draft passes `ApplyChecks` on its file unless the
  file is touched, because `CanDraft` and `ApplyChecks` compute the same match;
* `PendingDraftsApply`, whose only hard step is `RecordApply`: `RebaseDraft`
  gives a draft the match region it has just found in the new file and checks
  it against the target, so it applies, or it marks the draft stale;
* `ScanInv`: while the agent proposes, an undisturbed file is the scanned one,
  so that a new draft's target has the evidence the ledger notes;
* `ReplacedInv`: between the replacement of a file and its record, the evidence
  of the patches that are still to be rebased is in the bytes the application
  read, and the file is those bytes with one region replaced;
* `TargetTracksEvidence` itself. Its hard step is again `RecordApply`: a target
  before the region keeps its place, one behind it moves by the difference of
  the lengths, and one that meets it is stale (`EvidenceItem`);
* `PlacesInv`, for `OneByOneIsAllAtOnce`. A file that only recorded applications
  changed is laid out in one piece per byte of the scanned file (`LaidOut`): the
  first byte of an applied region carries its replacement, its other bytes carry
  nothing, and `at` says where in the file the piece of each byte ends. Every
  patch still open lies where `at` puts the begin and the end of what it was
  drafted on, and apart from the applied ones (`IsPlaced`). The hard step is
  `RecordApply` once more (`AppliedPlaces`): replacing a region whose begin and
  end are in the layout gives a layout again (`ReplacedPieces`), and where
  `RebaseDraft` puts the other open patches is where the new layout has them
  (`RebasedPlace`). That a laid out file is the concatenation of its pieces is
  `PiecesInOrder`, and `PlacedIsAllAtOnce` concludes. The attempt to prove it
  showed that the property must be about bytes: it had compared texts, and a CR
  in front of a replacement that begins with LF reads as one line end. It now
  says that each patch was written with some line ending and the bytes are those.

`InitInv` and `StepInv` prove it inductive, with one lemma per conjunct and one
step per action; `Invariance` concludes.

The argument for the text. The engine finds a match in the text of a file, where
CRLF, CR and LF are all LF, and cuts it out of the bytes. The bytes that begin a
character of the text are a set of positions; `BeginsAt` lists them in order, and
the text is determined by that list (`TextOfBegins`, both ways: `OffsetOfCharacter`
says that the n-th character begins where the engine says it does). A match
region therefore runs from the begin of one character to the begin of another
(`IsPiece`), it contains no half of a CRLF, and its own list is the middle of the
file's (`TextOfPiece`): its text is `old_string` (`MatchedText`). What is written
instead is a text whose line ends were written in the file's way; its list puts
a begin at each of its characters (`RestoredText`), so it reads as `new_string`
(`WrittenText`). That the bytes around the region do not change is `OnlyTheRegion`.

The argument for the verdict. `VerificationInv` says of a patch that it was applied to
what it was drafted on (`PatchInv`), of the file that it is the result
(`ApplicationInv`), and of the outcome that it is the verdict on the report
(`VerdictInv`). That leaves an equation of sets of positions: the bytes of the
target that survive, moved by the difference of the lengths if behind the
region, and the bytes written, are met by a region exactly if it intersects the
footprint; by cases on whether the target reaches over the region's begin and
end, with the empty footprint of a deletion as a case of its own.

`MemoryJobsProofs` proves about `MemoryJobs`, for any
number of processes, turns, threads and crashes and for every value of the
limits and delays:

| theorem | property |
|---|---|
| `RowsAreTyped` | `TypeOK` |
| `WaitingJobsAreNotSpent` | `WaitingJobsHaveBudget` |
| `BatchStaysTheClaim` | `BatchIsTheClaim` |
| `CandidatesAreDecidedWithTheirJob` | `CandidatesFollowTheirJob` |
| `LeasesAreAtTheHead` | `HeadOfLine` |
| `CandidatesAreCommittedOnce` | `ExtractedOnce` |
| `CheckpointFollowsCommits` | `CheckpointIsNewest` |
| `FinishedJobsAreFinal` | `FinishedIsFinal` |
| `QueueImplementsLedger` | `KeepsTheLedger` |

Assumptions: `JobAssumption` (the limits are natural numbers, those that would
stop everything when 0 are not 0) and `BudgetAssumption`: an attempt makes two
calls at most, and a job that has an attempt left has a call left,
2 (MAX_JOB_ATTEMPTS - 1) < MAX_JOB_LLM_CALLS. The constants of the code satisfy
it; without it a retry could be scheduled only to be failed when it is claimed.

The argument. A property of the rows, such as `HeadOfLine`, depends on what the
pipelines do with stale knowledge of them, and that on the lease. The invariant
`IInv` is the conjunction of `TypeOK` and

* `RowsInv`: what a row has left in each status (a waiting row has an attempt
  left and at most two calls behind each it made, a finished one no timer), when
  its candidates are pending, and that every row is of the current generation,
  since `/memory clear` deletes the others;
* `Ordered`: in front of a leased extraction job everything in its thread is
  finished or leased, and the leased jobs of a thread have one owner and one
  timer. The claim takes a prefix that waits, the heartbeat renews all or none,
  and the clock runs for all, so that leases that began together expire and are
  reclaimed together;
* `BatchInv`: a pipeline that works has a batch that is not empty, a single row
  for a consolidation, and of each row it *still holds* it knows the kind and the
  attempt, an upper bound for the calls made by its step (`Calls`), and that it
  has all leased rows of the thread. Of rows it has lost it knows nothing, and
  the fence keeps it from writing to any.

Most steps only keep rows (`RowsKeep`: none becomes leased, no lost lease comes
back), and `KeepInv` covers them all, given what each pipeline counts. The claim
is the one step that makes leases; there `BatchIsClaimable` shows what the query
for a batch returns, and `AllLeased` that nothing of it is superseded or spent.
`HInv` adds the history: `TurnsInv`, `ExtractedOnce` and `CheckpointIsNewest`.
All steps but the end of a turn, a commit and a clear are `Quiet`, which keeps
them. For a commit, a batch that is held is not finished, while the source of a
consolidation job is.

The refinement maps a row to its entry in the ledger (`Entry`): a claim is an
`Attempt` in which the jobs that lost their last lease are dropped and the batch
is started, a failure one in which the batch is dropped; a commit is a `Commit`
because a held batch is the front of its queue (`HeldIsFront`); renewals, calls,
late answers, crashes and the clock change nothing in the ledger.

`CodeAuditProofs` proves about `CodeAudit`, for any number of findings, files and
calls and any batch limit: `QueuesMatchBacklogs` (`QueueIsTheReadyFindings`),
`DraftsAreOfTheirAttempt` (`DraftIsOfThisAttempt`) and `DecisionsStay`
(`DecisionsAreFinal`: no decision is taken back, no finding tried a third time).
Assumption: `AuditAssumption`. Beside the types, the
invariant has `Front`, that the backlog is decided from its front, and
`Attempts`, that an attempt is about the first finding that is not: what is
appended is therefore the last in the order of the scan (`Decides`, `QueueStep`).

`AgentLoopProofs` proves about `AgentLoop`, for any capacity, any sizes of inputs,
answers and results, and any number of steps, calls and compactions
(`AgentLoopAssumption`):

| theorem | property |
|---|---|
| `RequestsFit` | `RequestFits` |
| `RequestsAreWhole` | `RequestIsWhole` |
| `RunsWithoutProgressAreStopped` | `NoProgressIsStopped` |

The argument for the second: messages come in units of an answer and the results
of its calls (`Units`), with the calls that have not run behind the last message;
a cut at a unit's begin has no call before it with a result behind it (`Between`).
The checkpoint stands for what is before such a cut (`Summary`), and so does
every tail that a compaction aims at while it is being built (`Building`); the
begin that `RecentTailStart` chooses is one of a unit. For the third, `Window`
ties the guard's eight traces to the messages: the result that has n - 1 results
behind it is the n-th from the end of `seen`, or has left it. Three or four
results in a row at the end of the trace are at the end of the window, so the
rules see them; `NoProgressIsStopped` is a conjunct, since what was allowed
earlier stays so. The attempt also showed that `RunTool` had chosen its next step
by a CASE whose arms overlapped, which says nothing about a blocked call with
others behind it; it is an IF now.

`MemoryTurnsProofs` proves about `MemoryTurns`, for any number of processes, turns,
threads and faults, calls of any length and a lease of more than one tick
(`TurnsAssumption`):

| theorem | property |
|---|---|
| `LiveTurnsAreKept` | `LiveTurnIsKept` |
| `AnswersAreKeptOrTold` | `AnswerKeptOrTold` |
| `ArchivedThreadsAreFlushed` | `ArchivedThreadsWereFlushed` |
| `RequestsStayInTheirThread` | `RequestStaysInItsThread` |

The argument for the first: an open turn that its process has not missed
(`Renewed`) has a lease one tick short at most, and a full one as soon as a
thread of the process has beaten since the last tick. At a tick, some thread
has: the one that has the process lock is not blocked, and if none has it, the
worker is not (`WorkerRuns`). So nothing recovers it. For the second, `Attended`
says that no two requests have one turn and that its owner is the process of
its request, and `Told` what is left of a turn after its request, also of one
that a clear deleted (`Unanswered`). New turns are
the next in number (`Numbered`), since what is not there yet must be told from
what is gone. The third does not say that a flush is over when its thread is
archived: one that ran out of time goes on in the background. It says that the
flush of that very thread was over or a user was told that it was not, and rests
on a process at "archive" having waited for the thread it remembers, which is
the only one that `StartNewThread` archives.

`MemoryRecallProofs` proves about `ItemsSpec`, for any threads, subjects, files,
citations and bounds (`ItemsAssumption`): `ItemsAreOne` (`OneActiveItem`),
`ForgottenItemsStay` (`ForgottenIsFinal`), `InferencesAreRepeated`
(`InferredIsRepeated`). `MemoryRecall` implements it
(`MemoryImplementsItems`): its own steps leave the items alone. The invariant: every candidate is of one job (`JobsApart`), no item draws
on one whose job is not done (`Drawn`), the active item of a line is its last
(`Lines`), identities are single (`Singles`), each of the committed items and of
those of a transaction; and what a transaction may have made of the items it
began with (`UnderWay`), to which the forget that it excludes adds nothing. That
three sets of findings, no two of them the same single one and three together,
have three distinct representatives (the code's search for them, as Hall's
condition) is proved by cases on their members.

`RequestsStayInTheirPool` (`RequestStaysInItsPool`) is about the requests of
`MemoryRecall`. What a map costs is a sum over a set of items that other
processes add to while the request lasts. `PoolInv` says that map, answers and
remainder add up to the pool; it stays because an item is never removed and
never changes its subject (`ItemsStay`), so that a map costs what it cost
(`SumSame` of `DataLemmas`), and because a refresh gives back what the old map
had cost before it pays for the new one.

`MemoryWorkerProofs` proves about `MemoryWorker`, for any number of flushes, jobs
and faults and whichever locks main may hold when Ctrl-C arrives
(`WorkerAssumption`):
`SummariesAreMarked` (`StaleSummaryIsMarked`) and `ExitTriesEverything`
(`ExitTriesWhatWasPending`, which excepts an exit that finds the memory stopped by
`/reset` or `/init`). A refresh that read before the last commit and has
yet to write could call the file current; what keeps it from that is that it
has the summary lock (`HasSummaryLock`), so that the commit still waits to mark
the summary (`Behind`), and that no thread is left over when the next runtime
starts (`Quiet`). `Exiting` and `Returns` follow the main thread through its
exit, in particular that it is in no round of its flush once it was told to
stop; the rest of the second theorem is the guard of `FlushRound`.

Sums and texts are about data of any size, and need induction. The induction
theorems of the library take an operator as their parameter, which the provers
cannot instantiate; `DataLemmas` states induction of a set of numbers instead
(`LeastNatural`, `InductiveSet`), from the library's theorem that strict inclusion
of finite sets is well-founded, and derives what a fold over a set adds up to
(`SumType`, `SumSame`).

Only model-checked: the liveness properties `RequestEnds`, `RunEnds`,
`EveryJobEnds`, `MainReturns` and `SummaryCatchesUp`, since liveness under
fairness and ENABLED are out of the prover's reach. RECURSIVE operators are too;
the modules declare none.

## 5. Not modelled

Inside modelled components:

* review and audit: multi-byte encodings (a byte is a character), the diff and
  the syntax check of a draft (only its status, in `CodeAudit`), focus
  constraints, patch explanation, runtime constraints on the session, JSON
  schema errors in a saved workspace (it is then taken for idle), two CLI
  processes on one workspace, fingerprints of findings;
* agent: the text of prompts and answers, streaming, the limits a tool puts on
  its own output, the parsing of a provider's answer;
* turns: what tells repair intents apart, and what /new clears beside the
  thread (the workspace, the printed history) or does when it fails there;
* jobs, consolidation and recall: texts, their normalisation and validation, term
  matching and ranking, the wording and clipping of map and answers, `search`
  and `read` of the manager, which have no caller; clear is in `MemoryJobs`,
  `MemoryTurns` and `MemoryWorker` and not beside a consolidation in
  `MemoryItems`;
* worker: the rebuild of a damaged database by `/memory clear`
  (`_rebuild_damaged_store`, which closes the manager and starts it anew), the
  scan and the index that /init rebuilds, and the second and third process on
  the same summary file. A turn that could not be begun or ended is only a
  failure there; what becomes of it is in `MemoryTurns`.

Not at all: the scanner's process, input routing, project index and source
reading, presentation and configuration. They keep no state that others depend
on, or are I/O, or pure functions of one text that unit tests reach; their
outcomes are inputs of the models. `PROJECT.json` gives the reason for each.

The hazards without a property, with the reason, are in `PROJECT.json`: most are
weaknesses listed above, for which the code promises nothing that could be
stated.

## 6. Plan

What is worth doing next, in this order:

1. `PatchReviewAbstract`: each patch is pending, then applied once or dropped,
   and files change only by applying; `PatchReview` implements it by a
   refinement mapping.
2. `MemoryTurns` and `MemoryJobs` in one system, so that the job a turn leaves
   is the row the queue leases, with `clear` in the middle of both.
3. `ReviewLifecycle`: routing, /new and two processes on one workspace, as an
   environment of the queue.
4. Proofs: the refinement of 1, for which `PatchProofs!IInv` has the invariants,
   and that of the composition of 2 from the invariants of its parts.
