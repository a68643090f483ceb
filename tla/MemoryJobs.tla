------------------------------ MODULE MemoryJobs ------------------------------
(***************************************************************************)
(* The durable queue of the memory subsystem (core/memory/store.py) and    *)
(* the pipelines that work on it (core/memory/pipeline.py), one in each    *)
(* process that has the database open.  Every finished turn of a           *)
(* conversation has an extraction job; an extraction that finds candidates *)
(* adds a consolidation job for them.  A pipeline leases the jobs it works *)
(* on, a heartbeat renews the lease during a provider call, and every      *)
(* write is fenced: it checks in its own transaction that the lease and    *)
(* the generation of the database are still those of the claim.            *)
(*                                                                         *)
(* Every store method is one BEGIN IMMEDIATE transaction, here one action. *)
(* Time is kept as what is left of it: a timer holds the ticks until a     *)
(* lease expires or a retry is due, an age those until EXTRACTION_MAX_WAIT *)
(* has passed.                                                             *)
(***************************************************************************)
EXTENDS Integers, FiniteSets

CONSTANTS
  Processes,          \* the lease owners, one pipeline each (_process_lock)
  NoOwner,
  JobLease,           \* JOB_LEASE_SECONDS, in ticks
  RetryDelay,         \* JOB_RETRY_DELAY_SECONDS
  ExtractionMaxWait,  \* EXTRACTION_MAX_WAIT_SECONDS
  Threshold,          \* EXTRACTION_PENDING_THRESHOLD
  BatchSize,          \* EXTRACTION_BATCH_SIZE
  MaxAttempts,        \* MAX_JOB_ATTEMPTS
  MaxCalls,           \* MAX_JOB_LLM_CALLS
  MaxTurns,           \* bound: turns begun
  MaxThreads,         \* bound: threads, that is /new and /memory clear
  MaxEvents           \* bound: claims of a flush, crashes, and failures to record

ASSUME JobAssumption ==
  /\ NoOwner \notin Processes
  /\ {JobLease, BatchSize, MaxAttempts, MaxCalls, MaxThreads} \subseteq Nat \ {0}
  /\ {RetryDelay, ExtractionMaxWait, Threshold, MaxTurns, MaxEvents} \subseteq Nat

(* An attempt makes two calls at most, the second one to repair.  A job    *)
(* that has an attempt left has a call left, too.                          *)
ASSUME BudgetAssumption == 2 * (MaxAttempts - 1) < MaxCalls

VARIABLES
  jobs,        \* memory_jobs: the rows by id; ids grow and are not used again
  issued,      \* the last id
  generation,  \* memory_meta.generation
  active,      \* the active thread; the ones before it are archived
  begun,       \* of each thread, the sequence of its last turn
  compaction,  \* of each thread, its compaction_sequence
  pipeline,    \* of each process, what process_one is doing
  turns,       \* turns begun so far, and
  events       \* events so far: counters for the bounds

vars == <<jobs, issued, generation, active, begun, compaction, pipeline, turns, events>>

Threads == 1..MaxThreads

Finished == {"succeeded", "succeeded_no_output", "failed"}

IsFinished(row) == row.status \in Finished
IsExtraction(row) == row.kind = "extraction"

NewJob(kind, thread, sequence, source) ==
  [kind |-> kind, thread |-> thread, sequence |-> sequence, source |-> source,
   status |-> "pending", generation |-> generation, attempt_count |-> 0,
   llm_call_count |-> 0, lease_owner |-> NoOwner, timer |-> 0, last_error |-> "none",
   age |-> IF kind = "extraction" THEN ExtractionMaxWait ELSE 0,
   candidates |-> IF kind = "extraction" THEN "none" ELSE "pending"]

(* No batch: process_one is not running.                                   *)
Idle == [step |-> "idle", ids |-> {}, kind |-> "extraction", generation |-> 0,
         attempt_count |-> 0]

Init ==
  /\ jobs = [i \in {} |-> 0]
  /\ issued = 0
  /\ generation = 1
  /\ active = 1
  /\ begun = [t \in Threads |-> 0]
  /\ compaction = [t \in Threads |-> 0]
  /\ pipeline = [p \in Processes |-> Idle]
  /\ turns = 0
  /\ events = 0

-----------------------------------------------------------------------------
(* Turns.  Two processes may have a turn open in one thread, and a turn    *)
(* whose process died is ended by recover_startup: turns end in any order. *)

BeginTurn ==
  /\ turns < MaxTurns
  /\ turns' = turns + 1
  /\ begun' = [begun EXCEPT ![active] = @ + 1]
  /\ UNCHANGED <<jobs, issued, generation, active, compaction, pipeline, events>>

(* The turns of a thread that have their extraction job.                   *)
Ended(t) == {jobs[i].sequence : i \in {j \in DOMAIN jobs :
               IsExtraction(jobs[j]) /\ jobs[j].thread = t}}

EndTurn(t, sequence) ==
  /\ sequence \in 1..begun[t] \ Ended(t)
  /\ issued' = issued + 1
  /\ jobs' = [i \in DOMAIN jobs \cup {issued'} |->
                IF i = issued' THEN NewJob("extraction", t, sequence, 0) ELSE jobs[i]]
  /\ UNCHANGED <<generation, active, begun, compaction, pipeline, turns, events>>

StartNewThread ==
  /\ active < MaxThreads
  /\ active' = active + 1
  /\ UNCHANGED <<jobs, issued, generation, begun, compaction, pipeline, turns, events>>

(* /memory clear deletes every row, and no running pipeline knows.         *)
Clear ==
  /\ active < MaxThreads
  /\ active' = active + 1
  /\ generation' = generation + 1
  /\ jobs' = [i \in {} |-> 0]
  /\ begun' = [t \in Threads |-> 0]
  /\ compaction' = [t \in Threads |-> 0]
  /\ UNCHANGED <<issued, pipeline, turns, events>>

-----------------------------------------------------------------------------
(* Rows.  What the store does to a row when it ends, waits or is leased.   *)

(* Fault: the candidates of a job that fails stay pending. *)
SuppressNothing(row) == row.candidates

(* What ends a row of either kind takes its candidates out, but for those  *)
(* that were decided about.  The counts of a finished job are read by      *)
(* nothing but diagnostics; here they are gone.                            *)
Suppress(row) == IF IsExtraction(row) THEN "none" ELSE "suppressed"

End(row, status, candidates, error) ==
  [row EXCEPT !.status = status, !.lease_owner = NoOwner, !.timer = 0, !.age = 0,
              !.attempt_count = 0, !.llm_call_count = 0, !.candidates = candidates,
              !.last_error = error]

Failed(row, error) == End(row, "failed", Suppress(row), error)

RetryWait(row, error) ==
  [row EXCEPT !.status = "retry_wait", !.lease_owner = NoOwner, !.timer = RetryDelay,
              !.last_error = error]

(* Fault: the attempt is not counted. *)
LeasedAgain(row, p) ==
  [row EXCEPT !.status = "leased", !.lease_owner = p, !.timer = JobLease]

Leased(row, p) ==
  [row EXCEPT !.status = "leased", !.lease_owner = p, !.timer = JobLease,
              !.attempt_count = @ + 1]

(* Fault: the status is not looked at. *)
TimedOut(row) == row.timer = 0

(* Fault: nobody looks for leases that have run out. *)
NeverExpired(row) == FALSE

Expired(row) == row.status = "leased" /\ row.timer = 0

(* _reclaim_expired_leases                                                 *)
Reclaimed ==
  [i \in DOMAIN jobs |->
     IF ~ Expired(jobs[i]) THEN jobs[i]
     ELSE IF jobs[i].attempt_count >= MaxAttempts THEN Failed(jobs[i], "other")
     ELSE RetryWait(jobs[i], "other")]

(* recover_startup, which every worker calls at each poll.                 *)
Recover ==
  /\ \E i \in DOMAIN jobs : Expired(jobs[i])
  /\ jobs' = Reclaimed
  /\ UNCHANGED <<issued, generation, active, begun, compaction, pipeline, turns, events>>

-----------------------------------------------------------------------------
(* Claims.  rows are the jobs after the reclaim the claim starts with;     *)
(* allowed restricts the claim of a flush to what it still waits for.      *)

Queue(rows, t) ==
  {i \in DOMAIN rows : IsExtraction(rows[i]) /\ rows[i].thread = t /\ ~ IsFinished(rows[i])}

Consolidations(rows, allowed) ==
  {i \in DOMAIN rows : ~ IsExtraction(rows[i]) /\ ~ IsFinished(rows[i]) /\ i \in allowed}

IsFirst(i, S) == i \in S /\ \A j \in S : i <= j

Claimable(row) ==
  \/ row.status = "pending"
  \/ row.status = "retry_wait" /\ row.timer = 0

SameCounts(row, other) ==
  /\ row.attempt_count = other.attempt_count
  /\ row.llm_call_count = other.llm_call_count

(* Fault: a job that waits is passed over instead of ending the batch. *)
EligibleAnywhere(rows, t, allowed) ==
  {i \in Queue(rows, t) : i \in allowed /\ Claimable(rows[i])}

(* The head of a thread's queue and the jobs behind it that can go with it.*)
Eligible(rows, t, allowed) ==
  {i \in Queue(rows, t) : \A j \in Queue(rows, t) :
     j <= i => j \in allowed /\ Claimable(rows[j]) /\ SameCounts(rows[j], rows[i])}

Due(rows, t, allowed, force) ==
  LET eligible == Eligible(rows, t, allowed)
  IN  /\ eligible # {}
      /\ \/ force
         \/ Cardinality(eligible) >= Threshold
         \/ \E i \in eligible : IsFirst(i, eligible) /\ rows[i].age = 0

Batch(rows, t, allowed) ==
  LET eligible == Eligible(rows, t, allowed)
  IN  {i \in eligible : Cardinality({j \in eligible : j <= i}) <= BatchSize}

(* The thread whose queue is served: due, with the oldest head.            *)
Serves(rows, t, allowed, force) ==
  /\ Due(rows, t, allowed, force)
  /\ \A u \in Threads : Due(rows, u, allowed, force) =>
       \E i \in Queue(rows, t) : \A j \in Queue(rows, u) : i <= j

IsSpent(row) == row.attempt_count >= MaxAttempts \/ row.llm_call_count >= MaxCalls

IsSuperseded(row) == row.generation # generation

(* _claim_rows: a job of an older generation or without budget is ended    *)
(* instead of leased, and the claim may come back empty.                   *)
ClaimRows(p, rows, S, kind, next) ==
  LET taken == {i \in S : ~ IsSuperseded(rows[i]) /\ ~ IsSpent(rows[i])}
  IN  /\ jobs' = [i \in DOMAIN rows |->
                    IF i \notin S THEN rows[i]
                    ELSE IF IsSuperseded(rows[i])
                         THEN End(rows[i], "succeeded_no_output", rows[i].candidates, "other")
                    ELSE IF IsSpent(rows[i]) THEN Failed(rows[i], "other")
                    ELSE Leased(rows[i], p)]
      /\ pipeline' = [pipeline EXCEPT ![p] =
           IF taken = {} THEN [Idle EXCEPT !.step = next]
           ELSE [step |-> "claimed", ids |-> taken, kind |-> kind, generation |-> generation,
                 attempt_count |-> CHOOSE n \in 1..MaxAttempts :
                                     \E i \in taken : n = rows[i].attempt_count + 1]]

(* process_one looks for an extraction batch, then for a consolidation     *)
(* job; between the two transactions its step is next.                     *)
ClaimExtraction(p, allowed, force, next) ==
  /\ pipeline[p].step = "idle"
  /\ \/ \E t \in Threads :
          /\ Serves(Reclaimed, t, allowed, force)
          /\ ClaimRows(p, Reclaimed, Batch(Reclaimed, t, allowed), "extraction", next)
     \/ /\ \A t \in Threads : ~ Due(Reclaimed, t, allowed, force)
        /\ jobs' = Reclaimed
        /\ pipeline' = [pipeline EXCEPT ![p].step = next]

ClaimConsolidation(p, allowed) ==
  /\ \/ \E i \in Consolidations(Reclaimed, allowed) :
          /\ IsFirst(i, Consolidations(Reclaimed, allowed))
          /\ Claimable(Reclaimed[i])
          /\ ClaimRows(p, Reclaimed, {i}, "consolidation", "idle")
     \/ /\ \A i \in Consolidations(Reclaimed, allowed) :
             IsFirst(i, Consolidations(Reclaimed, allowed)) => ~ Claimable(Reclaimed[i])
        /\ jobs' = Reclaimed
        /\ pipeline' = [pipeline EXCEPT ![p].step = "idle"]
  /\ UNCHANGED <<issued, generation, active, begun, compaction, turns, events>>

(* _worker_loop: process_one(force=False)                                  *)
WorkerClaims(p) ==
  \/ /\ ClaimExtraction(p, DOMAIN jobs, FALSE, "worker")
     /\ UNCHANGED <<issued, generation, active, begun, compaction, turns, events>>
  \/ /\ pipeline[p].step = "worker"
     /\ ClaimConsolidation(p, DOMAIN jobs)

(* _flush_job_ids: process_one(force=True, allowed_job_ids=...), where     *)
(* allowed is what is left of the watermark and of its offspring.          *)
FlushClaims(p, allowed) ==
  /\ events < MaxEvents
  /\ ClaimExtraction(p, allowed, TRUE, "flush")
  /\ events' = events + 1
  /\ UNCHANGED <<issued, generation, active, begun, compaction, turns>>

FlushClaimsConsolidation(p, allowed) ==
  /\ pipeline[p].step = "flush"
  /\ ClaimConsolidation(p, allowed)

-----------------------------------------------------------------------------
(* One batch.  _validate_lease is the fence: a result, a deferral or a     *)
(* failure is written only by the holder of a live lease of this           *)
(* generation.  What a worker without lease tries is refused, and the      *)
(* refusal is swallowed (_record_failure).                                 *)

Steps == {"claimed", "calling", "malformed", "renewed", "recalling"}

Works(p) == pipeline[p].step \in Steps

(* Fault: any lease is taken for the own one. *)
IsHeld(p, i) == i \in DOMAIN jobs /\ jobs[i].status = "leased" /\ jobs[i].timer > 0

Holds(p, i) ==
  /\ i \in DOMAIN jobs
  /\ jobs[i].status = "leased"
  /\ jobs[i].lease_owner = p
  /\ jobs[i].generation = pipeline[p].generation
  /\ jobs[i].timer > 0

(* Fault: an expired lease is as good as a live one. *)
LeaseOfGeneration(p) ==
  /\ generation = pipeline[p].generation
  /\ pipeline[p].ids \subseteq DOMAIN jobs

ValidLease(p) ==
  /\ generation = pipeline[p].generation
  /\ \A i \in pipeline[p].ids : Holds(p, i)

GoesTo(p, step) == pipeline' = [pipeline EXCEPT ![p].step = step]

Ends(p) == pipeline' = [pipeline EXCEPT ![p] = Idle]

Rewrites(p, Row(_)) ==
  jobs' = [i \in DOMAIN jobs |-> IF i \in pipeline[p].ids THEN Row(jobs[i]) ELSE jobs[i]]

Renewed(row) == [row EXCEPT !.timer = JobLease]
Called(row) == [row EXCEPT !.llm_call_count = @ + 1]

HasCalls(p) == \A i \in pipeline[p].ids : jobs[i].llm_call_count < MaxCalls

(* reserve_llm_call, then the provider call it was made for.               *)
Reserve(p) ==
  /\ pipeline[p].step \in {"claimed", "renewed"}
  /\ ValidLease(p)
  /\ HasCalls(p)
  /\ Rewrites(p, Called)
  /\ GoesTo(p, IF pipeline[p].step = "claimed" THEN "calling" ELSE "recalling")
  /\ UNCHANGED <<issued, generation, active, begun, compaction, turns, events>>

(* _ProviderLeaseHeartbeat.  One that finds the lease lost ends the call   *)
(* with an error; nothing else can come of it, for the lease stays lost.   *)
Heartbeat(p) ==
  /\ pipeline[p].step \in {"calling", "recalling"}
  /\ ValidLease(p)
  /\ Rewrites(p, Renewed)
  /\ UNCHANGED <<issued, generation, active, begun, compaction, pipeline, turns, events>>

(* A truncated or malformed first answer is repaired with a second call.   *)
AnswerMalformed(p) ==
  /\ pipeline[p].step = "calling"
  /\ GoesTo(p, "malformed")
  /\ UNCHANGED <<jobs, issued, generation, active, begun, compaction, turns, events>>

RenewForRepair(p) ==
  /\ pipeline[p].step = "malformed"
  /\ ValidLease(p)
  /\ Rewrites(p, Renewed)
  /\ GoesTo(p, "renewed")
  /\ UNCHANGED <<issued, generation, active, begun, compaction, turns, events>>

(* Fault: the thread's checkpoint follows whatever was extracted last. *)
LastTurn(m, n) == n

Greater(m, n) == IF m < n THEN n ELSE m

NewestTurn(S) == CHOOSE n \in {jobs[i].sequence : i \in S} : \A i \in S : jobs[i].sequence <= n

Thread(p) == jobs[CHOOSE i \in pipeline[p].ids : TRUE].thread

FirstOf(S) == CHOOSE i \in S : \A j \in S : i <= j

(* complete_extraction: the checkpoint of the thread, the candidates, and  *)
(* a consolidation job for them, if there are any.                         *)
CompleteExtraction(p, spawns) ==
  LET ids == pipeline[p].ids
      done == [i \in DOMAIN jobs |->
                 IF i \notin ids THEN jobs[i]
                 ELSE End(jobs[i], IF spawns THEN "succeeded" ELSE "succeeded_no_output",
                          "none", "none")]
  IN  /\ pipeline[p].step \in {"calling", "recalling"}
      /\ pipeline[p].kind = "extraction"
      /\ ValidLease(p)
      /\ compaction' = [compaction EXCEPT ![Thread(p)] = Greater(@, NewestTurn(ids))]
      /\ issued' = IF spawns THEN issued + 1 ELSE issued
      /\ jobs' = IF ~ spawns THEN done
                 ELSE [i \in DOMAIN jobs \cup {issued'} |->
                         IF i = issued' THEN NewJob("consolidation", Thread(p), 0, FirstOf(ids))
                         ELSE done[i]]
      /\ Ends(p)
      /\ UNCHANGED <<generation, active, begun, turns, events>>

(* apply_consolidation: every candidate is consolidated or rejected, and   *)
(* an item is created, or none.                                            *)
Consolidated(row, created) ==
  End(row, IF created THEN "succeeded" ELSE "succeeded_no_output", "resolved", "none")

ApplyConsolidation(p, created) ==
  LET Applied(row) == Consolidated(row, created)
  IN  /\ pipeline[p].step \in {"calling", "recalling"}
      /\ pipeline[p].kind = "consolidation"
      /\ ValidLease(p)
      /\ Rewrites(p, Applied)
      /\ Ends(p)
      /\ UNCHANGED <<issued, generation, active, begun, compaction, turns, events>>

(* The input does not fit the model: complete_job_without_output.  In a    *)
(* repair this is a failure.                                               *)
Skipped(row) == End(row, "succeeded_no_output", Suppress(row), "other")

CapacitySkip(p) ==
  /\ pipeline[p].step \in {"claimed", "calling"}
  /\ ValidLease(p)
  /\ Rewrites(p, Skipped)
  /\ Ends(p)
  /\ UNCHANGED <<issued, generation, active, begun, compaction, turns, events>>

(* Errors, as far as they are told apart: a provider error that may pass,  *)
(* a database that stays locked, and any other.                            *)
Errors == {"LLMTransientError", "OperationalError", "MemoryStorageError", "other"}

(* The store's connection turns what sqlite raises into an error of its    *)
(* own; this is what the pipeline gets to see of a locked database.        *)
Wrapped(error) == IF error = "OperationalError" THEN "MemoryStorageError" ELSE error

IsTransientPrimaryError(error) == error \in {"LLMTransientError", "OperationalError"}

(* Fault: the attempts are not counted. *)
AlwaysRetried(p, error) == IsTransientPrimaryError(error)

IsRetried(p, error) ==
  IsTransientPrimaryError(error) /\ pipeline[p].attempt_count < MaxAttempts

(* _handle_primary_failure: defer_job_retry or fail_job.                   *)
HandlePrimaryFailure(p, error) ==
  LET Deferred(row) == RetryWait(row, error)
      Given(row) == Failed(row, error)
  IN  /\ ValidLease(p)
      /\ IF IsRetried(p, error) THEN Rewrites(p, Deferred) ELSE Rewrites(p, Given)
      /\ Ends(p)
      /\ UNCHANGED <<issued, generation, active, begun, compaction, turns, events>>

(* The first provider call fails.                                          *)
ProviderFails(p, error) ==
  /\ pipeline[p].step = "calling"
  /\ HandlePrimaryFailure(p, error)

(* The database is locked when the input is read, a call is reserved, or   *)
(* the result is written, and free again for the failure.                  *)
StoreIsBusy(p) ==
  /\ pipeline[p].step \in {"claimed", "calling", "recalling"}
  /\ HandlePrimaryFailure(p, Wrapped("OperationalError"))

(* No call is left, the store rejects the result, or a repair fails.       *)
FailJob(p) ==
  LET Given(row) == Failed(row, "other")
  IN  /\ Works(p)
      /\ ValidLease(p)
      /\ Rewrites(p, Given)
      /\ Ends(p)
      /\ UNCHANGED <<issued, generation, active, begun, compaction, turns, events>>

(* The lease is lost: whatever comes of the batch is refused.              *)
LateResult(p) ==
  /\ Works(p)
  /\ ~ ValidLease(p)
  /\ Ends(p)
  /\ UNCHANGED <<jobs, issued, generation, active, begun, compaction, turns, events>>

(* The process ends and is started again under a new owner, or the failure *)
(* of the batch cannot be recorded: the lease is left to expire.           *)
Abandon(p) ==
  /\ pipeline[p].step # "idle"
  /\ events < MaxEvents
  /\ events' = events + 1
  /\ Ends(p)
  /\ UNCHANGED <<jobs, issued, generation, active, begun, compaction, turns>>

Ticked(row) == [row EXCEPT !.timer = IF @ = 0 THEN 0 ELSE @ - 1,
                           !.age = IF @ = 0 THEN 0 ELSE @ - 1]

Tick ==
  /\ \E i \in DOMAIN jobs : jobs[i].timer > 0 \/ jobs[i].age > 0
  /\ jobs' = [i \in DOMAIN jobs |-> Ticked(jobs[i])]
  /\ UNCHANGED <<issued, generation, active, begun, compaction, pipeline, turns, events>>

-----------------------------------------------------------------------------
(* What ends the work on a batch, or takes it on.                          *)
Progress(p) ==
  \/ WorkerClaims(p)
  \/ \E allowed \in SUBSET DOMAIN jobs : FlushClaimsConsolidation(p, allowed)
  \/ Reserve(p)
  \/ AnswerMalformed(p)
  \/ RenewForRepair(p)
  \/ \E spawns \in BOOLEAN : CompleteExtraction(p, spawns)
  \/ \E created \in BOOLEAN : ApplyConsolidation(p, created)
  \/ CapacitySkip(p)
  \/ FailJob(p)
  \/ \E error \in {"LLMTransientError", "other"} : ProviderFails(p, error)
  \/ StoreIsBusy(p)
  \/ LateResult(p)

Next ==
  \/ BeginTurn
  \/ \E t \in Threads : \E sequence \in 1..begun[t] : EndTurn(t, sequence)
  \/ StartNewThread
  \/ Clear
  \/ Recover
  \/ Tick
  \/ \E p \in Processes :
       \/ Progress(p)
       \/ \E allowed \in SUBSET DOMAIN jobs : FlushClaims(p, allowed)
       \/ Heartbeat(p)
       \/ Abandon(p)

Spec == Init /\ [][Next]_vars

(* Workers poll, provider calls return, and time passes.                   *)
Fairness == WF_vars(Tick) /\ \A p \in Processes : WF_vars(Progress(p))

FairSpec == Spec /\ Fairness

-----------------------------------------------------------------------------
JobType ==
  [kind : {"extraction", "consolidation"}, thread : Threads, sequence : Nat, source : Nat,
   status : {"pending", "leased", "retry_wait"} \cup Finished, generation : Nat,
   attempt_count : 0..MaxAttempts, llm_call_count : 0..MaxCalls,
   lease_owner : Processes \cup {NoOwner}, timer : Nat, age : Nat,
   last_error : Errors \cup {"none"},
   candidates : {"none", "pending", "resolved", "suppressed"}]

(* The types of the rows and of the pipelines.                             *)
TypeOK ==
  /\ issued \in Nat
  /\ DOMAIN jobs \subseteq 1..issued
  /\ jobs \in [DOMAIN jobs -> JobType]
  /\ generation \in Nat \ {0}
  /\ active \in Threads
  /\ begun \in [Threads -> Nat]
  /\ compaction \in [Threads -> Nat]
  /\ pipeline \in [Processes ->
       [step : Steps \cup {"idle", "worker", "flush"}, ids : SUBSET (1..issued),
        kind : {"extraction", "consolidation"}, generation : Nat,
        attempt_count : 0..MaxAttempts]]
  /\ turns \in Nat
  /\ events \in Nat

(* A job that waits to be claimed can be worked on: it has an attempt left *)
(* and a call for it.  Nothing is scheduled only to be found spent.        *)
WaitingJobsHaveBudget ==
  \A i \in DOMAIN jobs :
    jobs[i].status \in {"pending", "retry_wait"} => ~ IsSpent(jobs[i])

(* While a pipeline can still write, the rows of its batch are the ones it *)
(* claimed: one kind and thread, and the attempt it decides by is theirs.  *)
BatchIsTheClaim ==
  \A p \in Processes : Works(p) /\ ValidLease(p) =>
    /\ pipeline[p].ids # {}
    /\ \A i, j \in pipeline[p].ids :
         /\ jobs[i].kind = pipeline[p].kind
         /\ jobs[i].thread = jobs[j].thread
         /\ jobs[i].attempt_count = pipeline[p].attempt_count
         /\ SameCounts(jobs[i], jobs[j])

(* Candidates are pending exactly while a job is to decide about them; in  *)
(* particular none is left behind when its job fails, is skipped or loses  *)
(* its last lease.                                                         *)
CandidatesFollowTheirJob ==
  \A i \in DOMAIN jobs : ~ IsExtraction(jobs[i]) =>
    (jobs[i].candidates = "pending" <=> ~ IsFinished(jobs[i]))

(* The queue of a thread is worked on from its head: nothing in front of a *)
(* leased extraction job is left waiting.                                  *)
HeadOfLine ==
  \A i, j \in DOMAIN jobs :
    /\ IsExtraction(jobs[i]) /\ IsExtraction(jobs[j]) /\ jobs[i].thread = jobs[j].thread
    /\ jobs[i].status = "leased" /\ j < i
    => IsFinished(jobs[j]) \/ (jobs[j].status = "leased" /\ jobs[j].lease_owner = jobs[i].lease_owner)

(* The candidates of an extraction are committed once: every consolidation *)
(* job comes from an extraction that succeeded, no two from the same one.  *)
ExtractedOnce ==
  \A i \in DOMAIN jobs : ~ IsExtraction(jobs[i]) =>
    /\ jobs[i].source \in DOMAIN jobs
    /\ jobs[jobs[i].source].status = "succeeded"
    /\ \A j \in DOMAIN jobs \ {i} :
         ~ IsExtraction(jobs[j]) => jobs[j].source # jobs[i].source

(* The checkpoint of a thread is that of a turn which was extracted, and   *)
(* of none older than any turn whose candidates were committed.            *)
CheckpointIsNewest ==
  /\ \A i \in DOMAIN jobs :
       IsExtraction(jobs[i]) /\ jobs[i].status = "succeeded" =>
         jobs[i].sequence <= compaction[jobs[i].thread]
  /\ \A t \in Threads : compaction[t] > 0 =>
       \E i \in DOMAIN jobs :
         /\ IsExtraction(jobs[i]) /\ jobs[i].thread = t /\ jobs[i].sequence = compaction[t]
         /\ jobs[i].status \in {"succeeded", "succeeded_no_output"}

(* What is finished stays as it is until the memory is cleared: no late    *)
(* answer, expired lease or second worker changes it.                      *)
FinishedIsFinal ==
  [][\A i \in DOMAIN jobs \cap DOMAIN jobs' : IsFinished(jobs[i]) => jobs'[i] = jobs[i]]_vars

(* Every job is finished or cleared in the end, whatever the provider      *)
(* answers and whoever crashes: no job waits for ever behind another.      *)
EveryJobEnds ==
  \A i \in 1..(2 * MaxTurns) :
    (i \in DOMAIN jobs /\ ~ IsFinished(jobs[i])) ~> ~ (i \in DOMAIN jobs /\ ~ IsFinished(jobs[i]))

(* Of a job the ledger keeps its thread, its attempts and its outcome.     *)
Entry(row) ==
  [thread |-> IF IsExtraction(row) THEN row.thread ELSE 0,
   runs |-> row.attempt_count,
   state |-> IF row.status = "succeeded" THEN "committed"
             ELSE IF IsFinished(row) THEN "dropped" ELSE "open"]

Ledger == INSTANCE JobLedger WITH ledger <- [i \in DOMAIN jobs |-> Entry(jobs[i])]

(* The queue with its leases, fences, retries and crashes keeps what the   *)
(* ledger promises.                                                        *)
KeepsTheLedger == Ledger!Spec

=============================================================================
