--------------------------- MODULE MemoryJobsProofs ---------------------------
(***************************************************************************)
(* MemoryJobs' safety properties hold for any number of processes, turns   *)
(* and threads, and for all limits that leave a call to every attempt.     *)
(*                                                                         *)
(* The invariants the runs check speak of the rows or of the pipelines.    *)
(* What makes them inductive is how the two belong together: what a row    *)
(* has left in each status (RowsInv), what a pipeline knows of the rows it *)
(* still holds (BatchInv), and that the leases of a thread begin and end   *)
(* together at the head of its queue (Ordered).                            *)
(*                                                                         *)
(* MemoryJobs implements JobLedger: with Entry as what is kept of a row,   *)
(* every step of the queue and its pipelines is a step of the ledger or    *)
(* changes nothing in it.                                                  *)
(***************************************************************************)
EXTENDS MemoryJobs, FiniteSetTheorems, WellFoundedInduction, TLAPS

-----------------------------------------------------------------------------
(* The inductive invariant.                                                *)

RowInv(row) ==
  /\ IsFinished(row) => row.timer = 0 /\ row.age = 0
  /\ row.status = "pending" => row.attempt_count = 0
  /\ row.status = "retry_wait" => row.attempt_count < MaxAttempts
  /\ row.llm_call_count <= 2 * row.attempt_count
  /\ ~ IsExtraction(row) => (row.candidates = "pending" <=> ~ IsFinished(row))

RowsInv == \A i \in DOMAIN jobs : RowInv(jobs[i]) /\ jobs[i].generation = generation

(* Of two extraction jobs of a thread in some rows.                        *)
SameQueue(rows, i, j) ==
  IsExtraction(rows[i]) /\ IsExtraction(rows[j]) /\ rows[i].thread = rows[j].thread

Ordered(rows) ==
  \A i, j \in DOMAIN rows : SameQueue(rows, i, j) /\ rows[i].status = "leased" =>
    /\ j < i => IsFinished(rows[j]) \/ rows[j].status = "leased"
    /\ rows[j].status = "leased" =>
         rows[i].lease_owner = rows[j].lease_owner /\ rows[i].timer = rows[j].timer

(* The calls an attempt has made when its pipeline is at a step.           *)
Calls(p) ==
  LET before == 2 * (pipeline[p].attempt_count - 1)
  IN  IF pipeline[p].step = "claimed" THEN before
      ELSE IF pipeline[p].step = "recalling" THEN before + 2 ELSE before + 1

(* What a pipeline knows of a row it holds, and of the other leased rows   *)
(* of the thread: there are none.                                          *)
RowOfBatch(p, i) ==
  /\ jobs[i].kind = pipeline[p].kind
  /\ jobs[i].attempt_count = pipeline[p].attempt_count
  /\ jobs[i].llm_call_count <= Calls(p)
  /\ \A j \in DOMAIN jobs : SameQueue(jobs, i, j) /\ jobs[j].status = "leased" =>
       j \in pipeline[p].ids

BatchOf(p) ==
  /\ pipeline[p].ids # {} /\ pipeline[p].attempt_count > 0
  /\ pipeline[p].kind = "consolidation" => \E i \in pipeline[p].ids : pipeline[p].ids = {i}
  /\ \A i \in pipeline[p].ids : Holds(p, i) => RowOfBatch(p, i)
  /\ \A i, j \in pipeline[p].ids : Holds(p, i) /\ Holds(p, j) =>
       jobs[i].thread = jobs[j].thread /\ SameCounts(jobs[i], jobs[j])

BatchInv == \A p \in Processes : Works(p) => BatchOf(p)

IInv == TypeOK /\ RowsInv /\ Ordered(jobs) /\ BatchInv

(* What the constants are, in the form the provers need.                   *)
LEMMA Constants ==
  /\ NoOwner \notin Processes
  /\ JobLease \in Nat /\ JobLease > 0
  /\ MaxAttempts \in Nat /\ MaxAttempts > 0
  /\ MaxCalls \in Nat /\ MaxCalls > 0 /\ 2 * (MaxAttempts - 1) < MaxCalls
  /\ MaxThreads \in Nat /\ MaxThreads > 0
  /\ BatchSize \in Nat /\ BatchSize > 0
  /\ RetryDelay \in Nat /\ ExtractionMaxWait \in Nat
<1>1. /\ JobLease \in {JobLease, BatchSize, MaxAttempts, MaxCalls, MaxThreads}
      /\ MaxAttempts \in {JobLease, BatchSize, MaxAttempts, MaxCalls, MaxThreads}
      /\ MaxCalls \in {JobLease, BatchSize, MaxAttempts, MaxCalls, MaxThreads}
      /\ MaxThreads \in {JobLease, BatchSize, MaxAttempts, MaxCalls, MaxThreads}
      /\ BatchSize \in {JobLease, BatchSize, MaxAttempts, MaxCalls, MaxThreads}
  OBVIOUS
<1>2. /\ RetryDelay \in {RetryDelay, ExtractionMaxWait, Threshold, MaxTurns, MaxEvents}
      /\ ExtractionMaxWait \in {RetryDelay, ExtractionMaxWait, Threshold, MaxTurns, MaxEvents}
  OBVIOUS
<1>3. /\ JobLease \in Nat \ {0} /\ MaxAttempts \in Nat \ {0} /\ MaxCalls \in Nat \ {0}
      /\ MaxThreads \in Nat \ {0} /\ BatchSize \in Nat \ {0}
      /\ RetryDelay \in Nat /\ ExtractionMaxWait \in Nat
  BY <1>1, <1>2, JobAssumption
<1> QED
  BY <1>3, JobAssumption, BudgetAssumption

(* Sets of naturals have a least element and, if bounded, a greatest one.  *)
LEMMA Minimum ==
  ASSUME NEW S \in SUBSET Nat, S # {}
  PROVE  \E m \in S : \A n \in S : m <= n
<1>1. PICK m \in S : \A n \in S : ~ (<<n, m>> \in OpToRel(<, Nat))
  BY NatLessThanWellFounded, WFMin
<1>2. \A n \in S : ~ (n < m)
  BY <1>1 DEF OpToRel
<1> QED
  BY <1>2

LEMMA Maximum ==
  ASSUME NEW S \in SUBSET Nat, S # {}, NEW b \in Nat, \A n \in S : n <= b
  PROVE  \E m \in S : \A n \in S : n <= m
<1> DEFINE T == {m \in Nat : \A n \in S : n <= m}
<1>1. PICK m \in T : \A n \in T : m <= n
  BY Minimum, b \in T
<1>2. ASSUME m \notin S PROVE FALSE
  <2>1. \A n \in S : n < m
    BY <1>1, <1>2
  <2>2. PICK n \in S : TRUE
    OBVIOUS
  <2>3. m - 1 \in T
    BY <2>1, <2>2
  <2> QED
    BY <1>1, <2>3
<1> QED
  BY <1>1, <1>2

-----------------------------------------------------------------------------
(* Rows: what becomes of one when it ends, waits, is leased, is called for *)
(* or ages.                                                                *)

SameJob(row, old) ==
  /\ row.kind = old.kind /\ row.thread = old.thread /\ row.sequence = old.sequence
  /\ row.source = old.source /\ row.generation = old.generation

LEMMA EndRow ==
  ASSUME NEW row \in JobType, NEW status \in Finished, NEW error \in Errors \cup {"none"},
         NEW candidates \in {"none", "resolved", "suppressed"}
  PROVE  LET new == End(row, status, candidates, error)
         IN  /\ new \in JobType /\ RowInv(new) /\ SameJob(new, row)
             /\ new.status = status
<1> DEFINE new == End(row, status, candidates, error)
<1>0. 0 \in 0..MaxAttempts /\ 0 \in 0..MaxCalls
  BY Constants
<1>1. new \in JobType
  BY <1>0 DEF JobType, End, Finished
<1>2. SameJob(new, row) /\ new.status = status /\ new.timer = 0 /\ new.age = 0
  BY DEF JobType, End, SameJob
<1>3. new.attempt_count = 0 /\ new.llm_call_count = 0 /\ new.candidates = candidates
  BY DEF JobType, End
<1>4. RowInv(new)
  BY <1>2, <1>3 DEF RowInv, IsFinished, Finished
<1> QED
  BY <1>1, <1>2, <1>4

LEMMA FailedRow ==
  ASSUME NEW row \in JobType, NEW error \in Errors \cup {"none"}
  PROVE  LET new == Failed(row, error)
         IN  /\ new \in JobType /\ RowInv(new) /\ SameJob(new, row)
             /\ new.status = "failed"
<1>1. Suppress(row) \in {"none", "resolved", "suppressed"}
  BY DEF Suppress
<1> QED
  BY <1>1, EndRow DEF Failed, Finished

LEMMA RetryRow ==
  ASSUME NEW row \in JobType, RowInv(row), NEW error \in Errors \cup {"none"},
         row.attempt_count < MaxAttempts, ~ IsFinished(row)
  PROVE  LET new == RetryWait(row, error)
         IN  /\ new \in JobType /\ RowInv(new) /\ SameJob(new, row)
             /\ new.status = "retry_wait"
             /\ new.attempt_count = row.attempt_count
<1> DEFINE new == RetryWait(row, error)
<1>1. new \in JobType
  BY Constants DEF JobType, RetryWait
<1>2. SameJob(new, row) /\ new.status = "retry_wait"
  BY DEF JobType, RetryWait, SameJob
<1>3. /\ new.attempt_count = row.attempt_count /\ new.llm_call_count = row.llm_call_count
      /\ new.candidates = row.candidates
  BY DEF JobType, RetryWait
<1>4. RowInv(new)
  BY <1>2, <1>3 DEF RowInv, IsFinished, Finished, IsExtraction, SameJob
<1> QED
  BY <1>1, <1>2, <1>3, <1>4

LEMMA LeasedRow ==
  ASSUME NEW row \in JobType, RowInv(row), NEW p \in Processes,
         row.attempt_count < MaxAttempts, ~ IsFinished(row)
  PROVE  LET new == Leased(row, p)
         IN  /\ new \in JobType /\ RowInv(new) /\ SameJob(new, row)
             /\ new.status = "leased" /\ new.lease_owner = p /\ new.timer = JobLease
             /\ new.attempt_count = row.attempt_count + 1
             /\ new.llm_call_count = row.llm_call_count
<1> DEFINE new == Leased(row, p)
<1>0. /\ row.attempt_count \in Nat /\ row.llm_call_count \in Nat
      /\ row.attempt_count + 1 \in 0..MaxAttempts
  BY Constants DEF JobType
<1>1. new \in JobType
  BY <1>0, Constants DEF JobType, Leased
<1>2. /\ SameJob(new, row) /\ new.status = "leased" /\ new.lease_owner = p
      /\ new.timer = JobLease
  BY DEF JobType, Leased, SameJob
<1>3. /\ new.attempt_count = row.attempt_count + 1
      /\ new.llm_call_count = row.llm_call_count
      /\ new.candidates = row.candidates
  BY DEF JobType, Leased
<1>5. RowInv(new)
  BY <1>0, <1>2, <1>3 DEF RowInv, IsFinished, Finished, IsExtraction, SameJob
<1> QED
  BY <1>1, <1>2, <1>3, <1>5

LEMMA CalledRow ==
  ASSUME NEW row \in JobType, RowInv(row), row.llm_call_count < MaxCalls,
         row.llm_call_count < 2 * row.attempt_count
  PROVE  LET new == Called(row)
         IN  /\ new \in JobType /\ RowInv(new) /\ SameJob(new, row)
             /\ new.status = row.status /\ new.lease_owner = row.lease_owner
             /\ new.timer = row.timer /\ new.attempt_count = row.attempt_count
             /\ new.llm_call_count = row.llm_call_count + 1
<1> DEFINE new == Called(row)
<1>0. /\ row.attempt_count \in Nat /\ row.llm_call_count \in Nat
      /\ row.llm_call_count + 1 \in 0..MaxCalls
  BY Constants DEF JobType
<1>1. new \in JobType
  BY <1>0 DEF JobType, Called
<1>2. /\ SameJob(new, row) /\ new.status = row.status /\ new.lease_owner = row.lease_owner
      /\ new.timer = row.timer /\ new.age = row.age
  BY DEF JobType, Called, SameJob
<1>3. /\ new.attempt_count = row.attempt_count
      /\ new.llm_call_count = row.llm_call_count + 1
      /\ new.candidates = row.candidates
  BY DEF JobType, Called
<1>5. RowInv(new)
  BY <1>0, <1>2, <1>3 DEF RowInv, IsFinished, IsExtraction, SameJob
<1> QED
  BY <1>1, <1>2, <1>3, <1>5

LEMMA RenewedRow ==
  ASSUME NEW row \in JobType, RowInv(row), ~ IsFinished(row)
  PROVE  LET new == Renewed(row)
         IN  /\ new \in JobType /\ RowInv(new) /\ SameJob(new, row)
             /\ new.status = row.status /\ new.lease_owner = row.lease_owner
             /\ new.timer = JobLease /\ new.attempt_count = row.attempt_count
             /\ new.llm_call_count = row.llm_call_count
<1> DEFINE new == Renewed(row)
<1>1. new \in JobType
  BY Constants DEF JobType, Renewed
<1>2. /\ SameJob(new, row) /\ new.status = row.status /\ new.lease_owner = row.lease_owner
      /\ new.timer = JobLease /\ new.age = row.age
  BY DEF JobType, Renewed, SameJob
<1>3. /\ new.attempt_count = row.attempt_count
      /\ new.llm_call_count = row.llm_call_count
      /\ new.candidates = row.candidates
  BY DEF JobType, Renewed
<1>4. RowInv(new)
  BY <1>2, <1>3 DEF RowInv, IsFinished, IsExtraction, SameJob
<1> QED
  BY <1>1, <1>2, <1>3, <1>4

LEMMA TickedRow ==
  ASSUME NEW row \in JobType, RowInv(row)
  PROVE  LET new == Ticked(row)
         IN  /\ new \in JobType /\ RowInv(new) /\ SameJob(new, row)
             /\ new.status = row.status /\ new.lease_owner = row.lease_owner
             /\ new.timer = IF row.timer = 0 THEN 0 ELSE row.timer - 1
             /\ new.attempt_count = row.attempt_count
             /\ new.llm_call_count = row.llm_call_count
             /\ IsFinished(row) => new = row
<1> DEFINE new == Ticked(row)
<1>0. row.timer \in Nat /\ row.age \in Nat
  BY DEF JobType
<1>a. /\ (IF row.timer = 0 THEN 0 ELSE row.timer - 1) \in Nat
      /\ (IF row.age = 0 THEN 0 ELSE row.age - 1) \in Nat
  BY <1>0
<1>1. new \in JobType
  BY <1>a DEF JobType, Ticked
<1>2. /\ SameJob(new, row) /\ new.status = row.status /\ new.lease_owner = row.lease_owner
      /\ new.timer = (IF row.timer = 0 THEN 0 ELSE row.timer - 1)
      /\ new.age = (IF row.age = 0 THEN 0 ELSE row.age - 1)
  BY DEF JobType, Ticked, SameJob
<1>3. /\ new.attempt_count = row.attempt_count
      /\ new.llm_call_count = row.llm_call_count
      /\ new.candidates = row.candidates
  BY DEF JobType, Ticked
<1>4. RowInv(new)
  BY <1>2, <1>3 DEF RowInv, IsFinished, IsExtraction, SameJob
<1>5. IsFinished(row) => new = row
  BY DEF JobType, Ticked, RowInv
<1> QED
  BY <1>1, <1>2, <1>3, <1>4, <1>5

(* A waiting row of the current generation is not spent.                   *)
LEMMA WaitingRow ==
  ASSUME NEW row \in JobType, RowInv(row), row.status \in {"pending", "retry_wait"}
  PROVE  ~ IsSpent(row) /\ ~ IsFinished(row) /\ row.attempt_count < MaxAttempts
<1>1. row.attempt_count \in Nat /\ row.llm_call_count \in Nat
  BY DEF JobType
<1>2. row.attempt_count <= MaxAttempts - 1
  BY <1>1, Constants DEF RowInv
<1>3. row.llm_call_count <= 2 * row.attempt_count
  BY DEF RowInv
<1>4. row.llm_call_count <= 2 * (MaxAttempts - 1)
  BY <1>1, <1>2, <1>3, Constants
<1> QED
  BY <1>1, <1>2, <1>4, Constants DEF IsSpent, IsFinished, Finished

LEMMA TypedRow ==
  ASSUME TypeOK, NEW i \in DOMAIN jobs
  PROVE  /\ jobs[i] \in JobType /\ i \in Nat /\ i > 0 /\ i <= issued
         /\ jobs[i].timer \in Nat /\ jobs[i].age \in Nat /\ jobs[i].attempt_count \in Nat
         /\ jobs[i].llm_call_count \in Nat /\ jobs[i].thread \in Threads
         /\ jobs[i].attempt_count <= MaxAttempts
<1>1. jobs[i] \in JobType /\ i \in 1..issued /\ issued \in Nat
  BY DEF TypeOK
<1> QED
  BY <1>1, Constants DEF JobType

LEMMA TypedPipeline ==
  ASSUME TypeOK, NEW p \in Processes
  PROVE  /\ pipeline[p].ids \subseteq 1..issued /\ pipeline[p].attempt_count \in Nat
         /\ pipeline[p].attempt_count \in 0..MaxAttempts
         /\ pipeline[p].generation \in Nat
         /\ pipeline[p].kind \in {"extraction", "consolidation"}
         /\ DOMAIN pipeline = Processes
BY Constants DEF TypeOK

-----------------------------------------------------------------------------
(* What steps have in common: rows are kept, that is none is leased, and   *)
(* no lost lease comes back.                                               *)

Keeps(row, old) ==
  /\ SameJob(row, old)
  /\ IsFinished(old) => row = old
  /\ row.status = "leased" =>
       /\ old.status = "leased"
       /\ row.lease_owner = old.lease_owner
       /\ row.attempt_count = old.attempt_count
       /\ row.timer > 0 => old.timer > 0

(* A row keeps what its job is, and is not changed once it is finished.    *)
Survive ==
  \A i \in DOMAIN jobs \cap DOMAIN jobs' :
    SameJob(jobs'[i], jobs[i]) /\ (IsFinished(jobs[i]) => jobs'[i] = jobs[i])

(* Rows are kept, and leases that began together end together.             *)
RowsKeep(new, old) ==
  /\ \A i \in DOMAIN new :
       IF i \in DOMAIN old THEN Keeps(new[i], old[i])
       ELSE new[i].status = "pending" /\ \A j \in DOMAIN old : j < i
  /\ \A i, j \in DOMAIN new \cap DOMAIN old :
       /\ SameQueue(old, i, j) /\ old[i].status = "leased" /\ old[j].status = "leased"
       /\ old[i].timer = old[j].timer /\ new[i].status = "leased"
       => new[j].status = "leased" /\ new[i].timer = new[j].timer

LEMMA OrderKept ==
  ASSUME NEW old, NEW new, Ordered(old), RowsKeep(new, old),
         DOMAIN new \subseteq Nat, DOMAIN old \subseteq Nat
  PROVE  Ordered(new)
<1> SUFFICES ASSUME NEW i \in DOMAIN new, NEW j \in DOMAIN new,
                    SameQueue(new, i, j), new[i].status = "leased"
             PROVE  /\ j < i => IsFinished(new[j]) \/ new[j].status = "leased"
                    /\ new[j].status = "leased" =>
                         new[i].lease_owner = new[j].lease_owner /\ new[i].timer = new[j].timer
  BY DEF Ordered
<1>1. i \in DOMAIN old
  BY DEF RowsKeep
<1>2. CASE j \notin DOMAIN old
  <2>1. new[j].status = "pending" /\ i < j
    BY <1>1, <1>2 DEF RowsKeep
  <2>2. i \in Nat /\ j \in Nat
    OBVIOUS
  <2> QED
    BY <2>1, <2>2
<1>3. CASE j \in DOMAIN old
  <2>1. Keeps(new[i], old[i]) /\ Keeps(new[j], old[j])
    BY <1>1, <1>3 DEF RowsKeep
  <2>2. SameQueue(old, i, j) /\ old[i].status = "leased"
    BY <2>1 DEF Keeps, SameJob, SameQueue, IsExtraction
  <2>3. /\ j < i => IsFinished(old[j]) \/ old[j].status = "leased"
        /\ old[j].status = "leased" =>
             old[i].lease_owner = old[j].lease_owner /\ old[i].timer = old[j].timer
    BY <1>1, <1>3, <2>2 DEF Ordered
  <2>4. CASE old[j].status = "leased"
    <3>1. new[j].status = "leased" /\ new[i].timer = new[j].timer
      BY <1>1, <1>3, <2>2, <2>3, <2>4 DEF RowsKeep
    <3> QED
      BY <2>1, <2>3, <2>4, <3>1 DEF Keeps
  <2>5. CASE old[j].status # "leased"
    <3>1. new[j].status # "leased"
      BY <2>1, <2>5 DEF Keeps
    <3>2. j < i => IsFinished(new[j])
      BY <2>1, <2>3, <2>5 DEF Keeps
    <3> QED
      BY <3>1, <3>2
  <2> QED
    BY <2>4, <2>5
<1> QED
  BY <1>2, <1>3

(* What a pipeline holds after a step that keeps the rows it held before,  *)
(* and knows what it knew.                                                 *)
LEMMA BatchKept ==
  ASSUME TypeOK, NEW q \in Processes, BatchOf(q), RowsKeep(jobs', jobs),
         NEW c \in Nat,
         \A i \in DOMAIN jobs' \ DOMAIN jobs : i > issued,
         pipeline'[q].ids = pipeline[q].ids, pipeline'[q].kind = pipeline[q].kind,
         pipeline'[q].generation = pipeline[q].generation,
         pipeline'[q].attempt_count = pipeline[q].attempt_count,
         Calls(q)' = Calls(q) + c,
         \A i \in pipeline[q].ids : Holds(q, i)' =>
           jobs'[i].llm_call_count = jobs[i].llm_call_count + c
  PROVE  BatchOf(q)'
<1> USE TypedPipeline
<1>0. issued \in Nat
  BY DEF TypeOK
<1>1. ASSUME NEW i \in pipeline[q].ids, Holds(q, i)'
      PROVE  i \in DOMAIN jobs /\ Keeps(jobs'[i], jobs[i]) /\ Holds(q, i)
  <2>1. i \in DOMAIN jobs
    BY <1>0, <1>1 DEF Holds
  <2>2. Keeps(jobs'[i], jobs[i])
    BY <1>1, <2>1 DEF Holds, RowsKeep
  <2> QED
    BY <1>1, <2>1, <2>2 DEF Holds, Keeps, SameJob
<1>2. /\ pipeline'[q].ids # {} /\ pipeline'[q].attempt_count > 0
      /\ pipeline'[q].kind = "consolidation" =>
           \E i \in pipeline'[q].ids : pipeline'[q].ids = {i}
  BY DEF BatchOf
<1>3. ASSUME NEW i \in pipeline[q].ids, Holds(q, i)'
      PROVE  RowOfBatch(q, i)'
  <2>1. i \in DOMAIN jobs /\ Keeps(jobs'[i], jobs[i]) /\ Holds(q, i)
    BY <1>1, <1>3
  <2>2. RowOfBatch(q, i)
    BY <2>1 DEF BatchOf
  <2>3. jobs'[i].kind = pipeline'[q].kind /\ jobs'[i].attempt_count = pipeline'[q].attempt_count
    BY <1>3, <2>1, <2>2 DEF RowOfBatch, Keeps, SameJob, Holds
  <2>4. jobs'[i].llm_call_count <= Calls(q)'
    <3>1. jobs[i].llm_call_count \in Nat
      BY <2>1, TypedRow
    <3>2. Calls(q) \in Int
      BY DEF Calls
    <3> QED
      BY <1>3, <2>2, <3>1, <3>2 DEF RowOfBatch
  <2>5. ASSUME NEW j \in DOMAIN jobs', SameQueue(jobs', i, j), jobs'[j].status = "leased"
        PROVE  j \in pipeline'[q].ids
    <3>1. j \in DOMAIN jobs /\ Keeps(jobs'[j], jobs[j])
      BY <2>5 DEF RowsKeep
    <3>2. SameQueue(jobs, i, j) /\ jobs[j].status = "leased"
      BY <2>1, <2>5, <3>1 DEF Keeps, SameJob, SameQueue, IsExtraction
    <3> QED
      BY <2>2, <3>1, <3>2 DEF RowOfBatch
  <2> QED
    BY <2>3, <2>4, <2>5 DEF RowOfBatch
<1>4. ASSUME NEW i \in pipeline[q].ids, NEW j \in pipeline[q].ids, Holds(q, i)', Holds(q, j)'
      PROVE  (jobs[i].thread = jobs[j].thread /\ SameCounts(jobs[i], jobs[j]))'
  <2>1. /\ Keeps(jobs'[i], jobs[i]) /\ Keeps(jobs'[j], jobs[j])
        /\ jobs[i].thread = jobs[j].thread /\ SameCounts(jobs[i], jobs[j])
    BY <1>1, <1>4 DEF BatchOf
  <2>2. /\ jobs'[i].llm_call_count = jobs[i].llm_call_count + c
        /\ jobs'[j].llm_call_count = jobs[j].llm_call_count + c
    BY <1>4
  <2> QED
    BY <1>4, <2>1, <2>2 DEF Keeps, SameJob, SameCounts, Holds
<1> QED
  BY <1>2, <1>3, <1>4 DEF BatchOf

-----------------------------------------------------------------------------
(* A step that keeps the rows preserves the invariant, if every pipeline   *)
(* that works goes on with its batch, and counts the calls it makes.       *)

Follows(q) ==
  Works(q)' =>
    /\ Works(q)
    /\ pipeline'[q].ids = pipeline[q].ids /\ pipeline'[q].kind = pipeline[q].kind
    /\ pipeline'[q].generation = pipeline[q].generation
    /\ pipeline'[q].attempt_count = pipeline[q].attempt_count
    /\ \E c \in Nat :
         /\ Calls(q)' = Calls(q) + c
         /\ \A i \in pipeline[q].ids : Holds(q, i)' =>
              jobs'[i].llm_call_count = jobs[i].llm_call_count + c

LEMMA KeepInv ==
  ASSUME IInv, TypeOK', RowsInv', RowsKeep(jobs', jobs),
         \A i \in DOMAIN jobs' \ DOMAIN jobs : i > issued,
         \A q \in Processes : Follows(q)
  PROVE  IInv' /\ Survive
<1>1. DOMAIN jobs \subseteq Nat /\ DOMAIN jobs' \subseteq Nat
  BY DEF IInv, TypeOK
<1>2. Ordered(jobs)'
  BY <1>1, OrderKept DEF IInv
<1>3. BatchInv'
  <2> SUFFICES ASSUME NEW q \in Processes, Works(q)'
               PROVE  BatchOf(q)'
    BY DEF BatchInv
  <2>1. /\ Works(q)
        /\ pipeline'[q].ids = pipeline[q].ids /\ pipeline'[q].kind = pipeline[q].kind
        /\ pipeline'[q].generation = pipeline[q].generation
        /\ pipeline'[q].attempt_count = pipeline[q].attempt_count
    BY DEF Follows
  <2>2. PICK c \in Nat :
          /\ Calls(q)' = Calls(q) + c
          /\ \A i \in pipeline[q].ids : Holds(q, i)' =>
               jobs'[i].llm_call_count = jobs[i].llm_call_count + c
    BY DEF Follows
  <2>3. BatchOf(q)
    BY <2>1 DEF IInv, BatchInv
  <2> QED
    BY <2>1, <2>2, <2>3, BatchKept DEF IInv
<1>4. Survive
  BY DEF Survive, RowsKeep, Keeps
<1> QED
  BY <1>2, <1>3, <1>4 DEF IInv

(* A pipeline that stays as it is follows a step in which no call is       *)
(* counted for its rows, and so does one that stops.                       *)
LEMMA SameFollows ==
  ASSUME TypeOK, NEW q \in Processes, pipeline'[q] = pipeline[q],
         \A i \in pipeline[q].ids : Holds(q, i)' =>
           jobs'[i].llm_call_count = jobs[i].llm_call_count,
         \A i \in DOMAIN jobs' \ DOMAIN jobs : i > issued
  PROVE  Follows(q)
<1>1. Calls(q)' = Calls(q) + 0
  <2>1. Calls(q)' = Calls(q)
    BY DEF Calls
  <2>2. Calls(q) \in Int
    BY TypedPipeline DEF Calls
  <2> QED
    BY <2>1, <2>2
<1>2. ASSUME NEW i \in pipeline[q].ids, Holds(q, i)'
      PROVE  jobs'[i].llm_call_count = jobs[i].llm_call_count + 0
  <2>1. i \in DOMAIN jobs
    BY <1>2, TypedPipeline DEF Holds, TypeOK
  <2> QED
    BY <1>2, <2>1, TypedRow
<1> QED
  BY <1>1, <1>2 DEF Follows, Works

LEMMA StoppedFollows ==
  ASSUME NEW q \in Processes, pipeline'[q].step \notin Steps
  PROVE  Follows(q)
BY DEF Follows, Works

(* The pipelines' types, when one goes on or stops.                        *)
PipelineType(last) ==
  [Processes -> [step : Steps \cup {"idle", "worker", "flush"}, ids : SUBSET (1..last),
                 kind : {"extraction", "consolidation"}, generation : Nat,
                 attempt_count : 0..MaxAttempts]]

LEMMA IdleType ==
  ASSUME NEW last \in Nat
  PROVE  Idle \in [step : Steps \cup {"idle", "worker", "flush"}, ids : SUBSET (1..last),
                   kind : {"extraction", "consolidation"}, generation : Nat,
                   attempt_count : 0..MaxAttempts]
BY Constants DEF Idle

LEMMA EndsType ==
  ASSUME TypeOK, NEW p \in Processes, Ends(p), issued' \in Nat, issued <= issued'
  PROVE  /\ pipeline' \in PipelineType(issued')
         /\ pipeline'[p] = Idle
         /\ \A q \in Processes \ {p} : pipeline'[q] = pipeline[q]
<1>1. pipeline \in PipelineType(issued) /\ issued \in Nat
  BY DEF TypeOK, PipelineType
<1>2. 1..issued \subseteq 1..issued'
  BY <1>1
<1>3. pipeline \in PipelineType(issued')
  BY <1>1, <1>2 DEF PipelineType
<1> QED
  BY <1>3, IdleType DEF Ends, PipelineType

LEMMA GoesToType ==
  ASSUME TypeOK, NEW p \in Processes, NEW step \in Steps, GoesTo(p, step)
  PROVE  /\ pipeline' \in PipelineType(issued)
         /\ pipeline'[p] = [pipeline[p] EXCEPT !.step = step]
         /\ pipeline'[p].step = step /\ pipeline'[p].ids = pipeline[p].ids
         /\ pipeline'[p].kind = pipeline[p].kind
         /\ pipeline'[p].generation = pipeline[p].generation
         /\ pipeline'[p].attempt_count = pipeline[p].attempt_count
         /\ \A q \in Processes \ {p} : pipeline'[q] = pipeline[q]
<1>1. pipeline \in PipelineType(issued)
  BY DEF TypeOK, PipelineType
<1> QED
  BY <1>1 DEF GoesTo, PipelineType

(* Rows in front of, behind and in the batch of a pipeline that holds it.  *)
LEMMA HeldBatch ==
  ASSUME IInv, NEW p \in Processes, Works(p), ValidLease(p)
  PROVE  /\ pipeline[p].ids # {} /\ pipeline[p].ids \subseteq DOMAIN jobs
         /\ pipeline[p].generation = generation /\ pipeline[p].attempt_count > 0
         /\ pipeline[p].kind = "consolidation" =>
              \E i \in pipeline[p].ids : pipeline[p].ids = {i}
         /\ \A i \in pipeline[p].ids :
              /\ jobs[i] \in JobType /\ RowInv(jobs[i]) /\ jobs[i].status = "leased"
              /\ jobs[i].lease_owner = p /\ jobs[i].timer > 0 /\ ~ IsFinished(jobs[i])
              /\ jobs[i].generation = generation
              /\ RowOfBatch(p, i)
         /\ \A i, j \in pipeline[p].ids :
              jobs[i].thread = jobs[j].thread /\ SameCounts(jobs[i], jobs[j])
         /\ \A q \in Processes \ {p} : \A i \in pipeline[p].ids : ~ Holds(q, i)
<1>1. BatchOf(p)
  BY DEF IInv, BatchInv
<1>2. ASSUME NEW i \in pipeline[p].ids
      PROVE  /\ i \in DOMAIN jobs /\ jobs[i].status = "leased" /\ jobs[i].lease_owner = p
             /\ jobs[i].timer > 0 /\ Holds(p, i)
  BY DEF ValidLease, Holds
<1>3. ASSUME NEW i \in pipeline[p].ids
      PROVE  jobs[i] \in JobType /\ RowInv(jobs[i]) /\ jobs[i].generation = generation
  BY <1>2, TypedRow DEF IInv, RowsInv
<1>4. \A i \in pipeline[p].ids : RowOfBatch(p, i) /\ ~ IsFinished(jobs[i])
  BY <1>1, <1>2 DEF BatchOf, IsFinished, Finished
<1>5. \A i, j \in pipeline[p].ids :
        jobs[i].thread = jobs[j].thread /\ SameCounts(jobs[i], jobs[j])
  BY <1>1, <1>2 DEF BatchOf
<1>6. \A q \in Processes \ {p} : \A i \in pipeline[p].ids : ~ Holds(q, i)
  BY <1>2 DEF Holds
<1> QED
  BY <1>1, <1>2, <1>3, <1>4, <1>5, <1>6 DEF BatchOf, ValidLease

(* The holder of a batch settles it, possibly with a new job, and stops.   *)
Settled(row, old) ==
  row \in JobType /\ RowInv(row) /\ SameJob(row, old) /\ row.status # "leased"

Rest == UNCHANGED <<generation, active, begun, turns>>

LEMMA BatchEnds ==
  ASSUME IInv, NEW p \in Processes, Works(p), ValidLease(p), Ends(p), Rest,
         events' = events, compaction' \in [Threads -> Nat],
         issued' \in Nat, issued <= issued',
         jobs' = [i \in DOMAIN jobs' |-> jobs'[i]],
         DOMAIN jobs \subseteq DOMAIN jobs',
         \A i \in DOMAIN jobs' \ DOMAIN jobs :
           /\ i \in 1..issued' /\ i > issued
           /\ jobs'[i] \in JobType /\ RowInv(jobs'[i])
           /\ jobs'[i].generation = generation /\ jobs'[i].status = "pending",
         \A i \in DOMAIN jobs \ pipeline[p].ids : jobs'[i] = jobs[i],
         \A i \in pipeline[p].ids : Settled(jobs'[i], jobs[i])
  PROVE  IInv' /\ Survive
<1> DEFINE ids == pipeline[p].ids
<1>1. /\ ids \subseteq DOMAIN jobs
      /\ \A i \in ids : jobs[i].status = "leased" /\ ~ IsFinished(jobs[i]) /\ RowOfBatch(p, i)
      /\ \A i \in ids : jobs[i].generation = generation
  BY HeldBatch
<1>2. DOMAIN jobs \subseteq 1..issued /\ issued \in Nat
  BY DEF IInv, TypeOK
<1>3. \A i \in DOMAIN jobs' :
        /\ jobs'[i] \in JobType /\ RowInv(jobs'[i]) /\ jobs'[i].generation = generation
  <2> SUFFICES ASSUME NEW i \in DOMAIN jobs'
               PROVE  /\ jobs'[i] \in JobType /\ RowInv(jobs'[i])
                      /\ jobs'[i].generation = generation
    OBVIOUS
  <2>1. CASE i \notin DOMAIN jobs
    BY <2>1
  <2>2. CASE i \in ids
    BY <1>1, <2>2 DEF Settled, SameJob
  <2>3. CASE i \in DOMAIN jobs \ ids
    BY <2>3, TypedRow DEF IInv, RowsInv
  <2> QED
    BY <2>1, <2>2, <2>3
<1>4. TypeOK'
  <2>1. pipeline' \in PipelineType(issued')
    BY EndsType DEF IInv
  <2>2. DOMAIN jobs' \subseteq 1..issued'
    BY <1>2
  <2>3. jobs' \in [DOMAIN jobs' -> JobType]
    BY <1>3
  <2> QED
    BY <2>1, <2>2, <2>3 DEF TypeOK, PipelineType, IInv, Rest
<1>5. RowsInv'
  BY <1>3 DEF RowsInv, Rest
<1>6. RowsKeep(jobs', jobs)
  <2>1. ASSUME NEW i \in DOMAIN jobs'
        PROVE  IF i \in DOMAIN jobs THEN Keeps(jobs'[i], jobs[i])
               ELSE jobs'[i].status = "pending" /\ \A j \in DOMAIN jobs : j < i
    <3>1. CASE i \notin DOMAIN jobs
      BY <1>2, <3>1
    <3>2. CASE i \in ids
      BY <1>1, <3>2 DEF Settled, Keeps
    <3>3. CASE i \in DOMAIN jobs \ ids
      BY <3>3 DEF Keeps, SameJob
    <3> QED
      BY <3>1, <3>2, <3>3
  <2>2. ASSUME NEW i \in DOMAIN jobs, NEW j \in DOMAIN jobs, SameQueue(jobs, i, j),
               jobs[i].status = "leased", jobs[j].status = "leased",
               jobs[i].timer = jobs[j].timer, jobs'[i].status = "leased"
        PROVE  jobs'[j].status = "leased" /\ jobs'[i].timer = jobs'[j].timer
    <3>1. i \notin ids
      BY <2>2 DEF Settled
    <3>2. j \notin ids
      BY <1>1, <2>2, <3>1 DEF RowOfBatch, SameQueue
    <3> QED
      BY <2>2, <3>1, <3>2
  <2> QED
    BY <2>1, <2>2 DEF RowsKeep
<1>7. ASSUME NEW q \in Processes
      PROVE  Follows(q)
  <2>1. CASE q = p
    <3>1. pipeline'[p].step = "idle"
      BY EndsType DEF IInv, Idle
    <3> QED
      BY <2>1, <3>1, StoppedFollows DEF Steps
  <2>2. CASE q # p
    <3>1. pipeline'[q] = pipeline[q]
      BY <2>2, EndsType DEF IInv
    <3>2. ASSUME NEW i \in pipeline[q].ids, Holds(q, i)'
          PROVE  jobs'[i].llm_call_count = jobs[i].llm_call_count
      <4>1. i \notin ids
        BY <3>2 DEF Settled, Holds
      <4>2. i \in DOMAIN jobs
        BY <1>2, <3>2, TypedPipeline DEF Holds, IInv
      <4> QED
        BY <4>1, <4>2
    <3> QED
      BY <3>1, <3>2, SameFollows DEF IInv
  <2> QED
    BY <2>1, <2>2
<1> QED
  BY <1>4, <1>5, <1>6, <1>7, KeepInv

(* The holder of a batch goes on with it: the rows stay leased to it, with *)
(* the same timers or with new ones, and c calls more.                     *)
GoesOn(row, old, c) ==
  /\ row \in JobType /\ RowInv(row) /\ SameJob(row, old)
  /\ row.status = "leased" /\ row.lease_owner = old.lease_owner
  /\ row.attempt_count = old.attempt_count
  /\ row.llm_call_count = old.llm_call_count + c

LEMMA BatchGoesOn ==
  ASSUME IInv, NEW p \in Processes, Works(p), ValidLease(p), Rest, events' = events,
         UNCHANGED <<issued, compaction>>, pipeline' \in PipelineType(issued),
         \A q \in Processes \ {p} : pipeline'[q] = pipeline[q],
         pipeline'[p].ids = pipeline[p].ids, pipeline'[p].kind = pipeline[p].kind,
         pipeline'[p].generation = pipeline[p].generation,
         pipeline'[p].attempt_count = pipeline[p].attempt_count,
         NEW c \in Nat, Calls(p)' = Calls(p) + c,
         DOMAIN jobs' = DOMAIN jobs, jobs' = [i \in DOMAIN jobs |-> jobs'[i]],
         \A i \in DOMAIN jobs \ pipeline[p].ids : jobs'[i] = jobs[i],
         \A i \in pipeline[p].ids : GoesOn(jobs'[i], jobs[i], c),
         \/ \A i \in pipeline[p].ids : jobs'[i].timer = jobs[i].timer
         \/ \A i \in pipeline[p].ids : jobs'[i].timer = JobLease
  PROVE  IInv' /\ Survive
<1> DEFINE ids == pipeline[p].ids
<1>1. /\ ids \subseteq DOMAIN jobs
      /\ \A i \in ids : /\ jobs[i].status = "leased" /\ ~ IsFinished(jobs[i])
                        /\ RowOfBatch(p, i) /\ jobs[i].timer > 0
      /\ \A i \in ids : jobs[i].generation = generation
      /\ \A q \in Processes \ {p} : \A i \in ids : ~ Holds(q, i)
  BY HeldBatch
<1>2. DOMAIN jobs \subseteq 1..issued /\ issued \in Nat
  BY DEF IInv, TypeOK
<1>3. \A i \in DOMAIN jobs :
        /\ jobs'[i] \in JobType /\ RowInv(jobs'[i]) /\ jobs'[i].generation = generation
  <2> SUFFICES ASSUME NEW i \in DOMAIN jobs
               PROVE  /\ jobs'[i] \in JobType /\ RowInv(jobs'[i])
                      /\ jobs'[i].generation = generation
    OBVIOUS
  <2>1. CASE i \in ids
    BY <1>1, <2>1 DEF GoesOn, SameJob
  <2>2. CASE i \in DOMAIN jobs \ ids
    BY <2>2, TypedRow DEF IInv, RowsInv
  <2> QED
    BY <2>1, <2>2
<1>4. TypeOK'
  <2>1. jobs' \in [DOMAIN jobs' -> JobType]
    BY <1>3
  <2> QED
    BY <2>1 DEF TypeOK, PipelineType, IInv, Rest
<1>5. RowsInv'
  BY <1>3 DEF RowsInv, Rest
<1>6. ASSUME NEW i \in DOMAIN jobs
      PROVE  Keeps(jobs'[i], jobs[i])
  <2>1. CASE i \in ids
    BY <1>1, <2>1 DEF GoesOn, Keeps
  <2>2. CASE i \notin ids
    BY <2>2 DEF Keeps, SameJob
  <2> QED
    BY <2>1, <2>2
<1>7. RowsKeep(jobs', jobs)
  <2> SUFFICES ASSUME NEW i \in DOMAIN jobs, NEW j \in DOMAIN jobs, SameQueue(jobs, i, j),
                      jobs[i].status = "leased", jobs[j].status = "leased",
                      jobs[i].timer = jobs[j].timer
               PROVE  jobs'[j].status = "leased" /\ jobs'[i].timer = jobs'[j].timer
    BY <1>6 DEF RowsKeep
  <2>1. i \in ids <=> j \in ids
    BY <1>1 DEF RowOfBatch, SameQueue
  <2> QED
    BY <2>1 DEF GoesOn
<1>8. ASSUME NEW q \in Processes
      PROVE  Follows(q)
  <2>1. CASE q = p
    BY <2>1 DEF Follows, GoesOn
  <2>2. CASE q # p
    <3>1. ASSUME NEW i \in pipeline[q].ids, Holds(q, i)'
          PROVE  jobs'[i].llm_call_count = jobs[i].llm_call_count
      <4>1. i \in DOMAIN jobs /\ Keeps(jobs'[i], jobs[i])
        BY <1>6, <3>1 DEF Holds
      <4>2. Holds(q, i)
        BY <2>2, <3>1, <4>1 DEF Holds, Keeps, SameJob
      <4>3. i \notin ids
        BY <1>1, <2>2, <4>2
      <4> QED
        BY <4>1, <4>3
    <3> QED
      BY <2>2, <3>1, SameFollows DEF IInv
  <2> QED
    BY <2>1, <2>2
<1> QED
  BY <1>4, <1>5, <1>7, <1>8, KeepInv

-----------------------------------------------------------------------------
(* The actions.                                                            *)

(* Of steps that change neither a row nor a batch.                         *)
LEMMA SameRows ==
  ASSUME IInv, TypeOK', UNCHANGED <<jobs, issued, generation>>,
         \A q \in Processes : Follows(q)
  PROVE  IInv' /\ Survive
<1>1. RowsInv'
  BY DEF IInv, RowsInv
<1>2. RowsKeep(jobs', jobs)
  BY DEF RowsKeep, Keeps, SameJob
<1> QED
  BY <1>1, <1>2, KeepInv

LEMMA SameRowsFollow ==
  ASSUME TypeOK, jobs' = jobs, NEW q \in Processes, pipeline'[q] = pipeline[q]
  PROVE  Follows(q)
BY SameFollows

LEMMA NextThread ==
  ASSUME TypeOK, active < MaxThreads
  PROVE  active + 1 \in Threads
<1>1. active \in 1..MaxThreads
  BY DEF TypeOK, Threads
<1> QED
  BY <1>1, Constants DEF Threads

LEMMA BeginTurnInv == IInv /\ BeginTurn => IInv' /\ Survive
<1> SUFFICES ASSUME IInv, BeginTurn PROVE IInv' /\ Survive
  OBVIOUS
<1>1. TypeOK'
  BY DEF IInv, TypeOK, BeginTurn
<1> QED
  BY <1>1, SameRows, SameRowsFollow DEF BeginTurn, IInv

LEMMA StartNewThreadInv == IInv /\ StartNewThread => IInv' /\ Survive
<1> SUFFICES ASSUME IInv, StartNewThread PROVE IInv' /\ Survive
  OBVIOUS
<1>1. active' \in Threads
  BY NextThread DEF IInv, StartNewThread
<1>2. TypeOK'
  BY <1>1 DEF IInv, TypeOK, StartNewThread
<1> QED
  BY <1>2, SameRows, SameRowsFollow DEF StartNewThread, IInv

LEMMA ClearInv == IInv /\ Clear => IInv' /\ Survive
<1> SUFFICES ASSUME IInv, Clear PROVE IInv' /\ Survive
  OBVIOUS
<1>1. DOMAIN jobs' = {}
  BY DEF Clear
<1>2. TypeOK'
  <2>1. active' \in Threads
    BY NextThread DEF IInv, Clear
  <2>2. jobs' \in [DOMAIN jobs' -> JobType]
    BY DEF Clear
  <2> QED
    BY <1>1, <2>1, <2>2 DEF IInv, TypeOK, Clear
<1>3. RowsInv' /\ RowsKeep(jobs', jobs)
  BY <1>1 DEF RowsInv, RowsKeep
<1>4. ASSUME NEW q \in Processes PROVE Follows(q)
  BY <1>1, SameFollows DEF Clear, IInv, Holds
<1> QED
  BY <1>1, <1>2, <1>3, <1>4, KeepInv

LEMMA AnswerMalformedInv ==
  ASSUME IInv, NEW p \in Processes, AnswerMalformed(p)
  PROVE  IInv' /\ Survive
<1>1. GoesTo(p, "malformed") /\ "malformed" \in Steps /\ pipeline[p].step = "calling"
  BY DEF AnswerMalformed, Steps
<1>2. TypeOK'
  BY <1>1, GoesToType DEF IInv, TypeOK, PipelineType, AnswerMalformed
<1>3. Calls(p)' = Calls(p) + 0
  <2>1. pipeline'[p].step = "malformed" /\ pipeline'[p].attempt_count = pipeline[p].attempt_count
    BY <1>1, GoesToType DEF IInv
  <2>2. pipeline[p].attempt_count \in Nat
    BY TypedPipeline DEF IInv
  <2> QED
    BY <1>1, <2>1, <2>2 DEF Calls
<1>4. ASSUME NEW q \in Processes PROVE Follows(q)
  <2>1. CASE q = p
    <3>1. ASSUME NEW i \in pipeline[p].ids, Holds(p, i)'
          PROVE  jobs'[i].llm_call_count = jobs[i].llm_call_count + 0
      <4>1. i \in DOMAIN jobs /\ jobs' = jobs
        BY <3>1 DEF Holds, AnswerMalformed
      <4> QED
        BY <4>1, TypedRow DEF IInv
    <3>2. Works(p)
      BY <1>1 DEF Works, Steps
    <3> QED
      BY <1>1, <1>3, <2>1, <3>1, <3>2, GoesToType DEF Follows, IInv
  <2>2. CASE q # p
    BY <1>1, <2>2, GoesToType, SameRowsFollow, ZenonT(40) DEF IInv, AnswerMalformed
  <2> QED
    BY <2>1, <2>2
<1> QED
  BY <1>2, <1>4, SameRows DEF AnswerMalformed

(* A pipeline that gives its batch up.                                     *)
LEMMA GivesUp ==
  ASSUME IInv, NEW p \in Processes, Ends(p), events' \in Nat,
         UNCHANGED <<jobs, issued, generation, active, begun, compaction, turns>>
  PROVE  IInv' /\ Survive
<1>1. issued' \in Nat /\ issued <= issued'
  BY DEF IInv, TypeOK
<1>2. TypeOK'
  BY <1>1, EndsType DEF IInv, TypeOK, PipelineType
<1>3. ASSUME NEW q \in Processes PROVE Follows(q)
  <2>1. CASE q = p
    <3>1. pipeline'[p].step = "idle"
      BY <1>1, EndsType DEF IInv, Idle
    <3> QED
      BY <2>1, <3>1, StoppedFollows DEF Steps
  <2>2. CASE q # p
    BY <1>1, <2>2, EndsType, SameRowsFollow DEF IInv
  <2> QED
    BY <2>1, <2>2
<1> QED
  BY <1>2, <1>3, SameRows

LEMMA LateResultInv ==
  ASSUME IInv, NEW p \in Processes, LateResult(p)
  PROVE  IInv' /\ Survive
BY GivesUp DEF LateResult, IInv, TypeOK

LEMMA AbandonInv ==
  ASSUME IInv, NEW p \in Processes, Abandon(p)
  PROVE  IInv' /\ Survive
BY GivesUp DEF Abandon, IInv, TypeOK

LEMMA NewJobRow ==
  ASSUME TypeOK, NEW kind \in {"extraction", "consolidation"}, NEW t \in Threads,
         NEW sequence \in Nat, NEW source \in Nat
  PROVE  LET new == NewJob(kind, t, sequence, source)
         IN  /\ new \in JobType /\ RowInv(new) /\ new.status = "pending"
             /\ new.generation = generation
<1> DEFINE new == NewJob(kind, t, sequence, source)
<1>0. 0 \in 0..MaxAttempts /\ 0 \in 0..MaxCalls /\ ExtractionMaxWait \in Nat
  BY Constants
<1>1. new \in JobType
  BY <1>0 DEF JobType, NewJob, TypeOK
<1>2. RowInv(new)
  BY DEF RowInv, NewJob, IsFinished, Finished, IsExtraction
<1> QED
  BY <1>1, <1>2 DEF NewJob

LEMMA EndTurnInv ==
  ASSUME IInv, NEW t \in Threads, NEW sequence \in 1..begun[t], EndTurn(t, sequence)
  PROVE  IInv' /\ Survive
<1> DEFINE new == NewJob("extraction", t, sequence, 0)
<1>1. issued \in Nat /\ DOMAIN jobs \subseteq 1..issued /\ issued' = issued + 1
  BY DEF IInv, TypeOK, EndTurn
<1>2. /\ DOMAIN jobs' = DOMAIN jobs \cup {issued'}
      /\ jobs'[issued'] = new /\ \A i \in DOMAIN jobs : jobs'[i] = jobs[i]
  BY <1>1 DEF EndTurn
<1>3. /\ new \in JobType /\ RowInv(new) /\ new.status = "pending"
      /\ new.generation = generation
  <2>1. sequence \in Nat
    BY DEF IInv, TypeOK
  <2> QED
    BY <2>1, NewJobRow DEF IInv
<1>4. \A i \in DOMAIN jobs' :
        jobs'[i] \in JobType /\ RowInv(jobs'[i]) /\ jobs'[i].generation = generation
  BY <1>2, <1>3, TypedRow DEF IInv, RowsInv
<1>5. TypeOK'
  <2>1. jobs' \in [DOMAIN jobs' -> JobType]
    <3>1. jobs' = [i \in DOMAIN jobs' |-> jobs'[i]]
      BY DEF EndTurn
    <3> QED
      BY <1>4, <3>1
  <2>2. pipeline \in PipelineType(issued')
    <3>1. 1..issued \subseteq 1..issued'
      BY <1>1
    <3> QED
      BY <3>1 DEF IInv, TypeOK, PipelineType
  <2>3. DOMAIN jobs' \subseteq 1..issued' /\ issued' \in Nat
    BY <1>1, <1>2
  <2> QED
    BY <2>1, <2>2, <2>3 DEF IInv, TypeOK, PipelineType, EndTurn
<1>6. RowsInv'
  BY <1>4 DEF RowsInv, EndTurn
<1>7. RowsKeep(jobs', jobs)
  BY <1>1, <1>2, <1>3 DEF RowsKeep, Keeps, SameJob
<1>8. \A i \in DOMAIN jobs' \ DOMAIN jobs : i > issued
  BY <1>1, <1>2
<1>9. ASSUME NEW q \in Processes PROVE Follows(q)
  <2>1. ASSUME NEW i \in pipeline[q].ids, Holds(q, i)'
        PROVE  jobs'[i].llm_call_count = jobs[i].llm_call_count
    <3>1. i \in DOMAIN jobs
      BY <1>1, <1>8, <2>1, TypedPipeline DEF Holds, IInv
    <3> QED
      BY <1>2, <3>1
  <2> QED
    BY <1>8, <2>1, SameFollows DEF IInv, EndTurn
<1> QED
  BY <1>5, <1>6, <1>7, <1>8, <1>9, KeepInv

LEMMA TickInv == IInv /\ Tick => IInv' /\ Survive
<1> SUFFICES ASSUME IInv, Tick PROVE IInv' /\ Survive
  OBVIOUS
<1>1. DOMAIN jobs' = DOMAIN jobs /\ \A i \in DOMAIN jobs : jobs'[i] = Ticked(jobs[i])
  BY DEF Tick
<1>2. ASSUME NEW i \in DOMAIN jobs
      PROVE  /\ jobs'[i] \in JobType /\ RowInv(jobs'[i]) /\ SameJob(jobs'[i], jobs[i])
             /\ jobs'[i].status = jobs[i].status
             /\ jobs'[i].lease_owner = jobs[i].lease_owner
             /\ jobs'[i].timer = IF jobs[i].timer = 0 THEN 0 ELSE jobs[i].timer - 1
             /\ jobs'[i].attempt_count = jobs[i].attempt_count
             /\ jobs'[i].llm_call_count = jobs[i].llm_call_count
             /\ IsFinished(jobs[i]) => jobs'[i] = jobs[i]
  BY <1>1, TypedRow, TickedRow DEF IInv, RowsInv
<1>3. TypeOK'
  <2>1. jobs' = [i \in DOMAIN jobs' |-> jobs'[i]]
    BY DEF Tick
  <2>2. jobs' \in [DOMAIN jobs' -> JobType]
    BY <1>1, <1>2, <2>1
  <2> QED
    BY <1>1, <2>2 DEF IInv, TypeOK, Tick
<1>4. RowsInv'
  BY <1>1, <1>2 DEF RowsInv, SameJob, IInv, Tick
<1>5. RowsKeep(jobs', jobs)
  <2>1. ASSUME NEW i \in DOMAIN jobs
        PROVE  Keeps(jobs'[i], jobs[i])
    <3>1. jobs[i].timer \in Nat
      BY TypedRow DEF IInv
    <3> QED
      BY <1>2, <3>1 DEF Keeps
  <2> QED
    BY <1>1, <1>2, <2>1 DEF RowsKeep
<1>6. ASSUME NEW q \in Processes PROVE Follows(q)
  BY <1>1, <1>2, SameFollows DEF IInv, Tick, Holds
<1> QED
  BY <1>1, <1>3, <1>4, <1>5, <1>6, KeepInv

(* The rows after a reclaim: a row that is leased still was not touched.   *)
LEMMA ReclaimedRows ==
  ASSUME TypeOK, RowsInv
  PROVE  /\ DOMAIN Reclaimed = DOMAIN jobs
         /\ \A i \in DOMAIN jobs :
              /\ Reclaimed[i] \in JobType /\ RowInv(Reclaimed[i])
              /\ Reclaimed[i].generation = generation
              /\ Keeps(Reclaimed[i], jobs[i])
              /\ Reclaimed[i].status = "leased" => Reclaimed[i] = jobs[i]
         /\ RowsKeep(Reclaimed, jobs)
<1>1. DOMAIN Reclaimed = DOMAIN jobs
  BY DEF Reclaimed
<1>2. ASSUME NEW i \in DOMAIN jobs
      PROVE  /\ Reclaimed[i] \in JobType /\ RowInv(Reclaimed[i])
             /\ Reclaimed[i].generation = generation
             /\ Keeps(Reclaimed[i], jobs[i])
             /\ Reclaimed[i].status = "leased" => Reclaimed[i] = jobs[i]
  <2>1. /\ jobs[i] \in JobType /\ RowInv(jobs[i]) /\ jobs[i].generation = generation
        /\ jobs[i].attempt_count \in Nat
    BY TypedRow DEF RowsInv
  <2>2. CASE ~ Expired(jobs[i])
    <3>1. Reclaimed[i] = jobs[i]
      BY <2>2 DEF Reclaimed
    <3> QED
      BY <2>1, <3>1 DEF Keeps, SameJob
  <2>3. CASE Expired(jobs[i]) /\ jobs[i].attempt_count >= MaxAttempts
    <3>1. Reclaimed[i] = Failed(jobs[i], "other")
      BY <2>3 DEF Reclaimed
    <3>2. /\ Reclaimed[i] \in JobType /\ RowInv(Reclaimed[i])
          /\ SameJob(Reclaimed[i], jobs[i]) /\ Reclaimed[i].status = "failed"
      BY <2>1, <3>1, FailedRow DEF Errors
    <3> QED
      BY <2>1, <2>3, <3>2 DEF Keeps, SameJob, Expired, IsFinished, Finished
  <2>4. CASE Expired(jobs[i]) /\ ~ (jobs[i].attempt_count >= MaxAttempts)
    <3>1. Reclaimed[i] = RetryWait(jobs[i], "other")
      BY <2>4 DEF Reclaimed
    <3>2. ~ IsFinished(jobs[i]) /\ jobs[i].attempt_count < MaxAttempts
      BY <2>1, <2>4, Constants DEF Expired, IsFinished, Finished
    <3>3. /\ Reclaimed[i] \in JobType /\ RowInv(Reclaimed[i])
          /\ SameJob(Reclaimed[i], jobs[i]) /\ Reclaimed[i].status = "retry_wait"
      BY <2>1, <3>1, <3>2, RetryRow DEF Errors
    <3> QED
      BY <2>1, <3>2, <3>3 DEF Keeps, SameJob
  <2> QED
    BY <2>2, <2>3, <2>4
<1>3. ASSUME NEW i \in DOMAIN jobs, NEW j \in DOMAIN jobs,
             jobs[i].status = "leased", jobs[j].status = "leased",
             jobs[i].timer = jobs[j].timer, Reclaimed[i].status = "leased"
      PROVE  Reclaimed[j].status = "leased" /\ Reclaimed[i].timer = Reclaimed[j].timer
  <2>1. Reclaimed[i] = jobs[i]
    BY <1>2, <1>3
  <2>2. ~ Expired(jobs[i])
    <3>1. SUFFICES ASSUME Expired(jobs[i]) PROVE FALSE
      OBVIOUS
    <3>2. Reclaimed[i] = Failed(jobs[i], "other") \/ Reclaimed[i] = RetryWait(jobs[i], "other")
      BY <3>1 DEF Reclaimed
    <3>3. jobs[i] \in JobType
      BY TypedRow
    <3> QED
      BY <1>3, <3>2, <3>3 DEF Failed, End, RetryWait, JobType
  <2>3. Reclaimed[j] = jobs[j]
    BY <1>3, <2>2 DEF Reclaimed, Expired
  <2> QED
    BY <1>3, <2>1, <2>3
<1> QED
  BY <1>1, <1>2, <1>3 DEF RowsKeep

LEMMA RecoverInv == IInv /\ Recover => IInv' /\ Survive
<1> SUFFICES ASSUME IInv, Recover PROVE IInv' /\ Survive
  OBVIOUS
<1>1. jobs' = Reclaimed /\ DOMAIN jobs' = DOMAIN jobs
  BY DEF Recover, Reclaimed
<1>2. /\ \A i \in DOMAIN jobs :
           /\ jobs'[i] \in JobType /\ RowInv(jobs'[i]) /\ jobs'[i].generation = generation
           /\ jobs'[i].status = "leased" => jobs'[i] = jobs[i]
      /\ RowsKeep(jobs', jobs)
  BY <1>1, ReclaimedRows DEF IInv
<1>3. TypeOK'
  <2>1. jobs' = [i \in DOMAIN jobs' |-> jobs'[i]]
    BY <1>1 DEF Reclaimed
  <2>2. jobs' \in [DOMAIN jobs' -> JobType]
    BY <1>1, <1>2, <2>1
  <2> QED
    BY <1>1, <2>2 DEF IInv, TypeOK, Recover
<1>4. RowsInv'
  BY <1>1, <1>2 DEF RowsInv, Recover
<1>5. ASSUME NEW q \in Processes PROVE Follows(q)
  BY <1>1, <1>2, SameFollows DEF IInv, Recover, Holds
<1> QED
  BY <1>1, <1>2, <1>3, <1>4, <1>5, KeepInv

-----------------------------------------------------------------------------
(* Work on a batch.                                                        *)

LEMMA ReserveInv ==
  ASSUME IInv, NEW p \in Processes, Reserve(p)
  PROVE  IInv' /\ Survive
<1> DEFINE ids == pipeline[p].ids
           step == IF pipeline[p].step = "claimed" THEN "calling" ELSE "recalling"
<1>1. /\ Works(p) /\ ValidLease(p) /\ step \in Steps /\ GoesTo(p, step)
      /\ pipeline[p].step \in {"claimed", "renewed"}
  BY DEF Reserve, Works, Steps
<1>2. /\ DOMAIN jobs' = DOMAIN jobs /\ jobs' = [i \in DOMAIN jobs |-> jobs'[i]]
      /\ \A i \in DOMAIN jobs \ ids : jobs'[i] = jobs[i]
      /\ \A i \in DOMAIN jobs \cap ids : jobs'[i] = Called(jobs[i])
  BY DEF Reserve, Rewrites
<1>3. Calls(p)' = Calls(p) + 1
  <2>1. pipeline'[p].step = step /\ pipeline'[p].attempt_count = pipeline[p].attempt_count
    BY <1>1, GoesToType DEF IInv
  <2>2. pipeline[p].attempt_count \in Nat
    BY TypedPipeline DEF IInv
  <2> QED
    BY <1>1, <2>1, <2>2 DEF Calls
<1>4. ASSUME NEW i \in ids
      PROVE  GoesOn(jobs'[i], jobs[i], 1) /\ jobs'[i].timer = jobs[i].timer
  <2>1. /\ i \in DOMAIN jobs /\ jobs[i] \in JobType /\ RowInv(jobs[i])
        /\ jobs[i].status = "leased" /\ RowOfBatch(p, i)
    BY <1>1, HeldBatch
  <2>2. jobs[i].llm_call_count < MaxCalls
    BY DEF Reserve, HasCalls
  <2>3. jobs[i].llm_call_count < 2 * jobs[i].attempt_count
    <3>1. jobs[i].llm_call_count \in Nat /\ jobs[i].attempt_count \in Nat
      BY <2>1, TypedRow DEF IInv
    <3>2. /\ jobs[i].llm_call_count <= Calls(p)
          /\ jobs[i].attempt_count = pipeline[p].attempt_count
      BY <2>1 DEF RowOfBatch
    <3>3. Calls(p) < 2 * pipeline[p].attempt_count /\ Calls(p) \in Int
      BY <1>1, <3>1, <3>2 DEF Calls
    <3> QED
      BY <3>1, <3>2, <3>3
  <2>4. jobs'[i] = Called(jobs[i])
    BY <1>2, <2>1
  <2> QED
    BY <2>1, <2>2, <2>3, <2>4, CalledRow DEF GoesOn
<1>5. pipeline' \in PipelineType(issued)
      /\ pipeline'[p].ids = pipeline[p].ids /\ pipeline'[p].kind = pipeline[p].kind
      /\ pipeline'[p].generation = pipeline[p].generation
      /\ pipeline'[p].attempt_count = pipeline[p].attempt_count
      /\ \A q \in Processes \ {p} : pipeline'[q] = pipeline[q]
  BY <1>1, GoesToType DEF IInv
<1>6. Rest /\ events' = events /\ UNCHANGED <<issued, compaction>>
  BY DEF Reserve, Rest
<1> QED
  BY <1>1, <1>2, <1>3, <1>4, <1>5, <1>6, BatchGoesOn

(* The rows of a batch under a renewed lease.                              *)
LEMMA RenewedBatch ==
  ASSUME IInv, NEW p \in Processes, Works(p), ValidLease(p), Rewrites(p, Renewed)
  PROVE  /\ DOMAIN jobs' = DOMAIN jobs /\ jobs' = [i \in DOMAIN jobs |-> jobs'[i]]
         /\ \A i \in DOMAIN jobs \ pipeline[p].ids : jobs'[i] = jobs[i]
         /\ \A i \in pipeline[p].ids : GoesOn(jobs'[i], jobs[i], 0) /\ jobs'[i].timer = JobLease
<1>1. /\ DOMAIN jobs' = DOMAIN jobs /\ jobs' = [i \in DOMAIN jobs |-> jobs'[i]]
      /\ \A i \in DOMAIN jobs \ pipeline[p].ids : jobs'[i] = jobs[i]
      /\ \A i \in DOMAIN jobs \cap pipeline[p].ids : jobs'[i] = Renewed(jobs[i])
  BY DEF Rewrites
<1>2. ASSUME NEW i \in pipeline[p].ids
      PROVE  GoesOn(jobs'[i], jobs[i], 0) /\ jobs'[i].timer = JobLease
  <2>1. /\ i \in DOMAIN jobs /\ jobs[i] \in JobType /\ RowInv(jobs[i])
        /\ jobs[i].status = "leased" /\ ~ IsFinished(jobs[i])
    BY HeldBatch
  <2>2. jobs[i].llm_call_count + 0 = jobs[i].llm_call_count
    BY <2>1, TypedRow DEF IInv
  <2> QED
    BY <1>1, <2>1, <2>2, RenewedRow DEF GoesOn
<1> QED
  BY <1>1, <1>2

LEMMA HeartbeatInv ==
  ASSUME IInv, NEW p \in Processes, Heartbeat(p)
  PROVE  IInv' /\ Survive
<1>1. Works(p) /\ ValidLease(p) /\ Rewrites(p, Renewed) /\ pipeline' = pipeline
  BY DEF Heartbeat, Works, Steps
<1>2. Calls(p)' = Calls(p) + 0
  <2>1. Calls(p) \in Int
    BY TypedPipeline DEF Calls, IInv
  <2>2. Calls(p)' = Calls(p)
    BY <1>1 DEF Calls
  <2> QED
    BY <2>1, <2>2
<1>3. pipeline' \in PipelineType(issued)
  BY <1>1 DEF IInv, TypeOK, PipelineType
<1>4. Rest /\ events' = events /\ UNCHANGED <<issued, compaction>>
  BY DEF Heartbeat, Rest
<1> QED
  BY <1>1, <1>2, <1>3, <1>4, RenewedBatch, BatchGoesOn

LEMMA RenewForRepairInv ==
  ASSUME IInv, NEW p \in Processes, RenewForRepair(p)
  PROVE  IInv' /\ Survive
<1>1. /\ Works(p) /\ ValidLease(p) /\ Rewrites(p, Renewed) /\ GoesTo(p, "renewed")
      /\ "renewed" \in Steps /\ pipeline[p].step = "malformed"
  BY DEF RenewForRepair, Works, Steps
<1>2. Calls(p)' = Calls(p) + 0
  <2>1. /\ pipeline'[p].step = "renewed"
        /\ pipeline'[p].attempt_count = pipeline[p].attempt_count
    BY <1>1, GoesToType DEF IInv
  <2>2. pipeline[p].attempt_count \in Nat
    BY TypedPipeline DEF IInv
  <2> QED
    BY <1>1, <2>1, <2>2 DEF Calls
<1>3. pipeline' \in PipelineType(issued)
      /\ pipeline'[p].ids = pipeline[p].ids /\ pipeline'[p].kind = pipeline[p].kind
      /\ pipeline'[p].generation = pipeline[p].generation
      /\ pipeline'[p].attempt_count = pipeline[p].attempt_count
      /\ \A q \in Processes \ {p} : pipeline'[q] = pipeline[q]
  BY <1>1, GoesToType DEF IInv
<1>4. Rest /\ events' = events /\ UNCHANGED <<issued, compaction>>
  BY DEF RenewForRepair, Rest
<1> QED
  BY <1>1, <1>2, <1>3, <1>4, RenewedBatch, BatchGoesOn

(* A batch that ends without a new job.                                    *)
LEMMA BatchSettles ==
  ASSUME IInv, NEW p \in Processes, Works(p), ValidLease(p), Ends(p), Rest,
         UNCHANGED <<issued, compaction, events>>,
         DOMAIN jobs' = DOMAIN jobs, jobs' = [i \in DOMAIN jobs |-> jobs'[i]],
         \A i \in DOMAIN jobs \ pipeline[p].ids : jobs'[i] = jobs[i],
         \A i \in pipeline[p].ids : Settled(jobs'[i], jobs[i])
  PROVE  IInv' /\ Survive
<1>1. issued' \in Nat /\ issued <= issued' /\ compaction' \in [Threads -> Nat]
  BY DEF IInv, TypeOK
<1>2. DOMAIN jobs \subseteq DOMAIN jobs' /\ DOMAIN jobs' \ DOMAIN jobs = {}
  OBVIOUS
<1> QED
  BY <1>1, <1>2, BatchEnds

LEMMA ApplyConsolidationInv ==
  ASSUME IInv, NEW p \in Processes, NEW created \in BOOLEAN, ApplyConsolidation(p, created)
  PROVE  IInv' /\ Survive
<1>1. Works(p) /\ ValidLease(p) /\ Ends(p) /\ Rest /\ UNCHANGED <<issued, compaction, events>>
  BY DEF ApplyConsolidation, Works, Steps, Rest
<1>2. /\ DOMAIN jobs' = DOMAIN jobs /\ jobs' = [i \in DOMAIN jobs |-> jobs'[i]]
      /\ \A i \in DOMAIN jobs \ pipeline[p].ids : jobs'[i] = jobs[i]
      /\ \A i \in DOMAIN jobs \cap pipeline[p].ids : jobs'[i] = Consolidated(jobs[i], created)
  BY DEF ApplyConsolidation, Rewrites
<1>3. ASSUME NEW i \in pipeline[p].ids
      PROVE  Settled(jobs'[i], jobs[i])
  <2>1. i \in DOMAIN jobs /\ jobs[i] \in JobType
    BY <1>1, HeldBatch
  <2>2. (IF created THEN "succeeded" ELSE "succeeded_no_output") \in Finished
    BY DEF Finished
  <2> QED
    BY <1>2, <2>1, <2>2, EndRow DEF Settled, Consolidated, Finished
<1> QED
  BY <1>1, <1>2, <1>3, BatchSettles

LEMMA CapacitySkipInv ==
  ASSUME IInv, NEW p \in Processes, CapacitySkip(p)
  PROVE  IInv' /\ Survive
<1>1. Works(p) /\ ValidLease(p) /\ Ends(p) /\ Rest /\ UNCHANGED <<issued, compaction, events>>
  BY DEF CapacitySkip, Works, Steps, Rest
<1>2. /\ DOMAIN jobs' = DOMAIN jobs /\ jobs' = [i \in DOMAIN jobs |-> jobs'[i]]
      /\ \A i \in DOMAIN jobs \ pipeline[p].ids : jobs'[i] = jobs[i]
      /\ \A i \in DOMAIN jobs \cap pipeline[p].ids : jobs'[i] = Skipped(jobs[i])
  BY DEF CapacitySkip, Rewrites
<1>3. ASSUME NEW i \in pipeline[p].ids
      PROVE  Settled(jobs'[i], jobs[i])
  <2>1. i \in DOMAIN jobs /\ jobs[i] \in JobType
    BY <1>1, HeldBatch
  <2>2. Suppress(jobs[i]) \in {"none", "resolved", "suppressed"}
    BY DEF Suppress
  <2> QED
    BY <1>2, <2>1, <2>2, EndRow DEF Settled, Skipped, Finished, Errors
<1> QED
  BY <1>1, <1>2, <1>3, BatchSettles

LEMMA FailsBatch ==
  ASSUME IInv, NEW p \in Processes, Works(p), ValidLease(p), Ends(p), Rest,
         UNCHANGED <<issued, compaction, events>>, NEW error \in Errors \cup {"none"},
         jobs' = [i \in DOMAIN jobs |->
                    IF i \in pipeline[p].ids THEN Failed(jobs[i], error) ELSE jobs[i]]
  PROVE  IInv' /\ Survive
<1>1. /\ DOMAIN jobs' = DOMAIN jobs /\ jobs' = [i \in DOMAIN jobs |-> jobs'[i]]
      /\ \A i \in DOMAIN jobs \ pipeline[p].ids : jobs'[i] = jobs[i]
      /\ \A i \in DOMAIN jobs \cap pipeline[p].ids : jobs'[i] = Failed(jobs[i], error)
  OBVIOUS
<1>2. ASSUME NEW i \in pipeline[p].ids
      PROVE  Settled(jobs'[i], jobs[i])
  <2>1. i \in DOMAIN jobs /\ jobs[i] \in JobType
    BY HeldBatch
  <2> QED
    BY <1>1, <2>1, FailedRow DEF Settled
<1> QED
  BY <1>1, <1>2, BatchSettles

LEMMA HandlePrimaryFailureInv ==
  ASSUME IInv, NEW p \in Processes, NEW error \in Errors, Works(p),
         HandlePrimaryFailure(p, error)
  PROVE  IInv' /\ Survive
<1>1. ValidLease(p) /\ Ends(p) /\ Rest /\ UNCHANGED <<issued, compaction, events>>
  BY DEF HandlePrimaryFailure, Rest
<1>2. CASE IsRetried(p, error)
  <2>1. /\ DOMAIN jobs' = DOMAIN jobs /\ jobs' = [i \in DOMAIN jobs |-> jobs'[i]]
        /\ \A i \in DOMAIN jobs \ pipeline[p].ids : jobs'[i] = jobs[i]
        /\ \A i \in DOMAIN jobs \cap pipeline[p].ids : jobs'[i] = RetryWait(jobs[i], error)
    BY <1>2 DEF HandlePrimaryFailure, Rewrites
  <2>2. ASSUME NEW i \in pipeline[p].ids
        PROVE  Settled(jobs'[i], jobs[i])
    <3>1. /\ i \in DOMAIN jobs /\ jobs[i] \in JobType /\ RowInv(jobs[i])
          /\ ~ IsFinished(jobs[i]) /\ RowOfBatch(p, i)
      BY <1>1, HeldBatch
    <3>2. jobs[i].attempt_count < MaxAttempts
      BY <1>2, <3>1 DEF IsRetried, RowOfBatch
    <3> QED
      BY <2>1, <3>1, <3>2, RetryRow DEF Settled
  <2> QED
    BY <1>1, <2>1, <2>2, BatchSettles
<1>3. CASE ~ IsRetried(p, error)
  <2>1. jobs' = [i \in DOMAIN jobs |->
                   IF i \in pipeline[p].ids THEN Failed(jobs[i], error) ELSE jobs[i]]
    BY <1>3 DEF HandlePrimaryFailure, Rewrites
  <2> QED
    BY <1>1, <2>1, FailsBatch
<1> QED
  BY <1>2, <1>3

LEMMA ProviderFailsInv ==
  ASSUME IInv, NEW p \in Processes, NEW error \in {"LLMTransientError", "other"},
         ProviderFails(p, error)
  PROVE  IInv' /\ Survive
BY HandlePrimaryFailureInv DEF ProviderFails, Works, Steps, Errors

LEMMA StoreIsBusyInv ==
  ASSUME IInv, NEW p \in Processes, StoreIsBusy(p)
  PROVE  IInv' /\ Survive
<1>1. Wrapped("OperationalError") \in Errors
  BY DEF Wrapped, Errors
<1> QED
  BY <1>1, HandlePrimaryFailureInv DEF StoreIsBusy, Works, Steps

LEMMA FailJobInv ==
  ASSUME IInv, NEW p \in Processes, FailJob(p)
  PROVE  IInv' /\ Survive
<1>1. /\ Works(p) /\ ValidLease(p) /\ Ends(p) /\ Rest
      /\ UNCHANGED <<issued, compaction, events>>
  BY DEF FailJob, Rest
<1>2. jobs' = [i \in DOMAIN jobs |->
                 IF i \in pipeline[p].ids THEN Failed(jobs[i], "other") ELSE jobs[i]]
  BY DEF FailJob, Rewrites
<1> QED
  BY <1>1, <1>2, FailsBatch DEF Errors

(* The turns of a batch, its thread, and its first job.                    *)
TurnsInv ==
  \A i \in DOMAIN jobs : IsExtraction(jobs[i]) =>
    jobs[i].sequence \in Nat \ {0} /\ jobs[i].sequence <= begun[jobs[i].thread]

LEMMA BatchTurns ==
  ASSUME IInv, TurnsInv, NEW p \in Processes, Works(p), ValidLease(p),
         pipeline[p].kind = "extraction"
  PROVE  LET ids == pipeline[p].ids
         IN  /\ Thread(p) \in Threads
             /\ \A i \in ids : jobs[i].thread = Thread(p) /\ IsExtraction(jobs[i])
             /\ FirstOf(ids) \in ids
             /\ NewestTurn(ids) \in Nat \ {0}
             /\ \E i \in ids : jobs[i].sequence = NewestTurn(ids)
             /\ \A i \in ids : jobs[i].sequence <= NewestTurn(ids)
<1> DEFINE ids == pipeline[p].ids
           turnsOf == {jobs[i].sequence : i \in ids}
<1>1. /\ ids # {} /\ ids \subseteq DOMAIN jobs
      /\ \A i \in ids : RowOfBatch(p, i)
      /\ \A i, j \in ids : jobs[i].thread = jobs[j].thread
  BY HeldBatch
<1>2. PICK t : t = Thread(p)
  OBVIOUS
<1>3. \A i \in ids : jobs[i].thread = t /\ IsExtraction(jobs[i])
  BY <1>1, <1>2 DEF Thread, RowOfBatch, IsExtraction
<1>4. PICK k \in ids : TRUE
  BY <1>1
<1>5. t \in Threads /\ begun[t] \in Nat
  BY <1>1, <1>3, <1>4, TypedRow DEF IInv, TypeOK
<1>6. FirstOf(ids) \in ids
  <2>1. ids \in SUBSET Nat
    BY <1>1, TypedRow DEF IInv
  <2>2. \E m \in ids : \A n \in ids : m <= n
    BY <1>1, <2>1, Minimum
  <2> QED
    BY <2>2 DEF FirstOf
<1>7. \A i \in ids : jobs[i].sequence \in Nat \ {0} /\ jobs[i].sequence <= begun[t]
  BY <1>1, <1>3 DEF TurnsInv
<1>8. \E m \in turnsOf : \A n \in turnsOf : n <= m
  <2>1. turnsOf \in SUBSET Nat /\ turnsOf # {} /\ \A n \in turnsOf : n <= begun[t]
    BY <1>4, <1>7
  <2> QED
    BY <1>5, <2>1, Maximum
<1>9. NewestTurn(ids) \in turnsOf /\ \A i \in ids : jobs[i].sequence <= NewestTurn(ids)
  BY <1>8 DEF NewestTurn
<1> QED
  BY <1>2, <1>3, <1>5, <1>6, <1>7, <1>9

LEMMA CompleteExtractionInv ==
  ASSUME IInv, TurnsInv, NEW p \in Processes, NEW spawns \in BOOLEAN,
         CompleteExtraction(p, spawns)
  PROVE  IInv' /\ Survive
<1> DEFINE ids == pipeline[p].ids
           new == NewJob("consolidation", Thread(p), 0, FirstOf(ids))
<1>1. /\ Works(p) /\ ValidLease(p) /\ Ends(p) /\ Rest /\ events' = events
      /\ pipeline[p].kind = "extraction"
      /\ compaction' = [compaction EXCEPT ![Thread(p)] = Greater(@, NewestTurn(ids))]
      /\ issued' = IF spawns THEN issued + 1 ELSE issued
  BY DEF CompleteExtraction, Works, Steps, Rest
<1>2. /\ Thread(p) \in Threads /\ FirstOf(ids) \in ids /\ NewestTurn(ids) \in Nat
  BY <1>1, BatchTurns
<1>3. /\ issued \in Nat /\ DOMAIN jobs \subseteq 1..issued
      /\ issued' \in Nat /\ issued <= issued'
  BY <1>1 DEF IInv, TypeOK
<1>4. compaction' \in [Threads -> Nat]
  <2>1. compaction \in [Threads -> Nat]
    BY DEF IInv, TypeOK
  <2>2. Greater(compaction[Thread(p)], NewestTurn(ids)) \in Nat
    BY <1>2, <2>1 DEF Greater
  <2> QED
    BY <1>1, <1>2, <2>1, <2>2
<1>5. /\ jobs' = [i \in DOMAIN jobs' |-> jobs'[i]]
      /\ DOMAIN jobs' = IF spawns THEN DOMAIN jobs \cup {issued'} ELSE DOMAIN jobs
      /\ \A i \in DOMAIN jobs \ ids : jobs'[i] = jobs[i]
      /\ \A i \in DOMAIN jobs \cap ids :
           jobs'[i] = End(jobs[i], IF spawns THEN "succeeded" ELSE "succeeded_no_output",
                          "none", "none")
      /\ spawns => jobs'[issued'] = new
  <2> DEFINE done == [i \in DOMAIN jobs |->
                        IF i \notin ids THEN jobs[i]
                        ELSE End(jobs[i], IF spawns THEN "succeeded" ELSE "succeeded_no_output",
                                 "none", "none")]
  <2>1. CASE ~ spawns
    <3>1. jobs' = done
      BY <2>1 DEF CompleteExtraction
    <3> QED
      BY <2>1, <3>1
  <2>2. CASE spawns
    <3>1. jobs' = [i \in DOMAIN jobs \cup {issued'} |-> IF i = issued' THEN new ELSE done[i]]
      BY <2>2 DEF CompleteExtraction
    <3>2. issued' \notin DOMAIN jobs
      BY <1>1, <1>3, <2>2
    <3> QED
      BY <2>2, <3>1, <3>2
  <2> QED
    BY <2>1, <2>2
<1>6. ASSUME NEW i \in DOMAIN jobs' \ DOMAIN jobs
      PROVE  /\ i \in 1..issued' /\ i > issued
             /\ jobs'[i] \in JobType /\ RowInv(jobs'[i])
             /\ jobs'[i].generation = generation /\ jobs'[i].status = "pending"
  <2>1. spawns /\ i = issued' /\ jobs'[i] = new /\ i = issued + 1
    BY <1>1, <1>5, <1>6
  <2>2. FirstOf(ids) \in Nat
    BY <1>1, <1>2, HeldBatch, TypedRow DEF IInv
  <2>3. /\ new \in JobType /\ RowInv(new) /\ new.status = "pending"
        /\ new.generation = generation
    BY <1>2, <2>2, NewJobRow DEF IInv
  <2> QED
    BY <1>3, <2>1, <2>3
<1>7. ASSUME NEW i \in ids
      PROVE  Settled(jobs'[i], jobs[i])
  <2>1. i \in DOMAIN jobs /\ jobs[i] \in JobType
    BY <1>1, HeldBatch
  <2>2. (IF spawns THEN "succeeded" ELSE "succeeded_no_output") \in Finished
    BY DEF Finished
  <2> QED
    BY <1>5, <2>1, <2>2, EndRow DEF Settled, Finished
<1>8. DOMAIN jobs \subseteq DOMAIN jobs'
  BY <1>5
<1> QED
  BY <1>1, <1>3, <1>4, <1>5, <1>6, <1>7, <1>8, BatchEnds

-----------------------------------------------------------------------------
(* Claims.                                                                 *)

(* A claim that finds nothing has reclaimed what expired, and moves on.    *)
LEMMA ClaimsNothing ==
  ASSUME IInv, NEW p \in Processes, ~ Works(p), NEW next \in {"idle", "worker", "flush"},
         jobs' = Reclaimed, pipeline' = [pipeline EXCEPT ![p].step = next],
         issued' = issued, Rest, compaction' = compaction, events' \in Nat
  PROVE  IInv' /\ Survive
<1>1. /\ DOMAIN jobs' = DOMAIN jobs /\ RowsKeep(jobs', jobs)
      /\ \A i \in DOMAIN jobs :
           /\ jobs'[i] \in JobType /\ RowInv(jobs'[i]) /\ jobs'[i].generation = generation
           /\ jobs'[i].status = "leased" => jobs'[i] = jobs[i]
  BY ReclaimedRows DEF IInv
<1>2. TypeOK'
  <2>1. jobs' = [i \in DOMAIN jobs' |-> jobs'[i]]
    BY <1>1 DEF Reclaimed
  <2>2. jobs' \in [DOMAIN jobs' -> JobType]
    BY <1>1, <2>1
  <2>3. pipeline' \in PipelineType(issued)
    BY DEF IInv, TypeOK, PipelineType
  <2> QED
    BY <1>1, <2>2, <2>3 DEF IInv, TypeOK, Rest, PipelineType
<1>3. RowsInv'
  BY <1>1 DEF RowsInv, Rest
<1>4. ASSUME NEW q \in Processes PROVE Follows(q)
  <2>1. CASE q = p
    <3>1. pipeline'[p].step = next
      BY TypedPipeline DEF IInv, TypeOK
    <3> QED
      BY <2>1, <3>1, StoppedFollows DEF Steps
  <2>2. CASE q # p
    <3>1. pipeline'[q] = pipeline[q]
      BY <2>2
    <3> QED
      BY <1>1, <3>1, SameFollows DEF IInv, Holds
  <2> QED
    BY <2>1, <2>2
<1> QED
  BY <1>1, <1>2, <1>3, <1>4, KeepInv

(* What makes a set of rows claimable together: they wait, they are of one *)
(* kind and thread and have been tried as often, and in their queue no row *)
(* is leased and none before them is left out.                             *)
ClaimableSet(rows, S, kind) ==
  /\ S \subseteq DOMAIN rows /\ S # {}
  /\ kind = "consolidation" => \E i \in S : S = {i}
  /\ \A i \in S : Claimable(rows[i]) /\ rows[i].kind = kind
  /\ \A i, j \in S : rows[i].thread = rows[j].thread /\ SameCounts(rows[i], rows[j])
  /\ \A i \in S : \A j \in DOMAIN rows : SameQueue(rows, i, j) =>
       /\ rows[j].status # "leased"
       /\ j < i => IsFinished(rows[j]) \/ j \in S

(* All of them are leased: none is superseded or spent.                    *)
LEMMA AllLeased ==
  ASSUME IInv, NEW p \in Processes, NEW S, NEW kind \in {"extraction", "consolidation"},
         NEW next, ClaimableSet(Reclaimed, S, kind), ClaimRows(p, Reclaimed, S, kind, next)
  PROVE  /\ jobs' = [i \in DOMAIN jobs |->
                       IF i \in S THEN Leased(Reclaimed[i], p) ELSE Reclaimed[i]]
         /\ \E n \in 1..MaxAttempts :
              /\ pipeline' = [pipeline EXCEPT ![p] =
                   [step |-> "claimed", ids |-> S, kind |-> kind, generation |-> generation,
                    attempt_count |-> n]]
              /\ \A i \in S : n = Reclaimed[i].attempt_count + 1
         /\ \A i \in S : /\ Reclaimed[i] \in JobType /\ RowInv(Reclaimed[i])
                         /\ Reclaimed[i].attempt_count \in Nat
                         /\ Reclaimed[i].attempt_count < MaxAttempts
                         /\ ~ IsFinished(Reclaimed[i])
<1> DEFINE R == Reclaimed
           taken == {i \in S : ~ IsSuperseded(R[i]) /\ ~ IsSpent(R[i])}
<1>1. /\ DOMAIN R = DOMAIN jobs
      /\ \A i \in DOMAIN jobs : R[i] \in JobType /\ RowInv(R[i]) /\ R[i].generation = generation
  BY ReclaimedRows DEF IInv
<1>2. ASSUME NEW i \in S
      PROVE  /\ R[i] \in JobType /\ RowInv(R[i]) /\ R[i].attempt_count \in Nat
             /\ R[i].attempt_count < MaxAttempts
             /\ ~ IsSuperseded(R[i]) /\ ~ IsSpent(R[i]) /\ ~ IsFinished(R[i])
  <2>1. /\ i \in DOMAIN jobs /\ R[i] \in JobType /\ RowInv(R[i])
        /\ R[i].status \in {"pending", "retry_wait"}
    BY <1>1 DEF ClaimableSet, Claimable
  <2>2. R[i].attempt_count \in Nat
    BY <2>1 DEF JobType
  <2> QED
    BY <1>1, <2>1, <2>2, WaitingRow DEF IsSuperseded
<1>3. taken = S /\ taken # {}
  BY <1>2 DEF ClaimableSet
<1>4. jobs' = [i \in DOMAIN jobs |-> IF i \in S THEN Leased(R[i], p) ELSE R[i]]
  <2>1. jobs' = [i \in DOMAIN R |->
                   IF i \notin S THEN R[i]
                   ELSE IF IsSuperseded(R[i])
                        THEN End(R[i], "succeeded_no_output", R[i].candidates, "other")
                   ELSE IF IsSpent(R[i]) THEN Failed(R[i], "other")
                   ELSE Leased(R[i], p)]
    BY DEF ClaimRows
  <2> QED
    BY <1>1, <1>2, <2>1
<1>5. PICK k \in S : TRUE
  BY DEF ClaimableSet
<1> DEFINE n == CHOOSE m \in 1..MaxAttempts : \E i \in S : m = R[i].attempt_count + 1
<1>6. n \in 1..MaxAttempts /\ \E i \in S : n = R[i].attempt_count + 1
  <2>1. R[k].attempt_count + 1 \in 1..MaxAttempts
    BY <1>2, Constants
  <2> QED
    BY <1>5, <2>1
<1>7. \A i \in S : n = R[i].attempt_count + 1
  BY <1>6 DEF ClaimableSet, SameCounts
<1>8. pipeline' = [pipeline EXCEPT ![p] =
        [step |-> "claimed", ids |-> S, kind |-> kind, generation |-> generation,
         attempt_count |-> n]]
  BY <1>3 DEF ClaimRows
<1> QED
  BY <1>2, <1>4, <1>6, <1>7, <1>8

LEMMA ClaimsSome ==
  ASSUME IInv, NEW p \in Processes, ~ Works(p), NEW S,
         NEW kind \in {"extraction", "consolidation"}, NEW next,
         ClaimableSet(Reclaimed, S, kind), ClaimRows(p, Reclaimed, S, kind, next),
         issued' = issued, Rest, compaction' = compaction, events' \in Nat
  PROVE  IInv' /\ Survive
<1> DEFINE R == Reclaimed
<1>1. /\ DOMAIN R = DOMAIN jobs
      /\ \A i \in DOMAIN jobs :
           /\ R[i] \in JobType /\ RowInv(R[i]) /\ R[i].generation = generation
           /\ Keeps(R[i], jobs[i])
           /\ R[i].status = "leased" => R[i] = jobs[i]
      /\ RowsKeep(R, jobs)
  BY ReclaimedRows DEF IInv
<1>2. PICK n \in 1..MaxAttempts :
        /\ pipeline' = [pipeline EXCEPT ![p] =
             [step |-> "claimed", ids |-> S, kind |-> kind, generation |-> generation,
              attempt_count |-> n]]
        /\ \A i \in S : n = R[i].attempt_count + 1
  BY AllLeased
<1>3. jobs' = [i \in DOMAIN jobs |-> IF i \in S THEN Leased(R[i], p) ELSE R[i]]
  BY AllLeased
<1>4. S \subseteq DOMAIN jobs /\ S # {}
  BY <1>1 DEF ClaimableSet
<1>5. ASSUME NEW i \in S
      PROVE  /\ jobs'[i] \in JobType /\ RowInv(jobs'[i]) /\ SameJob(jobs'[i], R[i])
             /\ jobs'[i].status = "leased" /\ jobs'[i].lease_owner = p
             /\ jobs'[i].timer = JobLease /\ jobs'[i].attempt_count = n
             /\ jobs'[i].llm_call_count = R[i].llm_call_count
             /\ jobs'[i].llm_call_count <= 2 * (n - 1)
  <2>1. /\ R[i] \in JobType /\ RowInv(R[i]) /\ R[i].attempt_count < MaxAttempts
        /\ ~ IsFinished(R[i]) /\ R[i].attempt_count \in Nat
    BY AllLeased
  <2>2. jobs'[i] = Leased(R[i], p)
    BY <1>3, <1>4
  <2>3. R[i].llm_call_count <= 2 * (n - 1)
    BY <1>2, <2>1 DEF RowInv
  <2> QED
    BY <1>2, <2>1, <2>2, <2>3, LeasedRow
<1>6. \A i \in DOMAIN jobs \ S : jobs'[i] = R[i]
  BY <1>3
<1>7. DOMAIN jobs' = DOMAIN jobs
  BY <1>3
<1>8. \A i \in DOMAIN jobs :
        /\ jobs'[i] \in JobType /\ RowInv(jobs'[i]) /\ jobs'[i].generation = generation
        /\ SameJob(jobs'[i], R[i])
  BY <1>1, <1>5, <1>6 DEF SameJob
<1>9. TypeOK'
  <2>1. jobs' \in [DOMAIN jobs' -> JobType]
    <3>1. jobs' = [i \in DOMAIN jobs' |-> jobs'[i]]
      BY <1>3, <1>7
    <3> QED
      BY <1>7, <1>8, <3>1
  <2>2. pipeline' \in PipelineType(issued)
    <3>1. S \in SUBSET (1..issued) /\ generation \in Nat /\ n \in 0..MaxAttempts
      BY <1>4, Constants DEF IInv, TypeOK
    <3>2. pipeline \in PipelineType(issued)
      BY DEF IInv, TypeOK, PipelineType
    <3> QED
      BY <1>2, <3>1, <3>2 DEF PipelineType, Steps
  <2> QED
    BY <1>7, <2>1, <2>2 DEF IInv, TypeOK, Rest, PipelineType
<1>10. RowsInv'
  BY <1>7, <1>8 DEF RowsInv, Rest
<1>11. ASSUME NEW i \in DOMAIN jobs, NEW j \in DOMAIN jobs, SameQueue(jobs', i, j)
       PROVE  SameQueue(R, i, j) /\ SameQueue(R, j, i)
  BY <1>8, <1>11 DEF SameQueue, SameJob, IsExtraction
<1>12. Ordered(R)
  BY <1>1, OrderKept DEF IInv, TypeOK
<1>13. Ordered(jobs')
  <2> SUFFICES ASSUME NEW i \in DOMAIN jobs, NEW j \in DOMAIN jobs,
                      SameQueue(jobs', i, j), jobs'[i].status = "leased"
               PROVE  /\ j < i => IsFinished(jobs'[j]) \/ jobs'[j].status = "leased"
                      /\ jobs'[j].status = "leased" =>
                           /\ jobs'[i].lease_owner = jobs'[j].lease_owner
                           /\ jobs'[i].timer = jobs'[j].timer
    BY <1>7 DEF Ordered
  <2>1. SameQueue(R, i, j) /\ SameQueue(R, j, i)
    BY <1>11
  <2>2. CASE i \in S
    <3>1. /\ R[j].status # "leased"
          /\ j < i => IsFinished(R[j]) \/ j \in S
      BY <1>1, <2>1, <2>2 DEF ClaimableSet
    <3>2. CASE j \in S
      BY <1>5, <2>2, <3>2
    <3>3. CASE j \notin S
      BY <1>6, <3>1, <3>3
    <3> QED
      BY <3>2, <3>3
  <2>3. CASE i \notin S
    <3>1. jobs'[i] = R[i]
      BY <1>6, <2>3
    <3>2. j \notin S
      BY <1>1, <2>1, <3>1 DEF ClaimableSet
    <3>3. jobs'[j] = R[j]
      BY <1>6, <3>2
    <3> QED
      BY <1>1, <1>12, <2>1, <3>1, <3>3 DEF Ordered
  <2> QED
    BY <2>2, <2>3
<1>14. BatchInv'
  <2> SUFFICES ASSUME NEW q \in Processes, Works(q)'
               PROVE  BatchOf(q)'
    BY DEF BatchInv
  <2>1. CASE q = p
    <3>1. /\ pipeline'[p].ids = S /\ pipeline'[p].kind = kind
          /\ pipeline'[p].attempt_count = n /\ pipeline'[p].step = "claimed"
      BY <1>2, TypedPipeline DEF IInv
    <3>2. ASSUME NEW i \in S
          PROVE  RowOfBatch(p, i)'
      <4>1. jobs'[i].kind = kind
        BY <1>5 DEF ClaimableSet, SameJob
      <4>2. Calls(p)' = 2 * (n - 1)
        BY <3>1 DEF Calls
      <4>3. ASSUME NEW j \in DOMAIN jobs', SameQueue(jobs', i, j), jobs'[j].status = "leased"
            PROVE  j \in S
        <5>1. SameQueue(R, i, j) /\ j \in DOMAIN jobs
          BY <1>4, <1>7, <1>11, <4>3
        <5>2. R[j].status # "leased"
          BY <1>1, <5>1 DEF ClaimableSet
        <5> QED
          BY <1>6, <4>3, <5>1, <5>2
      <4> QED
        BY <1>5, <3>1, <4>1, <4>2, <4>3 DEF RowOfBatch
    <3>3. \A i, j \in S : jobs'[i].thread = jobs'[j].thread /\ SameCounts(jobs'[i], jobs'[j])
      BY <1>5 DEF ClaimableSet, SameJob, SameCounts
    <3>4. n > 0 /\ (kind = "consolidation" => \E i \in S : S = {i})
      BY Constants DEF ClaimableSet
    <3> QED
      BY <1>4, <2>1, <3>1, <3>2, <3>3, <3>4 DEF BatchOf
  <2>2. CASE q # p
    <3>1. pipeline'[q] = pipeline[q]
      BY <1>2, <2>2
    <3>2. Works(q) /\ BatchOf(q)
      BY <3>1 DEF Works, IInv, BatchInv
    <3>3. ASSUME NEW i \in pipeline[q].ids, Holds(q, i)'
          PROVE  /\ i \in DOMAIN jobs /\ i \notin S /\ jobs'[i] = jobs[i] /\ jobs'[i] = R[i]
                 /\ Holds(q, i)
      <4>1. i \in DOMAIN jobs /\ i \notin S
        BY <1>5, <1>7, <2>2, <3>3 DEF Holds
      <4>2. jobs'[i] = R[i] /\ R[i] = jobs[i]
        BY <1>1, <1>6, <3>3, <4>1 DEF Holds
      <4> QED
        BY <3>1, <3>3, <4>1, <4>2 DEF Holds
    <3>4. ASSUME NEW i \in pipeline[q].ids, Holds(q, i)'
          PROVE  RowOfBatch(q, i)'
      <4>1. /\ i \in DOMAIN jobs /\ jobs'[i] = jobs[i] /\ jobs'[i] = R[i]
            /\ RowOfBatch(q, i) /\ jobs'[i].status = "leased"
        BY <3>2, <3>3, <3>4 DEF BatchOf, Holds
      <4>2. ASSUME NEW j \in DOMAIN jobs', SameQueue(jobs', i, j), jobs'[j].status = "leased"
            PROVE  j \in pipeline[q].ids
        <5>1. SameQueue(R, j, i) /\ j \in DOMAIN jobs
          BY <1>7, <1>11, <4>1, <4>2
        <5>2. j \notin S
          BY <1>1, <4>1, <5>1 DEF ClaimableSet
        <5>3. jobs'[j] = jobs[j]
          BY <1>1, <1>6, <4>2, <5>1, <5>2
        <5>4. SameQueue(jobs, i, j)
          BY <4>1, <4>2, <5>3 DEF SameQueue
        <5> QED
          BY <4>1, <4>2, <5>1, <5>3, <5>4 DEF RowOfBatch
      <4>3. Calls(q)' = Calls(q)
        BY <3>1 DEF Calls
      <4> QED
        BY <3>1, <4>1, <4>2, <4>3 DEF RowOfBatch
    <3>5. ASSUME NEW i \in pipeline[q].ids, NEW j \in pipeline[q].ids,
                 Holds(q, i)', Holds(q, j)'
          PROVE  jobs'[i].thread = jobs'[j].thread /\ SameCounts(jobs'[i], jobs'[j])
      BY <3>2, <3>3, <3>5 DEF BatchOf
    <3> QED
      BY <3>1, <3>2, <3>4, <3>5 DEF BatchOf
  <2> QED
    BY <2>1, <2>2
<1>15. Survive
  <2> SUFFICES ASSUME NEW i \in DOMAIN jobs
               PROVE  SameJob(jobs'[i], jobs[i]) /\ (IsFinished(jobs[i]) => jobs'[i] = jobs[i])
    BY DEF Survive
  <2>1. SameJob(jobs'[i], jobs[i])
    BY <1>1, <1>8 DEF Keeps, SameJob
  <2>2. ASSUME IsFinished(jobs[i]) PROVE jobs'[i] = jobs[i]
    <3>1. R[i] = jobs[i]
      BY <1>1, <2>2 DEF Keeps
    <3>2. i \notin S
      BY <2>2, <3>1, AllLeased
    <3> QED
      BY <1>6, <3>1, <3>2
  <2> QED
    BY <2>1, <2>2
<1> QED
  BY <1>9, <1>10, <1>13, <1>14, <1>15 DEF IInv

(* The batch of a thread that is due is claimable.                         *)
LEMMA BatchIsClaimable ==
  ASSUME IInv, NEW t \in Threads, NEW allowed, NEW force,
         Due(Reclaimed, t, allowed, force)
  PROVE  ClaimableSet(Reclaimed, Batch(Reclaimed, t, allowed), "extraction")
<1> DEFINE R == Reclaimed
           eligible == Eligible(R, t, allowed)
           S == Batch(R, t, allowed)
           UpTo(i) == {j \in eligible : j <= i}
<1>1. DOMAIN R = DOMAIN jobs /\ DOMAIN jobs \subseteq 1..issued /\ issued \in Nat
  BY ReclaimedRows DEF IInv, TypeOK
<1>2. Ordered(R)
  <2>1. RowsKeep(R, jobs) /\ DOMAIN R \subseteq Nat /\ DOMAIN jobs \subseteq Nat
    BY <1>1, ReclaimedRows DEF IInv
  <2> QED
    BY <2>1, OrderKept DEF IInv
<1>3. S = {i \in eligible : Cardinality(UpTo(i)) <= BatchSize}
  BY DEF Batch
<1>4. \A i \in eligible :
        /\ i \in DOMAIN R /\ i \in Nat /\ IsExtraction(R[i]) /\ R[i].thread = t
        /\ Claimable(R[i])
        /\ \A j \in Queue(R, t) : j <= i => Claimable(R[j]) /\ SameCounts(R[j], R[i])
  BY <1>1 DEF Eligible, Queue
<1>5. IsFiniteSet(eligible)
  <2>1. eligible \in SUBSET (1..issued)
    BY <1>1, <1>4
  <2>2. IsFiniteSet(1..issued)
    BY <1>1, FS_Interval
  <2> QED
    BY <2>1, <2>2, FS_Subset
<1>6. S # {}
  <2>1. eligible # {} /\ eligible \in SUBSET Nat
    BY <1>4 DEF Due
  <2>2. PICK m \in eligible : \A n \in eligible : m <= n
    BY <2>1, Minimum
  <2>3. UpTo(m) = {m}
    BY <1>4, <2>2
  <2>4. Cardinality(UpTo(m)) <= BatchSize
    <3>1. Cardinality({m}) = 1
      BY FS_Singleton
    <3>2. Cardinality(UpTo(m)) = 1
      BY <2>3, <3>1
    <3> QED
      BY <3>2, Constants
  <2> QED
    BY <1>3, <2>2, <2>4
<1>7. ASSUME NEW i \in S, NEW j \in DOMAIN R, SameQueue(R, i, j)
      PROVE  /\ R[j].status # "leased"
             /\ j < i => IsFinished(R[j]) \/ j \in S
  <2>1. /\ i \in eligible /\ i \in DOMAIN R /\ i \in Nat /\ j \in Nat
        /\ R[j].thread = t /\ IsExtraction(R[j])
    BY <1>1, <1>3, <1>4, <1>7 DEF SameQueue
  <2>2. R[i].status # "leased" /\ ~ IsFinished(R[i])
    BY <1>4, <2>1 DEF Claimable, IsFinished, Finished
  <2>3. R[j].status # "leased"
    <3>1. SUFFICES ASSUME R[j].status = "leased" PROVE FALSE
      OBVIOUS
    <3>2. j \in Queue(R, t)
      BY <2>1, <3>1 DEF Queue, IsFinished, Finished
    <3>3. CASE j <= i
      BY <1>4, <2>1, <3>1, <3>2, <3>3 DEF Claimable
    <3>4. CASE i < j
      <4>1. SameQueue(R, j, i)
        BY <1>7 DEF SameQueue
      <4> QED
        BY <1>2, <2>1, <2>2, <3>1, <3>4, <4>1 DEF Ordered
    <3> QED
      BY <2>1, <3>3, <3>4
  <2>4. ASSUME j < i, ~ IsFinished(R[j]) PROVE j \in S
    <3>1. j \in Queue(R, t)
      BY <2>1, <2>4 DEF Queue
    <3>2. j \in eligible
      <4>1. \A k \in Queue(R, t) : k <= i =>
              k \in allowed /\ Claimable(R[k]) /\ SameCounts(R[k], R[i])
        BY <2>1 DEF Eligible
      <4>2. SameCounts(R[j], R[i])
        BY <2>1, <2>4, <3>1, <4>1
      <4>3. ASSUME NEW k \in Queue(R, t), k <= j
            PROVE  k \in allowed /\ Claimable(R[k]) /\ SameCounts(R[k], R[j])
        <5>1. k <= i
          BY <1>1, <2>1, <2>4, <4>3 DEF Queue
        <5> QED
          BY <4>1, <4>2, <4>3, <5>1 DEF SameCounts
      <4> QED
        BY <3>1, <4>3 DEF Eligible
    <3>3. UpTo(j) \subseteq UpTo(i)
      BY <1>4, <2>1, <2>4
    <3>4. IsFiniteSet(UpTo(i)) /\ Cardinality(UpTo(j)) <= Cardinality(UpTo(i))
      <4>1. UpTo(i) \in SUBSET eligible
        OBVIOUS
      <4>2. IsFiniteSet(UpTo(i))
        BY <1>5, <4>1, FS_Subset
      <4> QED
        BY <3>3, <4>2, FS_Subset
    <3>5. Cardinality(UpTo(i)) \in Nat /\ Cardinality(UpTo(j)) \in Nat
      <4>1. IsFiniteSet(UpTo(j))
        BY <3>3, <3>4, FS_Subset
      <4> QED
        BY <3>4, <4>1, FS_CardinalityType
    <3> QED
      BY <1>3, <3>2, <3>4, <3>5, Constants
  <2> QED
    BY <2>3, <2>4
<1>8. \A i, j \in S : SameCounts(R[i], R[j])
  <2> SUFFICES ASSUME NEW i \in S, NEW j \in S PROVE SameCounts(R[i], R[j])
    OBVIOUS
  <2>1. /\ i \in eligible /\ j \in eligible /\ i \in Nat /\ j \in Nat
        /\ i \in Queue(R, t) /\ j \in Queue(R, t)
    BY <1>3, <1>4 DEF Eligible
  <2>2. i <= j \/ j <= i
    BY <2>1
  <2> QED
    BY <1>4, <2>1, <2>2 DEF SameCounts
<1> QED
  BY <1>1, <1>3, <1>4, <1>6, <1>7, <1>8 DEF ClaimableSet, IsExtraction

LEMMA ConsolidationIsClaimable ==
  ASSUME TypeOK, RowsInv, NEW allowed, NEW i \in Consolidations(Reclaimed, allowed),
         Claimable(Reclaimed[i])
  PROVE  ClaimableSet(Reclaimed, {i}, "consolidation")
<1>1. i \in DOMAIN jobs /\ DOMAIN Reclaimed = DOMAIN jobs /\ Reclaimed[i] \in JobType
  BY ReclaimedRows DEF Consolidations
<1>2. Reclaimed[i].kind = "consolidation"
  BY <1>1 DEF Consolidations, IsExtraction, JobType
<1> QED
  BY <1>1, <1>2 DEF ClaimableSet, SameQueue, IsExtraction, SameCounts

LEMMA ClaimExtractionInv ==
  ASSUME IInv, NEW p \in Processes, NEW allowed, NEW force,
         NEW next \in {"worker", "flush"}, ClaimExtraction(p, allowed, force, next),
         issued' = issued, Rest, compaction' = compaction, events' \in Nat
  PROVE  IInv' /\ Survive
<1>1. ~ Works(p)
  BY DEF ClaimExtraction, Works, Steps
<1>2. ASSUME NEW t \in Threads, Serves(Reclaimed, t, allowed, force),
             ClaimRows(p, Reclaimed, Batch(Reclaimed, t, allowed), "extraction", next)
      PROVE  IInv' /\ Survive
  <2>1. ClaimableSet(Reclaimed, Batch(Reclaimed, t, allowed), "extraction")
    BY <1>2, BatchIsClaimable DEF Serves
  <2> QED
    BY <1>1, <1>2, <2>1, ClaimsSome
<1>3. CASE jobs' = Reclaimed /\ pipeline' = [pipeline EXCEPT ![p].step = next]
  BY <1>1, <1>3, ClaimsNothing
<1> QED
  BY <1>2, <1>3 DEF ClaimExtraction

LEMMA ClaimConsolidationInv ==
  ASSUME IInv, NEW p \in Processes, NEW allowed, ~ Works(p), ClaimConsolidation(p, allowed)
  PROVE  IInv' /\ Survive
<1>1. issued' = issued /\ Rest /\ compaction' = compaction /\ events' \in Nat
  BY DEF ClaimConsolidation, Rest, IInv, TypeOK
<1>2. ASSUME NEW i \in Consolidations(Reclaimed, allowed), Claimable(Reclaimed[i]),
             ClaimRows(p, Reclaimed, {i}, "consolidation", "idle")
      PROVE  IInv' /\ Survive
  <2>1. ClaimableSet(Reclaimed, {i}, "consolidation")
    BY <1>2, ConsolidationIsClaimable DEF IInv
  <2> QED
    BY <1>1, <1>2, <2>1, ClaimsSome
<1>3. CASE jobs' = Reclaimed /\ pipeline' = [pipeline EXCEPT ![p].step = "idle"]
  BY <1>1, <1>3, ClaimsNothing
<1> QED
  BY <1>2, <1>3 DEF ClaimConsolidation

LEMMA WorkerClaimsInv ==
  ASSUME IInv, NEW p \in Processes, WorkerClaims(p)
  PROVE  IInv' /\ Survive
<1>1. CASE /\ ClaimExtraction(p, DOMAIN jobs, FALSE, "worker")
           /\ UNCHANGED <<issued, generation, active, begun, compaction, turns, events>>
  BY <1>1, ClaimExtractionInv DEF Rest, IInv, TypeOK
<1>2. CASE pipeline[p].step = "worker" /\ ClaimConsolidation(p, DOMAIN jobs)
  BY <1>2, ClaimConsolidationInv DEF Works, Steps
<1> QED
  BY <1>1, <1>2 DEF WorkerClaims

LEMMA FlushClaimsInv ==
  ASSUME IInv, NEW p \in Processes, NEW allowed, FlushClaims(p, allowed)
  PROVE  IInv' /\ Survive
<1>1. ClaimExtraction(p, allowed, TRUE, "flush")
  BY DEF FlushClaims
<1>2. issued' = issued /\ compaction' = compaction /\ Rest
  BY DEF FlushClaims, Rest
<1>3. events' \in Nat
  BY DEF FlushClaims, IInv, TypeOK
<1> QED
  BY <1>1, <1>2, <1>3, ClaimExtractionInv

LEMMA FlushClaimsConsolidationInv ==
  ASSUME IInv, NEW p \in Processes, NEW allowed, FlushClaimsConsolidation(p, allowed)
  PROVE  IInv' /\ Survive
BY ClaimConsolidationInv DEF FlushClaimsConsolidation, Works, Steps

-----------------------------------------------------------------------------
(* What was committed: the turns the jobs are for, the jobs that came of   *)
(* them, and the checkpoints.                                              *)

HInv == TurnsInv /\ ExtractedOnce /\ CheckpointIsNewest

(* A step that begins no turn, adds no job and commits no extraction.      *)
Quiet ==
  /\ DOMAIN jobs' = DOMAIN jobs
  /\ \A i \in DOMAIN jobs :
       IsExtraction(jobs[i]) /\ jobs'[i].status = "succeeded" => jobs[i].status = "succeeded"
  /\ UNCHANGED <<begun, compaction>>

LEMMA QuietKeeps ==
  ASSUME HInv, Survive, Quiet
  PROVE  HInv'
<1>1. DOMAIN jobs' = DOMAIN jobs
  BY DEF Quiet
<1>2. \A i \in DOMAIN jobs :
        /\ jobs'[i].kind = jobs[i].kind /\ jobs'[i].thread = jobs[i].thread
        /\ jobs'[i].sequence = jobs[i].sequence /\ jobs'[i].source = jobs[i].source
        /\ IsFinished(jobs[i]) => jobs'[i] = jobs[i]
        /\ IsExtraction(jobs'[i]) = IsExtraction(jobs[i])
  BY <1>1 DEF Survive, SameJob, IsExtraction
<1>3. TurnsInv'
  BY <1>1, <1>2 DEF HInv, TurnsInv, Quiet
<1>4. ExtractedOnce'
  BY <1>1, <1>2 DEF HInv, ExtractedOnce, IsFinished, Finished
<1>5. CheckpointIsNewest'
  <2>1. ASSUME NEW i \in DOMAIN jobs', IsExtraction(jobs'[i]), jobs'[i].status = "succeeded"
        PROVE  jobs'[i].sequence <= compaction'[jobs'[i].thread]
    BY <1>1, <1>2, <2>1 DEF HInv, CheckpointIsNewest, Quiet
  <2>2. ASSUME NEW t \in Threads, compaction'[t] > 0
        PROVE  \E i \in DOMAIN jobs' :
                 /\ IsExtraction(jobs'[i]) /\ jobs'[i].thread = t
                 /\ jobs'[i].sequence = compaction'[t]
                 /\ jobs'[i].status \in {"succeeded", "succeeded_no_output"}
    <3>1. PICK i \in DOMAIN jobs :
            /\ IsExtraction(jobs[i]) /\ jobs[i].thread = t /\ jobs[i].sequence = compaction[t]
            /\ jobs[i].status \in {"succeeded", "succeeded_no_output"}
      BY <2>2 DEF HInv, CheckpointIsNewest, Quiet
    <3>2. jobs'[i] = jobs[i]
      BY <1>2, <3>1 DEF IsFinished, Finished
    <3> QED
      BY <1>1, <3>1, <3>2 DEF Quiet
  <2> QED
    BY <2>1, <2>2 DEF CheckpointIsNewest
<1> QED
  BY <1>3, <1>4, <1>5 DEF HInv

LEMMA InitInv == Init => IInv /\ HInv
<1> SUFFICES ASSUME Init PROVE IInv /\ HInv
  OBVIOUS
<1>1. DOMAIN jobs = {} /\ \A p \in Processes : ~ Works(p)
  BY DEF Init, Works, Steps, Idle
<1>2. TypeOK
  <2>1. jobs \in [DOMAIN jobs -> JobType] /\ DOMAIN jobs \subseteq 1..issued
    BY <1>1 DEF Init
  <2>2. pipeline \in PipelineType(issued)
    BY IdleType DEF Init, PipelineType
  <2>3. 1 \in Threads
    BY Constants DEF Threads
  <2> QED
    BY <2>1, <2>2, <2>3 DEF Init, TypeOK, PipelineType
<1>3. RowsInv /\ Ordered(jobs) /\ BatchInv
  BY <1>1 DEF RowsInv, Ordered, BatchInv
<1>4. TurnsInv /\ ExtractedOnce
  BY <1>1 DEF TurnsInv, ExtractedOnce
<1>5. CheckpointIsNewest
  BY <1>1 DEF CheckpointIsNewest, Init
<1> QED
  BY <1>2, <1>3, <1>4, <1>5 DEF IInv, HInv

LEMMA BeginTurnHistory ==
  ASSUME IInv, HInv, BeginTurn
  PROVE  HInv'
<1>1. jobs' = jobs /\ compaction' = compaction
  BY DEF BeginTurn
<1>2. \A t \in Threads : begun[t] \in Nat /\ begun'[t] \in Nat /\ begun[t] <= begun'[t]
  BY DEF IInv, TypeOK, BeginTurn
<1>3. TurnsInv'
  <2> SUFFICES ASSUME NEW i \in DOMAIN jobs, IsExtraction(jobs[i])
               PROVE  /\ jobs[i].sequence \in Nat \ {0}
                      /\ jobs[i].sequence <= begun'[jobs[i].thread]
    BY <1>1 DEF TurnsInv
  <2>1. jobs[i].thread \in Threads
    BY TypedRow DEF IInv
  <2>2. jobs[i].sequence \in Nat \ {0} /\ jobs[i].sequence <= begun[jobs[i].thread]
    BY DEF HInv, TurnsInv
  <2> QED
    BY <1>2, <2>1, <2>2
<1>4. ExtractedOnce' /\ CheckpointIsNewest'
  BY <1>1 DEF HInv, ExtractedOnce, CheckpointIsNewest
<1> QED
  BY <1>3, <1>4 DEF HInv

LEMMA ClearHistory ==
  ASSUME Clear
  PROVE  HInv'
<1>1. DOMAIN jobs' = {} /\ \A t \in Threads : compaction'[t] = 0
  BY DEF Clear
<1> QED
  BY <1>1 DEF HInv, TurnsInv, ExtractedOnce, CheckpointIsNewest

LEMMA EndTurnHistory ==
  ASSUME IInv, HInv, NEW t \in Threads, NEW sequence \in 1..begun[t], EndTurn(t, sequence)
  PROVE  HInv'
<1> DEFINE new == NewJob("extraction", t, sequence, 0)
<1>1. issued \in Nat /\ DOMAIN jobs \subseteq 1..issued /\ issued' = issued + 1
  BY DEF IInv, TypeOK, EndTurn
<1>2. /\ DOMAIN jobs' = DOMAIN jobs \cup {issued'} /\ issued' \notin DOMAIN jobs
      /\ jobs'[issued'] = new /\ \A i \in DOMAIN jobs : jobs'[i] = jobs[i]
      /\ begun' = begun /\ compaction' = compaction
  BY <1>1 DEF EndTurn
<1>3. /\ new.kind = "extraction" /\ IsExtraction(new) /\ new.thread = t
      /\ new.sequence = sequence /\ new.status = "pending"
  BY DEF NewJob, IsExtraction
<1>4. sequence \in Nat \ {0} /\ sequence <= begun[t]
  BY DEF IInv, TypeOK
<1>5. TurnsInv'
  BY <1>2, <1>3, <1>4 DEF HInv, TurnsInv
<1>6. ExtractedOnce'
  BY <1>2, <1>3 DEF HInv, ExtractedOnce
<1>7. CheckpointIsNewest'
  BY <1>2, <1>3 DEF HInv, CheckpointIsNewest
<1> QED
  BY <1>5, <1>6, <1>7 DEF HInv

(* The batch that is committed was not finished, so that it is no job's    *)
(* source yet, and the checkpoint moves to its newest turn or stays.       *)
LEMMA CompleteExtractionHistory ==
  ASSUME IInv, HInv, NEW p \in Processes, NEW spawns \in BOOLEAN,
         CompleteExtraction(p, spawns)
  PROVE  HInv'
<1> DEFINE ids == pipeline[p].ids
           new == NewJob("consolidation", Thread(p), 0, FirstOf(ids))
           outcome == IF spawns THEN "succeeded" ELSE "succeeded_no_output"
<1>1. /\ Works(p) /\ ValidLease(p) /\ pipeline[p].kind = "extraction"
      /\ compaction' = [compaction EXCEPT ![Thread(p)] = Greater(@, NewestTurn(ids))]
      /\ issued' = IF spawns THEN issued + 1 ELSE issued
      /\ begun' = begun
  BY DEF CompleteExtraction, Works, Steps
<1>2. /\ Thread(p) \in Threads /\ FirstOf(ids) \in ids /\ NewestTurn(ids) \in Nat \ {0}
      /\ \E i \in ids : jobs[i].sequence = NewestTurn(ids)
      /\ \A i \in ids : jobs[i].sequence <= NewestTurn(ids)
      /\ \A i \in ids : jobs[i].thread = Thread(p) /\ IsExtraction(jobs[i])
  BY <1>1, BatchTurns DEF HInv
<1>3. /\ ids \subseteq DOMAIN jobs
      /\ \A i \in ids : jobs[i] \in JobType /\ ~ IsFinished(jobs[i])
  BY <1>1, HeldBatch
<1>4. issued \in Nat /\ DOMAIN jobs \subseteq 1..issued
  BY DEF IInv, TypeOK
<1>5. /\ DOMAIN jobs' = IF spawns THEN DOMAIN jobs \cup {issued'} ELSE DOMAIN jobs
      /\ spawns => issued' \notin DOMAIN jobs /\ jobs'[issued'] = new
      /\ \A i \in DOMAIN jobs :
           jobs'[i] = IF i \in ids THEN End(jobs[i], outcome, "none", "none") ELSE jobs[i]
  <2>1. CASE ~ spawns
    BY <2>1 DEF CompleteExtraction
  <2>2. CASE spawns
    <3>1. issued' \notin DOMAIN jobs
      BY <1>1, <1>4, <2>2
    <3> HIDE DEF new
    <3> QED
      BY <2>2, <3>1 DEF CompleteExtraction, new
  <2> QED
    BY <2>1, <2>2
<1>6. \A i \in ids : /\ jobs'[i].status = outcome /\ jobs'[i].kind = jobs[i].kind
                     /\ jobs'[i].thread = jobs[i].thread
                     /\ jobs'[i].sequence = jobs[i].sequence
                     /\ jobs'[i].source = jobs[i].source
                     /\ IsExtraction(jobs'[i])
  <2>1. ASSUME NEW i \in ids
        PROVE  jobs'[i] = End(jobs[i], outcome, "none", "none") /\ jobs[i] \in JobType
    BY <1>3, <1>5
  <2>2. outcome \in Finished /\ "none" \in {"none", "resolved", "suppressed"}
    BY DEF Finished
  <2> HIDE DEF outcome
  <2>3. ASSUME NEW i \in ids
        PROVE  jobs'[i].status = outcome /\ SameJob(jobs'[i], jobs[i])
    BY <2>1, <2>2, EndRow
  <2> QED
    BY <1>2, <2>3 DEF SameJob, IsExtraction
<1>7. new.kind = "consolidation" /\ ~ IsExtraction(new) /\ new.source = FirstOf(ids)
  BY DEF NewJob, IsExtraction
<1>8. TurnsInv'
  <2> SUFFICES ASSUME NEW i \in DOMAIN jobs', IsExtraction(jobs'[i])
               PROVE  /\ jobs'[i].sequence \in Nat \ {0}
                      /\ jobs'[i].sequence <= begun[jobs'[i].thread]
    BY <1>1 DEF TurnsInv
  <2>1. i \in DOMAIN jobs
    BY <1>5, <1>7
  <2>2. IsExtraction(jobs[i]) /\ jobs'[i].sequence = jobs[i].sequence
        /\ jobs'[i].thread = jobs[i].thread
    BY <1>2, <1>5, <1>6, <2>1
  <2> QED
    BY <2>1, <2>2 DEF HInv, TurnsInv
<1>9. ExtractedOnce'
  <2>1. \A i \in DOMAIN jobs : ~ IsExtraction(jobs[i]) =>
          /\ jobs[i].source \in DOMAIN jobs \ ids
          /\ jobs'[jobs[i].source].status = "succeeded"
    BY <1>3, <1>5 DEF HInv, ExtractedOnce, IsFinished, Finished
  <2>2. \A i \in DOMAIN jobs : ~ IsExtraction(jobs'[i]) =>
          ~ IsExtraction(jobs[i]) /\ jobs'[i].source = jobs[i].source
    BY <1>2, <1>5, <1>6
  <2>3. \A i, j \in DOMAIN jobs : /\ ~ IsExtraction(jobs'[i]) /\ ~ IsExtraction(jobs'[j])
                                  /\ i # j
                                  => jobs'[i].source # jobs'[j].source
    BY <2>2 DEF HInv, ExtractedOnce
  <2>4. CASE ~ spawns
    BY <1>5, <2>1, <2>2, <2>3, <2>4 DEF ExtractedOnce
  <2>5. CASE spawns
    <3>1. jobs'[issued'].source = FirstOf(ids) /\ FirstOf(ids) \in ids
          /\ jobs'[FirstOf(ids)].status = "succeeded"
      BY <1>2, <1>5, <1>6, <1>7, <2>5
    <3>2. DOMAIN jobs' = DOMAIN jobs \cup {issued'} /\ ids \subseteq DOMAIN jobs'
      BY <1>3, <1>5, <2>5
    <3>3. \A i \in DOMAIN jobs : ~ IsExtraction(jobs'[i]) =>
            /\ jobs'[i].source \in DOMAIN jobs'
            /\ jobs'[jobs'[i].source].status = "succeeded"
            /\ jobs'[i].source # jobs'[issued'].source
      BY <2>1, <2>2, <3>1, <3>2
    <3>4. \A i \in DOMAIN jobs' : ~ IsExtraction(jobs'[i]) =>
            /\ jobs'[i].source \in DOMAIN jobs'
            /\ jobs'[jobs'[i].source].status = "succeeded"
      BY <3>1, <3>2, <3>3
    <3>5. \A i \in DOMAIN jobs' : \A j \in DOMAIN jobs' \ {i} :
            ~ IsExtraction(jobs'[i]) /\ ~ IsExtraction(jobs'[j]) =>
              jobs'[j].source # jobs'[i].source
      BY <2>3, <3>2, <3>3
    <3> QED
      BY <3>4, <3>5 DEF ExtractedOnce
  <2> QED
    BY <2>4, <2>5
<1>10. CheckpointIsNewest'
  <2> DEFINE t == Thread(p)
             n == NewestTurn(ids)
  <2>1. /\ compaction' \in [Threads -> Nat] /\ compaction \in [Threads -> Nat]
        /\ \A u \in Threads : compaction[u] <= compaction'[u]
        /\ \A u \in Threads \ {t} : compaction'[u] = compaction[u]
        /\ n <= compaction'[t]
        /\ compaction'[t] = n \/ compaction'[t] = compaction[t]
    <3>1. compaction \in [Threads -> Nat]
      BY DEF IInv, TypeOK
    <3> HIDE DEF n, t
    <3> QED
      BY <1>1, <1>2, <3>1 DEF Greater, n, t
  <2>2. ASSUME NEW i \in DOMAIN jobs', IsExtraction(jobs'[i]), jobs'[i].status = "succeeded"
        PROVE  jobs'[i].sequence <= compaction'[jobs'[i].thread]
    <3>1. i \in DOMAIN jobs
      BY <1>5, <1>7, <2>2
    <3>2. CASE i \in ids
      <4>1. jobs'[i].sequence <= n /\ jobs'[i].thread = t /\ jobs'[i].sequence \in Nat
        BY <1>2, <1>3, <1>6, <3>2 DEF JobType
      <4> QED
        BY <1>2, <2>1, <4>1
    <3>3. CASE i \notin ids
      <4>1. jobs'[i] = jobs[i] /\ jobs[i].sequence <= compaction[jobs[i].thread]
        BY <1>5, <2>2, <3>1, <3>3 DEF HInv, CheckpointIsNewest
      <4>2. jobs[i].thread \in Threads /\ jobs[i].sequence \in Nat
        BY <3>1, TypedRow DEF IInv, JobType
      <4> QED
        BY <2>1, <4>1, <4>2
    <3> QED
      BY <3>2, <3>3
  <2>3. ASSUME NEW u \in Threads, compaction'[u] > 0
        PROVE  \E i \in DOMAIN jobs' :
                 /\ IsExtraction(jobs'[i]) /\ jobs'[i].thread = u
                 /\ jobs'[i].sequence = compaction'[u]
                 /\ jobs'[i].status \in {"succeeded", "succeeded_no_output"}
    <3>1. CASE u = t /\ compaction'[t] = n
      <4>1. PICK i \in ids : jobs[i].sequence = n
        BY <1>2
      <4>2. i \in DOMAIN jobs'
        BY <1>3, <1>5, <4>1
      <4> QED
        BY <1>2, <1>6, <3>1, <4>1, <4>2
    <3>2. CASE compaction'[u] = compaction[u]
      <4>1. PICK i \in DOMAIN jobs :
              /\ IsExtraction(jobs[i]) /\ jobs[i].thread = u /\ jobs[i].sequence = compaction[u]
              /\ jobs[i].status \in {"succeeded", "succeeded_no_output"}
        BY <2>3, <3>2 DEF HInv, CheckpointIsNewest
      <4>2. i \in DOMAIN jobs' /\ jobs'[i] = jobs[i]
        BY <1>3, <1>5, <4>1 DEF IsFinished, Finished
      <4> QED
        BY <3>2, <4>1, <4>2
    <3> QED
      BY <2>1, <3>1, <3>2
  <2> QED
    BY <2>2, <2>3 DEF CheckpointIsNewest
<1> QED
  BY <1>8, <1>9, <1>10 DEF HInv

(* No other step commits an extraction.                                    *)
LEMMA RowsQuiet ==
  ASSUME DOMAIN jobs' = DOMAIN jobs, UNCHANGED <<begun, compaction>>,
         \A i \in DOMAIN jobs :
           jobs'[i].status \in {jobs[i].status, "retry_wait", "failed", "leased",
                                "succeeded_no_output"}
  PROVE  Quiet
BY DEF Quiet

LEMMA BatchQuiet ==
  ASSUME IInv, NEW p \in Processes, Works(p), ValidLease(p),
         UNCHANGED <<begun, compaction>>, DOMAIN jobs' = DOMAIN jobs,
         \A i \in DOMAIN jobs \ pipeline[p].ids : jobs'[i] = jobs[i],
         \A i \in pipeline[p].ids :
           jobs'[i].status \in {jobs[i].status, "retry_wait", "failed", "succeeded_no_output"}
  PROVE  Quiet
BY RowsQuiet

LEMMA ReclaimedQuiet ==
  ASSUME TypeOK
  PROVE  \A i \in DOMAIN jobs : Reclaimed[i].status \in {jobs[i].status, "retry_wait", "failed"}
<1> SUFFICES ASSUME NEW i \in DOMAIN jobs
             PROVE  Reclaimed[i].status \in {jobs[i].status, "retry_wait", "failed"}
  OBVIOUS
<1>1. jobs[i] \in JobType
  BY TypedRow
<1>2. Failed(jobs[i], "other").status = "failed"
  BY <1>1, FailedRow DEF Errors
<1>3. RetryWait(jobs[i], "other").status = "retry_wait"
  BY <1>1 DEF RetryWait, JobType
<1> QED
  BY <1>2, <1>3 DEF Reclaimed

LEMMA RecoverQuiet ==
  ASSUME IInv, Recover
  PROVE  Quiet
<1>1. jobs' = Reclaimed /\ DOMAIN Reclaimed = DOMAIN jobs /\ UNCHANGED <<begun, compaction>>
  BY DEF Recover, Reclaimed
<1> QED
  BY <1>1, ReclaimedQuiet, RowsQuiet DEF IInv

LEMMA TickQuiet ==
  ASSUME IInv, Tick
  PROVE  Quiet
<1>1. \A i \in DOMAIN jobs : jobs'[i] = Ticked(jobs[i]) /\ jobs[i] \in JobType /\ RowInv(jobs[i])
  BY TypedRow DEF Tick, IInv, RowsInv
<1>2. \A i \in DOMAIN jobs : jobs'[i].status = jobs[i].status
  BY <1>1, TickedRow
<1>3. DOMAIN jobs' = DOMAIN jobs /\ UNCHANGED <<begun, compaction>>
  BY DEF Tick
<1> QED
  BY <1>2, <1>3, RowsQuiet

LEMMA ClaimRowsQuiet ==
  ASSUME IInv, NEW p \in Processes, NEW S, NEW kind, NEW next,
         ClaimRows(p, Reclaimed, S, kind, next), UNCHANGED <<begun, compaction>>
  PROVE  Quiet
<1>1. DOMAIN Reclaimed = DOMAIN jobs /\ DOMAIN jobs' = DOMAIN jobs
  BY DEF Reclaimed, ClaimRows
<1>2. ASSUME NEW i \in DOMAIN jobs
      PROVE  jobs'[i].status \in {jobs[i].status, "retry_wait", "failed", "leased",
                                  "succeeded_no_output"}
  <2> DEFINE row == Reclaimed[i]
  <2>1. row \in JobType
    BY ReclaimedRows DEF IInv
  <2>2. jobs'[i] \in {row, End(row, "succeeded_no_output", row.candidates, "other"),
                      Failed(row, "other"), Leased(row, p)}
    BY <1>1 DEF ClaimRows
  <2> HIDE DEF row
  <2>3. End(row, "succeeded_no_output", row.candidates, "other").status = "succeeded_no_output"
    BY <2>1 DEF End, JobType
  <2>4. Failed(row, "other").status = "failed"
    BY <2>1, FailedRow DEF Errors
  <2>5. Leased(row, p).status = "leased"
    BY <2>1 DEF Leased, JobType
  <2>6. row.status \in {jobs[i].status, "retry_wait", "failed"}
    BY ReclaimedQuiet DEF IInv, row
  <2> QED
    BY <2>2, <2>3, <2>4, <2>5, <2>6
<1> QED
  BY <1>1, <1>2, RowsQuiet

LEMMA NoClaimQuiet ==
  ASSUME IInv, jobs' = Reclaimed, UNCHANGED <<begun, compaction>>
  PROVE  Quiet
<1>1. DOMAIN Reclaimed = DOMAIN jobs
  BY DEF Reclaimed
<1> QED
  BY <1>1, ReclaimedQuiet, RowsQuiet DEF IInv

LEMMA ClaimQuiet ==
  ASSUME IInv, NEW p \in Processes, NEW allowed, NEW force, NEW next,
         UNCHANGED <<begun, compaction>>,
         ClaimExtraction(p, allowed, force, next) \/ ClaimConsolidation(p, allowed)
  PROVE  Quiet
BY ClaimRowsQuiet, NoClaimQuiet DEF ClaimExtraction, ClaimConsolidation

LEMMA ReserveQuiet ==
  ASSUME IInv, NEW p \in Processes, Reserve(p)
  PROVE  Quiet
<1>1. /\ Works(p) /\ ValidLease(p) /\ UNCHANGED <<begun, compaction>>
      /\ jobs' = [i \in DOMAIN jobs |->
                    IF i \in pipeline[p].ids THEN Called(jobs[i]) ELSE jobs[i]]
  BY DEF Reserve, Rewrites, Works, Steps
<1>2. \A i \in pipeline[p].ids : i \in DOMAIN jobs /\ jobs[i] \in JobType
  BY <1>1, HeldBatch
<1>3. \A i \in pipeline[p].ids : jobs'[i].status = jobs[i].status
  BY <1>1, <1>2 DEF Called, JobType
<1> QED
  BY <1>1, <1>3, BatchQuiet

LEMMA RenewedQuiet ==
  ASSUME IInv, NEW p \in Processes, Works(p), ValidLease(p), Rewrites(p, Renewed),
         UNCHANGED <<begun, compaction>>
  PROVE  Quiet
<1>1. jobs' = [i \in DOMAIN jobs |->
                 IF i \in pipeline[p].ids THEN Renewed(jobs[i]) ELSE jobs[i]]
  BY DEF Rewrites
<1>2. \A i \in pipeline[p].ids : i \in DOMAIN jobs /\ jobs[i] \in JobType
  BY HeldBatch
<1>3. \A i \in pipeline[p].ids : jobs'[i].status = jobs[i].status
  BY <1>1, <1>2 DEF Renewed, JobType
<1> QED
  BY <1>1, <1>3, BatchQuiet

LEMMA ApplyConsolidationQuiet ==
  ASSUME IInv, NEW p \in Processes, NEW created \in BOOLEAN, ApplyConsolidation(p, created)
  PROVE  Quiet
<1>1. /\ Works(p) /\ ValidLease(p) /\ UNCHANGED <<begun, compaction>>
      /\ pipeline[p].kind = "consolidation"
      /\ DOMAIN jobs' = DOMAIN jobs
      /\ \A i \in DOMAIN jobs \ pipeline[p].ids : jobs'[i] = jobs[i]
  BY DEF ApplyConsolidation, Rewrites, Works, Steps
<1>2. \A i \in pipeline[p].ids : ~ IsExtraction(jobs[i])
  BY <1>1, HeldBatch DEF RowOfBatch, IsExtraction
<1> QED
  BY <1>1, <1>2 DEF Quiet

LEMMA CapacitySkipQuiet ==
  ASSUME IInv, NEW p \in Processes, CapacitySkip(p)
  PROVE  Quiet
<1>1. /\ Works(p) /\ ValidLease(p) /\ UNCHANGED <<begun, compaction>>
      /\ jobs' = [i \in DOMAIN jobs |->
                    IF i \in pipeline[p].ids THEN Skipped(jobs[i]) ELSE jobs[i]]
  BY DEF CapacitySkip, Rewrites, Works, Steps
<1>2. \A i \in pipeline[p].ids : i \in DOMAIN jobs /\ jobs[i] \in JobType
  BY <1>1, HeldBatch
<1>3. \A i \in pipeline[p].ids : jobs'[i].status = "succeeded_no_output"
  BY <1>1, <1>2 DEF Skipped, End, JobType
<1> QED
  BY <1>1, <1>3, BatchQuiet

LEMMA FailsQuiet ==
  ASSUME IInv, NEW p \in Processes, NEW error \in Errors, Works(p), ValidLease(p),
         UNCHANGED <<begun, compaction>>,
         jobs' = [i \in DOMAIN jobs |->
                    IF i \in pipeline[p].ids THEN Failed(jobs[i], error) ELSE jobs[i]]
  PROVE  Quiet
<1>1. \A i \in pipeline[p].ids : i \in DOMAIN jobs /\ jobs[i] \in JobType
  BY HeldBatch
<1>2. \A i \in pipeline[p].ids : jobs'[i].status = "failed"
  BY <1>1, FailedRow
<1> QED
  BY <1>2, BatchQuiet

LEMMA HandlePrimaryFailureQuiet ==
  ASSUME IInv, NEW p \in Processes, NEW error \in Errors, Works(p),
         HandlePrimaryFailure(p, error)
  PROVE  Quiet
<1>1. ValidLease(p) /\ UNCHANGED <<begun, compaction>>
  BY DEF HandlePrimaryFailure
<1>2. CASE IsRetried(p, error)
  <2>1. jobs' = [i \in DOMAIN jobs |->
                   IF i \in pipeline[p].ids THEN RetryWait(jobs[i], error) ELSE jobs[i]]
    BY <1>2 DEF HandlePrimaryFailure, Rewrites
  <2>2. \A i \in pipeline[p].ids : i \in DOMAIN jobs /\ jobs[i] \in JobType
    BY <1>1, HeldBatch
  <2>3. \A i \in pipeline[p].ids : jobs'[i].status = "retry_wait"
    BY <2>1, <2>2 DEF RetryWait, JobType
  <2> QED
    BY <1>1, <2>1, <2>3, BatchQuiet
<1>3. CASE ~ IsRetried(p, error)
  <2>1. jobs' = [i \in DOMAIN jobs |->
                   IF i \in pipeline[p].ids THEN Failed(jobs[i], error) ELSE jobs[i]]
    BY <1>3 DEF HandlePrimaryFailure, Rewrites
  <2> QED
    BY <1>1, <2>1, FailsQuiet
<1> QED
  BY <1>2, <1>3

-----------------------------------------------------------------------------
(* The invariant is kept by every step.                                    *)

Inv == IInv /\ HInv

Good == Inv' /\ Survive

LEMMA QuietStep ==
  ASSUME Inv, IInv', Survive, Quiet
  PROVE  Good
BY QuietKeeps DEF Good, Inv

LEMMA SameRowsQuiet ==
  ASSUME UNCHANGED <<jobs, begun, compaction>>
  PROVE  Quiet
BY RowsQuiet

LEMMA ProgressInv ==
  ASSUME Inv, NEW p \in Processes, Progress(p)
  PROVE  Good
<1>0. IInv /\ HInv
  BY DEF Inv
<1>1. CASE WorkerClaims(p)
  <2>1. Quiet
    BY <1>0, <1>1, ClaimQuiet DEF WorkerClaims, ClaimConsolidation
  <2> QED
    BY <1>0, <1>1, <2>1, WorkerClaimsInv, QuietStep
<1>2. ASSUME NEW allowed \in SUBSET DOMAIN jobs, FlushClaimsConsolidation(p, allowed)
      PROVE  Good
  <2>1. ClaimConsolidation(p, allowed) /\ UNCHANGED <<begun, compaction>>
    BY <1>2 DEF FlushClaimsConsolidation, ClaimConsolidation
  <2>2. Quiet
    BY <1>0, <2>1, ClaimQuiet
  <2> QED
    BY <1>0, <1>2, <2>2, FlushClaimsConsolidationInv, QuietStep
<1>3. CASE Reserve(p)
  BY <1>0, <1>3, ReserveInv, ReserveQuiet, QuietStep
<1>4. CASE AnswerMalformed(p)
  <2>1. Quiet
    BY <1>4, SameRowsQuiet DEF AnswerMalformed
  <2> QED
    BY <1>0, <1>4, <2>1, AnswerMalformedInv, QuietStep
<1>5. CASE RenewForRepair(p)
  <2>1. Quiet
    BY <1>0, <1>5, RenewedQuiet DEF RenewForRepair, Works, Steps
  <2> QED
    BY <1>0, <1>5, <2>1, RenewForRepairInv, QuietStep
<1>6. ASSUME NEW spawns \in BOOLEAN, CompleteExtraction(p, spawns)
      PROVE  Good
  <2>1. TurnsInv
    BY <1>0 DEF HInv
  <2>2. IInv' /\ Survive
    BY <1>0, <1>6, <2>1, CompleteExtractionInv
  <2> QED
    BY <1>0, <1>6, <2>2, CompleteExtractionHistory DEF Good, Inv
<1>7. ASSUME NEW created \in BOOLEAN, ApplyConsolidation(p, created)
      PROVE  Good
  BY <1>0, <1>7, ApplyConsolidationInv, ApplyConsolidationQuiet, QuietStep
<1>8. CASE CapacitySkip(p)
  BY <1>0, <1>8, CapacitySkipInv, CapacitySkipQuiet, QuietStep
<1>9. CASE FailJob(p)
  <2>1. Quiet
    BY <1>0, <1>9, FailsQuiet DEF FailJob, Rewrites, Errors
  <2> QED
    BY <1>0, <1>9, <2>1, FailJobInv, QuietStep
<1>10. ASSUME NEW error \in {"LLMTransientError", "other"}, ProviderFails(p, error)
       PROVE  Good
  <2>1. Quiet
    BY <1>0, <1>10, HandlePrimaryFailureQuiet DEF ProviderFails, Works, Steps, Errors
  <2> QED
    BY <1>0, <1>10, <2>1, ProviderFailsInv, QuietStep
<1>11. CASE StoreIsBusy(p)
  <2>1. Wrapped("OperationalError") \in Errors
    BY DEF Wrapped, Errors
  <2>2. Quiet
    BY <1>0, <1>11, <2>1, HandlePrimaryFailureQuiet DEF StoreIsBusy, Works, Steps
  <2> QED
    BY <1>0, <1>11, <2>2, StoreIsBusyInv, QuietStep
<1>12. CASE LateResult(p)
  <2>1. Quiet
    BY <1>12, SameRowsQuiet DEF LateResult
  <2> QED
    BY <1>0, <1>12, <2>1, LateResultInv, QuietStep
<1> QED
  BY <1>1, <1>2, <1>3, <1>4, <1>5, <1>6, <1>7, <1>8, <1>9, <1>10, <1>11, <1>12 DEF Progress

LEMMA NextInv ==
  ASSUME Inv, Next
  PROVE  Good
<1>0. IInv /\ HInv
  BY DEF Inv
<1>1. CASE BeginTurn
  BY <1>0, <1>1, BeginTurnInv, BeginTurnHistory DEF Good, Inv
<1>2. ASSUME NEW t \in Threads, NEW sequence \in 1..begun[t], EndTurn(t, sequence)
      PROVE  Good
  BY <1>0, <1>2, EndTurnInv, EndTurnHistory DEF Good, Inv
<1>3. CASE StartNewThread
  <2>1. Quiet
    BY <1>3, SameRowsQuiet DEF StartNewThread
  <2> QED
    BY <1>0, <1>3, <2>1, StartNewThreadInv, QuietStep
<1>4. CASE Clear
  BY <1>0, <1>4, ClearInv, ClearHistory DEF Good, Inv
<1>5. CASE Recover
  BY <1>0, <1>5, RecoverInv, RecoverQuiet, QuietStep
<1>6. CASE Tick
  BY <1>0, <1>6, TickInv, TickQuiet, QuietStep
<1>7. ASSUME NEW p \in Processes, Progress(p)
      PROVE  Good
  BY <1>7, ProgressInv
<1>8. ASSUME NEW p \in Processes, NEW allowed \in SUBSET DOMAIN jobs, FlushClaims(p, allowed)
      PROVE  Good
  <2>1. ClaimExtraction(p, allowed, TRUE, "flush") /\ UNCHANGED <<begun, compaction>>
    BY <1>8 DEF FlushClaims
  <2>2. Quiet
    BY <1>0, <2>1, ClaimQuiet
  <2> QED
    BY <1>0, <1>8, <2>2, FlushClaimsInv, QuietStep
<1>9. ASSUME NEW p \in Processes, Heartbeat(p)
      PROVE  Good
  <2>1. Quiet
    BY <1>0, <1>9, RenewedQuiet DEF Heartbeat, Works, Steps
  <2> QED
    BY <1>0, <1>9, <2>1, HeartbeatInv, QuietStep
<1>10. ASSUME NEW p \in Processes, Abandon(p)
       PROVE  Good
  <2>1. Quiet
    BY <1>10, SameRowsQuiet DEF Abandon
  <2> QED
    BY <1>0, <1>10, <2>1, AbandonInv, QuietStep
<1> QED
  BY <1>1, <1>2, <1>3, <1>4, <1>5, <1>6, <1>7, <1>8, <1>9, <1>10 DEF Next

LEMMA StutterInv ==
  ASSUME Inv, UNCHANGED vars
  PROVE  Good
<1>1. /\ jobs' = jobs /\ issued' = issued /\ generation' = generation /\ active' = active
      /\ begun' = begun /\ compaction' = compaction /\ pipeline' = pipeline
      /\ turns' = turns /\ events' = events
  BY DEF vars
<1>2. TypeOK'
  BY <1>1 DEF TypeOK, Inv, IInv
<1>3. \A q \in Processes : Follows(q)
  BY <1>1, SameRowsFollow DEF Inv, IInv
<1>4. IInv' /\ Survive
  BY <1>1, <1>2, <1>3, SameRows DEF Inv
<1> QED
  BY <1>1, <1>4, SameRowsQuiet, QuietStep

LEMMA Invariance == Spec => []Inv
<1>1. Init => Inv
  BY InitInv DEF Inv
<1>2. Inv /\ [Next]_vars => Inv'
  BY NextInv, StutterInv DEF Good
<1> QED
  BY <1>1, <1>2, PTL DEF Spec

-----------------------------------------------------------------------------
(* The rows and the pipelines stay in their types: no job is attempted     *)
(* more than MAX_JOB_ATTEMPTS times or makes more than MAX_JOB_LLM_CALLS   *)
(* calls, however claims, reclaims, repairs and crashes interleave.        *)
THEOREM RowsAreTyped == Spec => []TypeOK
<1>1. Inv => TypeOK
  BY DEF Inv, IInv
<1> QED
  BY <1>1, Invariance, PTL

(* A job that waits, after a failure, an expired lease or a crash, has an  *)
(* attempt and a call for it left.                                         *)
THEOREM WaitingJobsAreNotSpent == Spec => []WaitingJobsHaveBudget
<1>1. Inv => WaitingJobsHaveBudget
  <2> SUFFICES ASSUME Inv, NEW i \in DOMAIN jobs, jobs[i].status \in {"pending", "retry_wait"}
               PROVE  ~ IsSpent(jobs[i])
    BY DEF WaitingJobsHaveBudget
  <2>1. jobs[i] \in JobType /\ RowInv(jobs[i])
    BY TypedRow DEF Inv, IInv, RowsInv
  <2> QED
    BY <2>1, WaitingRow
<1> QED
  BY <1>1, Invariance, PTL

(* A pipeline whose lease is valid writes to the rows it claimed: of one   *)
(* kind and thread, in the attempt by which it decides about a retry.      *)
THEOREM BatchStaysTheClaim == Spec => []BatchIsTheClaim
<1>1. Inv => BatchIsTheClaim
  BY HeldBatch DEF Inv, BatchIsTheClaim, RowOfBatch
<1> QED
  BY <1>1, Invariance, PTL

(* Candidates are pending as long as their consolidation job is open, and  *)
(* not after it, however it ends.                                          *)
THEOREM CandidatesAreDecidedWithTheirJob == Spec => []CandidatesFollowTheirJob
<1>1. Inv => CandidatesFollowTheirJob
  BY DEF Inv, IInv, RowsInv, RowInv, CandidatesFollowTheirJob
<1> QED
  BY <1>1, Invariance, PTL

(* Whatever is leased in a thread is at the head of its queue: the claim   *)
(* takes a prefix, its leases are renewed and run out together, and no     *)
(* retry puts a job back in front of a leased one.                         *)
THEOREM LeasesAreAtTheHead == Spec => []HeadOfLine
<1>1. Inv => HeadOfLine
  BY DEF Inv, IInv, Ordered, SameQueue, HeadOfLine
<1> QED
  BY <1>1, Invariance, PTL

(* No candidates are committed twice: not by a worker that was late, nor   *)
(* by the one that took the batch over from it.                            *)
THEOREM CandidatesAreCommittedOnce == Spec => []ExtractedOnce
<1>1. Inv => ExtractedOnce
  BY DEF Inv, HInv
<1> QED
  BY <1>1, Invariance, PTL

(* The checkpoint of a thread does not fall behind a committed turn, and   *)
(* is never one of a turn that was not extracted.                          *)
THEOREM CheckpointFollowsCommits == Spec => []CheckpointIsNewest
<1>1. Inv => CheckpointIsNewest
  BY DEF Inv, HInv
<1> QED
  BY <1>1, Invariance, PTL

(* No step changes a finished job, but /memory clear, which deletes all.   *)
THEOREM FinishedJobsAreFinal == Spec => FinishedIsFinal
<1>1. Inv /\ [Next]_vars =>
        [\A i \in DOMAIN jobs \cap DOMAIN jobs' : IsFinished(jobs[i]) => jobs'[i] = jobs[i]]_vars
  BY NextInv DEF Good, Survive
<1> QED
  BY <1>1, Invariance, PTL DEF Spec, FinishedIsFinal

-----------------------------------------------------------------------------
(* The refinement of the ledger. *)

QueueOf(row) == IF IsExtraction(row) THEN row.thread ELSE 0

Dropped(old) == Ledger!Job(QueueOf(old), 0, "dropped")
Started(old) == Ledger!Job(QueueOf(old), old.attempt_count + 1, "open")
Committed(old) == Ledger!Job(QueueOf(old), 0, "committed")

LEMMA EntryOf ==
  ASSUME NEW row
  PROVE  /\ Entry(row).thread = QueueOf(row) /\ Entry(row).runs = row.attempt_count
         /\ Entry(row).state = "open" <=> ~ IsFinished(row)
         /\ ~ IsFinished(row) => Entry(row) = Ledger!Job(QueueOf(row), row.attempt_count, "open")
         /\ row.status \in {"failed", "succeeded_no_output"} =>
              Entry(row) = Ledger!Job(QueueOf(row), row.attempt_count, "dropped")
         /\ row.status = "succeeded" =>
              Entry(row) = Ledger!Job(QueueOf(row), row.attempt_count, "committed")
BY DEF Entry, QueueOf, IsFinished, Finished, Ledger!Job

Open == {i \in DOMAIN jobs : ~ IsFinished(jobs[i])}

LEMMA OpenJobs == Ledger!Open = Open
BY EntryOf DEF Ledger!Open, Open

(* A batch of the ledger, in terms of the rows.                            *)
IsFront(B, S) ==
  /\ B # {} /\ B \subseteq S
  /\ \A i, j \in B : /\ QueueOf(jobs[i]) = QueueOf(jobs[j])
                     /\ jobs[i].attempt_count = jobs[j].attempt_count
  /\ \A i \in B : IF IsExtraction(jobs[i])
                  THEN \A j \in S : SameQueue(jobs, i, j) /\ j < i => j \in B
                  ELSE B = {i}

LEMMA FrontIsBatch ==
  ASSUME TypeOK, NEW S \in SUBSET DOMAIN jobs, NEW B, IsFront(B, S)
  PROVE  Ledger!IsBatch(B, S)
<1>1. \A i \in DOMAIN jobs : jobs[i].thread \in Nat /\ jobs[i].thread # 0
  BY TypedRow DEF Threads
<1>2. \A i \in B : i \in DOMAIN jobs
  BY DEF IsFront
<1>3. \A i, j \in B : /\ Entry(jobs[i]).thread = Entry(jobs[j]).thread
                      /\ Entry(jobs[i]).runs = Entry(jobs[j]).runs
  BY EntryOf DEF IsFront
<1>4. ASSUME NEW i \in B
      PROVE  IF Entry(jobs[i]).thread = 0 THEN B = {i}
             ELSE \A j \in S : Entry(jobs[j]).thread = Entry(jobs[i]).thread /\ j < i => j \in B
  <2>1. CASE IsExtraction(jobs[i])
    <3>1. Entry(jobs[i]).thread = jobs[i].thread /\ jobs[i].thread # 0
      BY <1>1, <1>2, <2>1, EntryOf DEF QueueOf
    <3>2. ASSUME NEW j \in S, Entry(jobs[j]).thread = Entry(jobs[i]).thread
          PROVE  SameQueue(jobs, i, j)
      BY <2>1, <3>1, <3>2, EntryOf DEF QueueOf, SameQueue
    <3> QED
      BY <2>1, <3>1, <3>2 DEF IsFront
  <2>2. CASE ~ IsExtraction(jobs[i])
    BY <2>2, EntryOf DEF QueueOf, IsFront
  <2> QED
    BY <2>1, <2>2
<1> QED
  BY <1>2, <1>3, <1>4 DEF Ledger!IsBatch, Ledger!Ahead, IsFront

(* What a step does to the rows decides what it is in the ledger.          *)
LEMMA Unseen ==
  ASSUME DOMAIN jobs' = DOMAIN jobs, issued' = issued,
         \A i \in DOMAIN jobs : Entry(jobs'[i]) = Entry(jobs[i])
  PROVE  UNCHANGED Ledger!vars
BY DEF Ledger!vars

LEMMA AttemptStep ==
  ASSUME TypeOK, DOMAIN jobs' = DOMAIN jobs, issued' = issued,
         NEW dropped \in SUBSET Open, NEW started \in SUBSET Open,
         \A i \in dropped : jobs[i].attempt_count > 0,
         started # {} => IsFront(started, Open \ dropped),
         \A i \in started : jobs[i].attempt_count < MaxAttempts,
         \A i \in DOMAIN jobs :
           Entry(jobs'[i]) = IF i \in dropped THEN Dropped(jobs[i])
                             ELSE IF i \in started THEN Started(jobs[i])
                             ELSE Entry(jobs[i])
  PROVE  Ledger!Next
<1>1. \A i \in DOMAIN jobs : Entry(jobs[i]).thread = QueueOf(jobs[i])
                             /\ Entry(jobs[i]).runs = jobs[i].attempt_count
  BY EntryOf
<1>2. dropped \in SUBSET DOMAIN jobs /\ started \in SUBSET DOMAIN jobs
  BY DEF Open
<1>3. started # {} => Ledger!IsBatch(started, Ledger!Open \ dropped)
  <2>1. Open \ dropped \in SUBSET DOMAIN jobs
    BY DEF Open
  <2> QED
    BY <2>1, FrontIsBatch, OpenJobs
<1>4. [i \in DOMAIN jobs' |-> Entry(jobs'[i])] = Ledger!After(dropped, started)
  BY <1>1, <1>2 DEF Ledger!After, Dropped, Started
<1>5. /\ \A i \in dropped : Entry(jobs[i]).runs > 0
      /\ \A i \in started : Entry(jobs[i]).runs < MaxAttempts
  BY <1>1, <1>2
<1>6. Ledger!Attempt
  BY <1>2, <1>3, <1>4, <1>5, OpenJobs DEF Ledger!Attempt
<1> QED
  BY <1>6 DEF Ledger!Next

(* A held batch is the front of its queue, and has been attempted.         *)
LEMMA HeldIsFront ==
  ASSUME IInv, NEW p \in Processes, Works(p), ValidLease(p)
  PROVE  /\ pipeline[p].ids \in SUBSET Open
         /\ IsFront(pipeline[p].ids, Open)
         /\ \A i \in pipeline[p].ids : jobs[i].attempt_count > 0
<1> DEFINE ids == pipeline[p].ids
<1>1. ids # {} /\ ids \in SUBSET Open
  BY HeldBatch DEF Open
<1>2. \A i \in ids : jobs[i].attempt_count > 0
  BY HeldBatch DEF RowOfBatch
<1>3. ASSUME NEW i \in ids, NEW j \in ids
      PROVE  /\ QueueOf(jobs[i]) = QueueOf(jobs[j])
             /\ jobs[i].attempt_count = jobs[j].attempt_count
  <2>1. jobs[i].thread = jobs[j].thread /\ SameCounts(jobs[i], jobs[j])
    BY HeldBatch
  <2>2. jobs[i].kind = pipeline[p].kind /\ jobs[j].kind = pipeline[p].kind
    BY HeldBatch DEF RowOfBatch
  <2> QED
    BY <2>1, <2>2 DEF QueueOf, IsExtraction, SameCounts
<1>4. ASSUME NEW i \in ids, IsExtraction(jobs[i]),
             NEW j \in Open, SameQueue(jobs, i, j), j < i
      PROVE  j \in ids
  <2>1. jobs[j].status = "leased"
    <3>1. i \in DOMAIN jobs /\ jobs[i].status = "leased"
      BY HeldBatch
    <3> QED
      BY <1>4, <3>1 DEF IInv, Ordered, Open
  <2>2. RowOfBatch(p, i)
    BY HeldBatch
  <2> QED
    BY <1>4, <2>1, <2>2 DEF RowOfBatch, Open
<1>5. ASSUME NEW i \in ids, ~ IsExtraction(jobs[i])
      PROVE  ids = {i}
  <2>1. pipeline[p].kind = "consolidation"
    <3>1. RowOfBatch(p, i) /\ jobs[i] \in JobType
      BY HeldBatch
    <3> QED
      BY <1>5, <3>1 DEF RowOfBatch, IsExtraction, JobType
  <2> QED
    BY <2>1, HeldBatch
<1> QED
  BY <1>1, <1>2, <1>3, <1>4, <1>5 DEF IsFront

(* The batch ends without a result.                                        *)
LEMMA DropsBatch ==
  ASSUME IInv, NEW p \in Processes, Works(p), ValidLease(p), issued' = issued,
         DOMAIN jobs' = DOMAIN jobs,
         \A i \in DOMAIN jobs \ pipeline[p].ids : jobs'[i] = jobs[i],
         \A i \in pipeline[p].ids : /\ jobs'[i].status \in {"failed", "succeeded_no_output"}
                                    /\ jobs'[i].attempt_count = 0
                                    /\ SameJob(jobs'[i], jobs[i])
  PROVE  Ledger!Next
<1> DEFINE ids == pipeline[p].ids
<1>1. ids \in SUBSET Open /\ \A i \in ids : jobs[i].attempt_count > 0
  BY HeldIsFront
<1>2. \A i \in ids : Entry(jobs'[i]) = Dropped(jobs[i])
  BY EntryOf DEF Dropped, QueueOf, SameJob, IsExtraction
<1>3. {} \in SUBSET Open /\ \A i \in {} : jobs[i].attempt_count < MaxAttempts
  OBVIOUS
<1>4. \A i \in DOMAIN jobs :
        Entry(jobs'[i]) = IF i \in ids THEN Dropped(jobs[i])
                          ELSE IF i \in {} THEN Started(jobs[i])
                          ELSE Entry(jobs[i])
  BY <1>2
<1> QED
  BY <1>1, <1>3, <1>4, AttemptStep DEF IInv

LEMMA EndedRow ==
  ASSUME NEW row \in JobType, NEW status \in Finished, NEW candidates, NEW error
  PROVE  LET new == End(row, status, candidates, error)
         IN  new.status = status /\ new.attempt_count = 0 /\ SameJob(new, row)
BY DEF End, JobType, SameJob

LEMMA FailsIsDrop ==
  ASSUME IInv, NEW p \in Processes, NEW error, Works(p), ValidLease(p), issued' = issued,
         jobs' = [i \in DOMAIN jobs |->
                    IF i \in pipeline[p].ids THEN Failed(jobs[i], error) ELSE jobs[i]]
  PROVE  Ledger!Next
<1>1. ASSUME NEW i \in pipeline[p].ids
      PROVE  /\ jobs'[i].status = "failed" /\ jobs'[i].attempt_count = 0
             /\ SameJob(jobs'[i], jobs[i])
  <2>1. i \in DOMAIN jobs /\ jobs[i] \in JobType
    BY HeldBatch
  <2> QED
    BY <2>1, EndedRow DEF Failed, Finished
<1> QED
  BY <1>1, DropsBatch

LEMMA SkipIsDrop ==
  ASSUME IInv, NEW p \in Processes, CapacitySkip(p)
  PROVE  Ledger!Next
<1>1. /\ Works(p) /\ ValidLease(p) /\ issued' = issued /\ DOMAIN jobs' = DOMAIN jobs
      /\ jobs' = [i \in DOMAIN jobs |->
                    IF i \in pipeline[p].ids THEN Skipped(jobs[i]) ELSE jobs[i]]
  BY DEF CapacitySkip, Rewrites, Works, Steps
<1>2. ASSUME NEW i \in pipeline[p].ids
      PROVE  /\ jobs'[i].status = "succeeded_no_output" /\ jobs'[i].attempt_count = 0
             /\ SameJob(jobs'[i], jobs[i])
  <2>1. i \in DOMAIN jobs /\ jobs[i] \in JobType
    BY <1>1, HeldBatch
  <2> QED
    BY <1>1, <2>1, EndedRow DEF Skipped, Finished
<1> QED
  BY <1>1, <1>2, DropsBatch

LEMMA FailureIsDrop ==
  ASSUME IInv, NEW p \in Processes, NEW error, Works(p), HandlePrimaryFailure(p, error)
  PROVE  Ledger!Next \/ UNCHANGED Ledger!vars
<1>1. ValidLease(p) /\ issued' = issued
  BY DEF HandlePrimaryFailure
<1>2. CASE IsRetried(p, error)
  <2>1. jobs' = [i \in DOMAIN jobs |->
                   IF i \in pipeline[p].ids THEN RetryWait(jobs[i], error) ELSE jobs[i]]
    BY <1>2 DEF HandlePrimaryFailure, Rewrites
  <2>2. ASSUME NEW i \in pipeline[p].ids
        PROVE  Entry(jobs'[i]) = Entry(jobs[i])
    <3>1. i \in DOMAIN jobs /\ jobs[i] \in JobType /\ jobs[i].status = "leased"
      BY <1>1, HeldBatch
    <3>2. /\ jobs'[i].status = "retry_wait" /\ jobs'[i].kind = jobs[i].kind
          /\ jobs'[i].thread = jobs[i].thread
          /\ jobs'[i].attempt_count = jobs[i].attempt_count
      BY <2>1, <3>1 DEF RetryWait, JobType
    <3> QED
      BY <3>1, <3>2 DEF Entry, IsFinished, Finished, IsExtraction
  <2> QED
    BY <1>1, <2>1, <2>2, Unseen
<1>3. CASE ~ IsRetried(p, error)
  <2>1. jobs' = [i \in DOMAIN jobs |->
                   IF i \in pipeline[p].ids THEN Failed(jobs[i], error) ELSE jobs[i]]
    BY <1>3 DEF HandlePrimaryFailure, Rewrites
  <2> QED
    BY <1>1, <2>1, FailsIsDrop
<1> QED
  BY <1>2, <1>3

(* The batch is committed.                                                 *)
LEMMA ConsolidationIsCommit ==
  ASSUME IInv, NEW p \in Processes, NEW created \in BOOLEAN, ApplyConsolidation(p, created)
  PROVE  Ledger!Next
<1> DEFINE ids == pipeline[p].ids
           outcome == IF created THEN "succeeded" ELSE "succeeded_no_output"
<1>1. /\ Works(p) /\ ValidLease(p) /\ issued' = issued /\ DOMAIN jobs' = DOMAIN jobs
      /\ pipeline[p].kind = "consolidation"
      /\ \A i \in DOMAIN jobs \ ids : jobs'[i] = jobs[i]
      /\ \A i \in DOMAIN jobs \cap ids : jobs'[i] = End(jobs[i], outcome, "resolved", "none")
  BY DEF ApplyConsolidation, Rewrites, Consolidated, Works, Steps
<1>2. /\ ids \in SUBSET Open /\ IsFront(ids, Open)
      /\ \A i \in ids : jobs[i].attempt_count > 0
  BY <1>1, HeldIsFront
<1>3. ASSUME NEW i \in ids
      PROVE  /\ i \in DOMAIN jobs /\ ~ IsExtraction(jobs[i])
             /\ jobs'[i].status = outcome /\ jobs'[i].attempt_count = 0
             /\ SameJob(jobs'[i], jobs[i])
  <2>1. i \in DOMAIN jobs /\ jobs[i] \in JobType /\ RowOfBatch(p, i)
    BY <1>1, HeldBatch
  <2>2. outcome \in Finished
    BY DEF Finished
  <2> HIDE DEF outcome
  <2> QED
    BY <1>1, <2>1, <2>2, EndedRow DEF RowOfBatch, IsExtraction
<1>4. CASE created
  <2>1. \A i \in ids : Entry(jobs'[i]) = Committed(jobs[i])
    BY <1>3, <1>4, EntryOf DEF Committed, QueueOf, SameJob, IsExtraction
  <2>2. ids \in SUBSET Ledger!Open /\ Ledger!IsBatch(ids, Ledger!Open)
    <3>1. Open \in SUBSET DOMAIN jobs
      BY DEF Open
    <3> QED
      BY <1>2, <3>1, FrontIsBatch, OpenJobs DEF IInv
  <2>3. \A i \in ids : Entry(jobs[i]).runs > 0 /\ Entry(jobs[i]).thread = 0
    BY <1>2, <1>3, EntryOf DEF QueueOf
  <2>4. ~ \A i \in ids : Entry(jobs[i]).thread > 0
    BY <1>2, <2>3 DEF IsFront
  <2>5. [i \in DOMAIN jobs' |-> Entry(jobs'[i])] =
        [i \in DOMAIN jobs \cup {} |->
           IF i \notin DOMAIN jobs THEN Ledger!Job(0, 0, "open")
           ELSE IF i \in ids THEN Ledger!Job(Entry(jobs[i]).thread, 0, "committed")
           ELSE Entry(jobs[i])]
    BY <1>1, <2>1, EntryOf DEF Committed
  <2>6. Ledger!Commit
    <3>1. \A i \in ids : i \in DOMAIN jobs
      BY <1>3
    <3> QED
      BY <1>1, <2>2, <2>3, <2>4, <2>5, <3>1 DEF Ledger!Commit
  <2> QED
    BY <2>6 DEF Ledger!Next
<1>5. CASE ~ created
  BY <1>1, <1>3, <1>5, DropsBatch
<1> QED
  BY <1>4, <1>5

LEMMA ExtractionIsCommit ==
  ASSUME IInv, TurnsInv, NEW p \in Processes, NEW spawns \in BOOLEAN,
         CompleteExtraction(p, spawns)
  PROVE  Ledger!Next
<1> DEFINE ids == pipeline[p].ids
           new == NewJob("consolidation", Thread(p), 0, FirstOf(ids))
           outcome == IF spawns THEN "succeeded" ELSE "succeeded_no_output"
<1>1. /\ Works(p) /\ ValidLease(p) /\ pipeline[p].kind = "extraction"
      /\ issued' = IF spawns THEN issued + 1 ELSE issued
  BY DEF CompleteExtraction, Works, Steps
<1>2. /\ ids \in SUBSET Open /\ IsFront(ids, Open) /\ ids \in SUBSET DOMAIN jobs
      /\ \A i \in ids : jobs[i].attempt_count > 0
  BY <1>1, HeldIsFront DEF Open
<1>3. issued' \notin DOMAIN jobs \/ ~ spawns
  BY <1>1 DEF IInv, TypeOK
<1>4. /\ DOMAIN jobs' = IF spawns THEN DOMAIN jobs \cup {issued'} ELSE DOMAIN jobs
      /\ spawns => jobs'[issued'] = new
      /\ \A i \in DOMAIN jobs \ ids : jobs'[i] = jobs[i]
      /\ \A i \in ids : jobs'[i] = End(jobs[i], outcome, "none", "none")
  <2>1. CASE ~ spawns
    BY <1>2, <2>1 DEF CompleteExtraction
  <2>2. CASE spawns
    <3> HIDE DEF new
    <3> QED
      BY <1>2, <1>3, <2>2 DEF CompleteExtraction, new
  <2> QED
    BY <2>1, <2>2
<1>5. ASSUME NEW i \in ids
      PROVE  /\ i \in DOMAIN jobs /\ IsExtraction(jobs[i])
             /\ jobs'[i].status = outcome /\ jobs'[i].attempt_count = 0
             /\ SameJob(jobs'[i], jobs[i])
  <2>1. i \in DOMAIN jobs /\ jobs[i] \in JobType /\ RowOfBatch(p, i)
    BY <1>1, HeldBatch
  <2>2. outcome \in Finished
    BY DEF Finished
  <2> HIDE DEF outcome
  <2> QED
    BY <1>1, <1>4, <2>1, <2>2, EndedRow DEF RowOfBatch, IsExtraction
<1>6. CASE ~ spawns
  BY <1>1, <1>4, <1>5, <1>6, DropsBatch
<1>7. CASE spawns
  <2>1. \A i \in ids : Entry(jobs'[i]) = Committed(jobs[i])
    BY <1>5, <1>7, EntryOf DEF Committed, QueueOf, SameJob, IsExtraction
  <2>2. ids \in SUBSET Ledger!Open /\ Ledger!IsBatch(ids, Ledger!Open)
    <3>1. Open \in SUBSET DOMAIN jobs
      BY DEF Open
    <3> QED
      BY <1>2, <3>1, FrontIsBatch, OpenJobs DEF IInv
  <2>3. \A i \in ids : Entry(jobs[i]).runs > 0 /\ Entry(jobs[i]).thread > 0
    <3>1. \A i \in ids : jobs[i].thread \in Threads
      BY <1>2, TypedRow DEF IInv
    <3> QED
      BY <1>2, <1>5, <3>1, EntryOf DEF QueueOf, Threads
  <2>4. Entry(new) = Ledger!Job(0, 0, "open")
    BY DEF Entry, NewJob, IsExtraction, IsFinished, Finished, Ledger!Job
  <2>5. [i \in DOMAIN jobs' |-> Entry(jobs'[i])] =
        [i \in DOMAIN jobs \cup {issued'} |->
           IF i \notin DOMAIN jobs THEN Ledger!Job(0, 0, "open")
           ELSE IF i \in ids THEN Ledger!Job(Entry(jobs[i]).thread, 0, "committed")
           ELSE Entry(jobs[i])]
    <3> HIDE DEF new
    <3> QED
      BY <1>3, <1>4, <1>7, <2>1, <2>4, EntryOf DEF Committed
  <2>6. Ledger!Commit
    BY <1>1, <1>2, <1>7, <2>2, <2>3, <2>5 DEF Ledger!Commit
  <2> QED
    BY <2>6 DEF Ledger!Next
<1> QED
  BY <1>6, <1>7

(* Reclaiming drops what was leased for the last time.                     *)
Lost == {i \in DOMAIN jobs : Expired(jobs[i]) /\ jobs[i].attempt_count >= MaxAttempts}

LEMMA LostJobs ==
  ASSUME TypeOK
  PROVE  /\ Lost \in SUBSET Open
         /\ \A i \in Lost : jobs[i].attempt_count > 0
         /\ \A i \in DOMAIN jobs : /\ i \in Lost => Entry(Reclaimed[i]) = Dropped(jobs[i])
                                   /\ i \notin Lost => Entry(Reclaimed[i]) = Entry(jobs[i])
<1>1. Lost \in SUBSET Open
  BY DEF Lost, Open, Expired, IsFinished, Finished
<1>2. \A i \in Lost : jobs[i].attempt_count > 0
  BY TypedRow, Constants DEF Lost
<1>3. ASSUME NEW i \in DOMAIN jobs
      PROVE  /\ i \in Lost => Entry(Reclaimed[i]) = Dropped(jobs[i])
             /\ i \notin Lost => Entry(Reclaimed[i]) = Entry(jobs[i])
  <2>0. jobs[i] \in JobType
    BY TypedRow
  <2>1. CASE i \in Lost
    <3>1. Reclaimed[i] = Failed(jobs[i], "other")
      BY <2>1 DEF Reclaimed, Lost
    <3>2. /\ Reclaimed[i].status = "failed" /\ Reclaimed[i].attempt_count = 0
          /\ SameJob(Reclaimed[i], jobs[i])
      BY <2>0, <3>1, EndedRow DEF Failed, Finished
    <3>3. QueueOf(Reclaimed[i]) = QueueOf(jobs[i])
      BY <3>2 DEF QueueOf, SameJob, IsExtraction
    <3> QED
      BY <2>1, <3>2, <3>3, EntryOf DEF Dropped
  <2>2. CASE i \notin Lost /\ Expired(jobs[i])
    <3>1. Reclaimed[i] = RetryWait(jobs[i], "other")
      BY <2>2 DEF Reclaimed, Lost
    <3>2. /\ Reclaimed[i].status = "retry_wait" /\ Reclaimed[i].kind = jobs[i].kind
          /\ Reclaimed[i].thread = jobs[i].thread
          /\ Reclaimed[i].attempt_count = jobs[i].attempt_count
      BY <2>0, <3>1 DEF RetryWait, JobType
    <3> QED
      BY <2>2, <3>2 DEF Entry, Expired, IsFinished, Finished, IsExtraction
  <2>3. CASE ~ Expired(jobs[i])
    BY <2>3 DEF Reclaimed, Lost
  <2> QED
    BY <2>1, <2>2, <2>3
<1> QED
  BY <1>1, <1>2, <1>3

LEMMA ReclaimIsAttempt ==
  ASSUME IInv, jobs' = Reclaimed, issued' = issued
  PROVE  Ledger!Next
<1>1. DOMAIN jobs' = DOMAIN jobs
  BY DEF Reclaimed
<1>2. /\ TypeOK /\ Lost \in SUBSET Open /\ {} \in SUBSET Open
      /\ \A i \in Lost : jobs[i].attempt_count > 0
      /\ \A i \in {} : jobs[i].attempt_count < MaxAttempts
  BY LostJobs DEF IInv
<1>3. \A i \in DOMAIN jobs :
        Entry(jobs'[i]) = IF i \in Lost THEN Dropped(jobs[i])
                          ELSE IF i \in {} THEN Started(jobs[i])
                          ELSE Entry(jobs[i])
  BY <1>2, LostJobs
<1> QED
  BY <1>1, <1>2, <1>3, AttemptStep

LEMMA ClaimIsAttempt ==
  ASSUME IInv, NEW p \in Processes, NEW S, NEW kind \in {"extraction", "consolidation"},
         NEW next, ClaimableSet(Reclaimed, S, kind), ClaimRows(p, Reclaimed, S, kind, next),
         issued' = issued
  PROVE  Ledger!Next
<1> DEFINE R == Reclaimed
<1>1. /\ DOMAIN R = DOMAIN jobs /\ DOMAIN jobs' = DOMAIN jobs /\ S \in SUBSET DOMAIN jobs
      /\ \A i \in DOMAIN jobs \ S : jobs'[i] = R[i]
      /\ \A i \in S : jobs'[i] = Leased(R[i], p)
  <2>1. DOMAIN R = DOMAIN jobs
    BY DEF Reclaimed
  <2>2. jobs' = [i \in DOMAIN jobs |-> IF i \in S THEN Leased(R[i], p) ELSE R[i]]
    BY AllLeased
  <2> QED
    BY <2>1, <2>2 DEF ClaimableSet
<1>2. \A i \in S : /\ R[i] \in JobType /\ R[i].attempt_count < MaxAttempts
                   /\ ~ IsFinished(R[i]) /\ R[i].kind = kind
  <2>1. \A i \in S : R[i].kind = kind
    BY DEF ClaimableSet
  <2> QED
    BY <2>1, AllLeased
<1>3. ASSUME NEW i \in DOMAIN jobs, IsFinished(jobs[i])
      PROVE  IsFinished(R[i])
  <2>1. Keeps(R[i], jobs[i])
    BY ReclaimedRows DEF IInv
  <2>2. R[i] = jobs[i]
    BY <1>3, <2>1 DEF Keeps
  <2> QED
    BY <1>3, <2>2
<1>4. \A i \in DOMAIN jobs : SameJob(R[i], jobs[i]) /\ QueueOf(R[i]) = QueueOf(jobs[i])
  BY ReclaimedRows DEF IInv, Keeps, QueueOf, SameJob, IsExtraction
<1>5. ASSUME NEW i \in DOMAIN jobs, i \in Lost
      PROVE  IsFinished(R[i])
  <2>1. Entry(R[i]).state = "dropped"
    <3>1. Entry(R[i]) = Dropped(jobs[i])
      BY <1>5, LostJobs DEF IInv
    <3>2. Dropped(jobs[i]).state = "dropped"
      BY DEF Dropped, Ledger!Job
    <3> QED
      BY <3>1, <3>2
  <2>2. Entry(R[i]).state = "open" <=> ~ IsFinished(R[i])
    BY EntryOf
  <2> QED
    BY <2>1, <2>2
<1>6. \A i \in DOMAIN jobs \ Lost :
        R[i].attempt_count = jobs[i].attempt_count /\ IsFinished(R[i]) = IsFinished(jobs[i])
  <2>1. \A i \in DOMAIN jobs \ Lost : Entry(R[i]) = Entry(jobs[i])
    BY LostJobs DEF IInv
  <2>2. ASSUME NEW i \in DOMAIN jobs \ Lost
        PROVE  IsFinished(R[i]) => IsFinished(jobs[i])
    BY <2>1, EntryOf
  <2>3. ASSUME NEW i \in DOMAIN jobs \ Lost
        PROVE  R[i].attempt_count = jobs[i].attempt_count
    BY <2>1, EntryOf
  <2> QED
    BY <1>3, <2>2, <2>3 DEF IsFinished
<1>7. S \in SUBSET (Open \ Lost) /\ S # {}
  BY <1>1, <1>2, <1>3, <1>5 DEF Open, ClaimableSet
<1>8. IsFront(S, Open \ Lost)
  <2>1. ASSUME NEW i \in S, NEW j \in S
        PROVE  /\ QueueOf(jobs[i]) = QueueOf(jobs[j])
               /\ jobs[i].attempt_count = jobs[j].attempt_count
    <3>1. R[i].thread = R[j].thread /\ R[i].kind = R[j].kind
          /\ R[i].attempt_count = R[j].attempt_count
      BY DEF ClaimableSet, SameCounts
    <3>2. QueueOf(R[i]) = QueueOf(R[j])
      BY <3>1 DEF QueueOf, IsExtraction
    <3>3. i \in DOMAIN jobs \ Lost /\ j \in DOMAIN jobs \ Lost
      BY <1>1, <1>7
    <3> QED
      BY <1>4, <1>6, <3>1, <3>2, <3>3
  <2>2. ASSUME NEW i \in S, NEW j \in Open \ Lost, SameQueue(jobs, i, j), j < i
        PROVE  j \in S
    <3>1. j \in DOMAIN jobs /\ i \in DOMAIN jobs /\ ~ IsFinished(R[j])
      BY <1>1, <1>6 DEF Open
    <3>2. SameQueue(R, i, j)
      BY <1>4, <2>2, <3>1 DEF SameQueue, SameJob, IsExtraction
    <3> QED
      BY <1>1, <2>2, <3>1, <3>2 DEF ClaimableSet
  <2>3. ASSUME NEW i \in S, ~ IsExtraction(jobs[i])
        PROVE  S = {i}
    <3>1. kind = "consolidation"
      BY <1>1, <1>2, <1>4, <2>3 DEF SameJob, IsExtraction
    <3> QED
      BY <3>1 DEF ClaimableSet
  <2> QED
    BY <1>7, <2>1, <2>2, <2>3 DEF IsFront
<1>9. ASSUME NEW i \in S
      PROVE  jobs[i].attempt_count < MaxAttempts /\ Entry(jobs'[i]) = Started(jobs[i])
  <2>1. /\ i \in DOMAIN jobs \ Lost /\ jobs'[i] = Leased(R[i], p) /\ R[i] \in JobType
        /\ R[i].attempt_count = jobs[i].attempt_count
    BY <1>1, <1>2, <1>6, <1>7
  <2>2. /\ jobs'[i].status = "leased" /\ jobs'[i].kind = R[i].kind
        /\ jobs'[i].thread = R[i].thread
        /\ jobs'[i].attempt_count = jobs[i].attempt_count + 1
    BY <2>1 DEF Leased, JobType
  <2>3. QueueOf(jobs'[i]) = QueueOf(jobs[i]) /\ ~ IsFinished(jobs'[i])
    BY <1>4, <2>1, <2>2 DEF QueueOf, IsExtraction, IsFinished, Finished
  <2> QED
    BY <1>2, <2>1, <2>2, <2>3, EntryOf DEF Started
<1>10. /\ Lost \in SUBSET Open /\ S \in SUBSET Open
       /\ \A i \in Lost : jobs[i].attempt_count > 0
  BY <1>7, LostJobs DEF IInv
<1>11. \A i \in DOMAIN jobs :
         Entry(jobs'[i]) = IF i \in Lost THEN Dropped(jobs[i])
                           ELSE IF i \in S THEN Started(jobs[i])
                           ELSE Entry(jobs[i])
  BY <1>1, <1>7, <1>9, LostJobs DEF IInv
<1> QED
  BY <1>1, <1>8, <1>9, <1>10, <1>11, AttemptStep DEF IInv

LEMMA ExtractionClaimIsAttempt ==
  ASSUME IInv, NEW p \in Processes, NEW allowed, NEW force, NEW next,
         ClaimExtraction(p, allowed, force, next), issued' = issued
  PROVE  Ledger!Next
<1>1. ASSUME NEW t \in Threads, Serves(Reclaimed, t, allowed, force),
             ClaimRows(p, Reclaimed, Batch(Reclaimed, t, allowed), "extraction", next)
      PROVE  Ledger!Next
  <2>1. ClaimableSet(Reclaimed, Batch(Reclaimed, t, allowed), "extraction")
    BY <1>1, BatchIsClaimable DEF Serves
  <2> QED
    BY <1>1, <2>1, ClaimIsAttempt
<1>2. CASE jobs' = Reclaimed
  BY <1>2, ReclaimIsAttempt
<1> QED
  BY <1>1, <1>2 DEF ClaimExtraction

LEMMA ConsolidationClaimIsAttempt ==
  ASSUME IInv, NEW p \in Processes, NEW allowed, ClaimConsolidation(p, allowed)
  PROVE  Ledger!Next
<1>1. issued' = issued
  BY DEF ClaimConsolidation
<1>2. ASSUME NEW i \in Consolidations(Reclaimed, allowed), Claimable(Reclaimed[i]),
             ClaimRows(p, Reclaimed, {i}, "consolidation", "idle")
      PROVE  Ledger!Next
  <2>1. ClaimableSet(Reclaimed, {i}, "consolidation")
    BY <1>2, ConsolidationIsClaimable DEF IInv
  <2> QED
    BY <1>1, <1>2, <2>1, ClaimIsAttempt
<1>3. CASE jobs' = Reclaimed
  BY <1>1, <1>3, ReclaimIsAttempt
<1> QED
  BY <1>2, <1>3 DEF ClaimConsolidation

(* Turns end, and the memory is cleared.                                   *)
LEMMA EndTurnIsArrival ==
  ASSUME IInv, NEW t \in Threads, NEW sequence \in 1..begun[t], EndTurn(t, sequence)
  PROVE  Ledger!Next
<1> DEFINE new == NewJob("extraction", t, sequence, 0)
<1>1. /\ issued' = issued + 1
      /\ jobs' = [i \in DOMAIN jobs \cup {issued'} |-> IF i = issued' THEN new ELSE jobs[i]]
  BY DEF EndTurn
<1>2. Entry(new) = Ledger!Job(t, 0, "open")
  BY DEF Entry, NewJob, IsExtraction, IsFinished, Finished, Ledger!Job
<1>3. [i \in DOMAIN jobs' |-> Entry(jobs'[i])] =
      [i \in DOMAIN jobs \cup {issued'} |->
         IF i = issued' THEN Ledger!Job(t, 0, "open") ELSE Entry(jobs[i])]
  <2> HIDE DEF new
  <2> QED
    BY <1>1, <1>2
<1>4. Ledger!Arrive(t)
  BY <1>1, <1>3 DEF Ledger!Arrive
<1> QED
  BY <1>4 DEF Ledger!Next, Threads

LEMMA ClearIsClear ==
  ASSUME Clear
  PROVE  Ledger!Next
<1>1. jobs' = [i \in {} |-> 0] /\ issued' = issued
  BY DEF Clear
<1>2. [i \in DOMAIN jobs' |-> Entry(jobs'[i])] = [i \in {} |-> 0]
  BY <1>1
<1>3. Ledger!Clear
  BY <1>1, <1>2 DEF Ledger!Clear
<1> QED
  BY <1>3 DEF Ledger!Next

(* Leases, calls and clocks are not in the ledger.                         *)
LEMMA SameJobsUnseen ==
  ASSUME jobs' = jobs, issued' = issued
  PROVE  UNCHANGED Ledger!vars
BY Unseen

LEMMA RenewedUnseen ==
  ASSUME IInv, NEW p \in Processes, Works(p), ValidLease(p), issued' = issued,
         Rewrites(p, Renewed)
  PROVE  UNCHANGED Ledger!vars
<1>1. /\ DOMAIN jobs' = DOMAIN jobs
      /\ \A i \in DOMAIN jobs \ pipeline[p].ids : jobs'[i] = jobs[i]
      /\ \A i \in pipeline[p].ids : GoesOn(jobs'[i], jobs[i], 0)
  BY RenewedBatch
<1>2. ASSUME NEW i \in pipeline[p].ids
      PROVE  Entry(jobs'[i]) = Entry(jobs[i])
  <2>1. jobs[i].status = "leased"
    BY HeldBatch
  <2> QED
    BY <1>1, <2>1 DEF GoesOn, SameJob, Entry, IsExtraction, IsFinished, Finished
<1> QED
  BY <1>1, <1>2, Unseen

LEMMA ReserveUnseen ==
  ASSUME IInv, NEW p \in Processes, Reserve(p)
  PROVE  UNCHANGED Ledger!vars
<1>1. /\ Works(p) /\ ValidLease(p) /\ issued' = issued /\ DOMAIN jobs' = DOMAIN jobs
      /\ jobs' = [i \in DOMAIN jobs |->
                    IF i \in pipeline[p].ids THEN Called(jobs[i]) ELSE jobs[i]]
  BY DEF Reserve, Rewrites, Works, Steps
<1>2. ASSUME NEW i \in pipeline[p].ids
      PROVE  Entry(jobs'[i]) = Entry(jobs[i])
  <2>1. i \in DOMAIN jobs /\ jobs[i] \in JobType
    BY <1>1, HeldBatch
  <2>2. /\ jobs'[i].status = jobs[i].status /\ jobs'[i].kind = jobs[i].kind
        /\ jobs'[i].thread = jobs[i].thread
        /\ jobs'[i].attempt_count = jobs[i].attempt_count
    BY <1>1, <2>1 DEF Called, JobType
  <2> QED
    BY <2>2 DEF Entry, IsExtraction, IsFinished
<1> QED
  BY <1>1, <1>2, Unseen

LEMMA TickUnseen ==
  ASSUME IInv, Tick
  PROVE  UNCHANGED Ledger!vars
<1>1. DOMAIN jobs' = DOMAIN jobs /\ issued' = issued
  BY DEF Tick
<1>2. ASSUME NEW i \in DOMAIN jobs
      PROVE  Entry(jobs'[i]) = Entry(jobs[i])
  <2>1. jobs[i] \in JobType /\ RowInv(jobs[i]) /\ jobs'[i] = Ticked(jobs[i])
    BY TypedRow DEF IInv, RowsInv, Tick
  <2>2. /\ jobs'[i].status = jobs[i].status /\ SameJob(jobs'[i], jobs[i])
        /\ jobs'[i].attempt_count = jobs[i].attempt_count
    BY <2>1, TickedRow
  <2> QED
    BY <2>2 DEF SameJob, Entry, IsExtraction, IsFinished
<1> QED
  BY <1>1, <1>2, Unseen

LEMMA ProgressImplements ==
  ASSUME Inv, NEW p \in Processes, Progress(p)
  PROVE  Ledger!Next \/ UNCHANGED Ledger!vars
<1>0. IInv /\ TurnsInv
  BY DEF Inv, HInv
<1>1. CASE WorkerClaims(p)
  BY <1>0, <1>1, ExtractionClaimIsAttempt, ConsolidationClaimIsAttempt DEF WorkerClaims
<1>2. ASSUME NEW allowed \in SUBSET DOMAIN jobs, FlushClaimsConsolidation(p, allowed)
      PROVE  Ledger!Next
  BY <1>0, <1>2, ConsolidationClaimIsAttempt DEF FlushClaimsConsolidation
<1>3. CASE Reserve(p)
  BY <1>0, <1>3, ReserveUnseen
<1>4. CASE AnswerMalformed(p)
  BY <1>4, SameJobsUnseen DEF AnswerMalformed
<1>5. CASE RenewForRepair(p)
  BY <1>0, <1>5, RenewedUnseen DEF RenewForRepair, Works, Steps
<1>6. ASSUME NEW spawns \in BOOLEAN, CompleteExtraction(p, spawns)
      PROVE  Ledger!Next
  BY <1>0, <1>6, ExtractionIsCommit
<1>7. ASSUME NEW created \in BOOLEAN, ApplyConsolidation(p, created)
      PROVE  Ledger!Next
  BY <1>0, <1>7, ConsolidationIsCommit
<1>8. CASE CapacitySkip(p)
  BY <1>0, <1>8, SkipIsDrop
<1>9. CASE FailJob(p)
  BY <1>0, <1>9, FailsIsDrop DEF FailJob, Rewrites
<1>10. ASSUME NEW error \in {"LLMTransientError", "other"}, ProviderFails(p, error)
       PROVE  Ledger!Next \/ UNCHANGED Ledger!vars
  BY <1>0, <1>10, FailureIsDrop DEF ProviderFails, Works, Steps
<1>11. CASE StoreIsBusy(p)
  BY <1>0, <1>11, FailureIsDrop DEF StoreIsBusy, Works, Steps
<1>12. CASE LateResult(p)
  BY <1>12, SameJobsUnseen DEF LateResult
<1> QED
  BY <1>1, <1>2, <1>3, <1>4, <1>5, <1>6, <1>7, <1>8, <1>9, <1>10, <1>11, <1>12 DEF Progress

LEMMA NextImplements ==
  ASSUME Inv, Next
  PROVE  Ledger!Next \/ UNCHANGED Ledger!vars
<1>0. IInv
  BY DEF Inv
<1>1. CASE BeginTurn \/ StartNewThread
  BY <1>1, SameJobsUnseen DEF BeginTurn, StartNewThread
<1>2. ASSUME NEW t \in Threads, NEW sequence \in 1..begun[t], EndTurn(t, sequence)
      PROVE  Ledger!Next
  BY <1>0, <1>2, EndTurnIsArrival
<1>3. CASE Clear
  BY <1>3, ClearIsClear
<1>4. CASE Recover
  BY <1>0, <1>4, ReclaimIsAttempt DEF Recover
<1>5. CASE Tick
  BY <1>0, <1>5, TickUnseen
<1>6. ASSUME NEW p \in Processes, Progress(p)
      PROVE  Ledger!Next \/ UNCHANGED Ledger!vars
  BY <1>6, ProgressImplements
<1>7. ASSUME NEW p \in Processes, NEW allowed \in SUBSET DOMAIN jobs, FlushClaims(p, allowed)
      PROVE  Ledger!Next
  BY <1>0, <1>7, ExtractionClaimIsAttempt DEF FlushClaims
<1>8. ASSUME NEW p \in Processes, Heartbeat(p)
      PROVE  UNCHANGED Ledger!vars
  BY <1>0, <1>8, RenewedUnseen DEF Heartbeat, Works, Steps
<1>9. ASSUME NEW p \in Processes, Abandon(p)
      PROVE  UNCHANGED Ledger!vars
  BY <1>9, SameJobsUnseen DEF Abandon
<1> QED
  BY <1>1, <1>2, <1>3, <1>4, <1>5, <1>6, <1>7, <1>8, <1>9 DEF Next

-----------------------------------------------------------------------------
(* The queue implements the ledger: a job is attempted at most             *)
(* MAX_JOB_ATTEMPTS times and ends once, a thread's extractions are        *)
(* attempted and committed from the front of its queue, and a committed    *)
(* extraction issues one consolidation job, whichever pipelines crash,     *)
(* stall or take over from each other.                                     *)
THEOREM QueueImplementsLedger == Spec => KeepsTheLedger
<1>1. Init => Ledger!Init
  <2>1. Init => [i \in DOMAIN jobs |-> Entry(jobs[i])] = [i \in {} |-> 0] /\ issued = 0
    BY DEF Init
  <2> QED
    BY <2>1 DEF Ledger!Init
<1>2. Inv /\ [Next]_vars => [Ledger!Next]_Ledger!vars
  <2> SUFFICES ASSUME Inv, [Next]_vars
               PROVE  Ledger!Next \/ UNCHANGED Ledger!vars
    OBVIOUS
  <2>1. CASE Next
    BY <2>1, NextImplements
  <2>2. CASE UNCHANGED vars
    BY <2>2, SameJobsUnseen DEF vars
  <2> QED
    BY <2>1, <2>2
<1> QED
  BY <1>1, <1>2, Invariance, PTL DEF Spec, KeepsTheLedger, Ledger!Spec
=============================================================================
