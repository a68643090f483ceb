----------------------------- MODULE MemoryWorker -----------------------------
(***************************************************************************)
(* The threads of one process that work on its memory: the main thread,    *)
(* which runs one command after another (cli/app.py, command_handlers.py), *)
(* the worker (core/memory/manager.py), and the threads with which /new    *)
(* flushes what the old conversation left.  They share three locks, two    *)
(* events and the summary file.  Ctrl-C runs the exit of the program in    *)
(* the main thread, on top of whatever it is doing and with what it holds. *)
(* No lock is reentrant.                                                   *)
(*                                                                         *)
(* What the job queue promises is the matter of MemoryJobs.  Here a row    *)
(* has only the status that tells who may take it: a young one waits for   *)
(* its threshold and can be forced, a waiting one for its retry.           *)
(***************************************************************************)
EXTENDS Integers, Sequences

CONSTANTS
  Flushers,           \* names for the threads that flush a watermark
  Free,               \* the holder of a lock that nobody has
  InterruptHolding,   \* the locks that main may hold when Ctrl-C arrives
  MaxJobs,            \* bound: rows of memory_jobs
  MaxFaults           \* bound: failures of database, disk and provider

Main == "main"
Worker == "worker"
Background == {Worker} \cup Flushers
Threads == {Main} \cup Background

ASSUME WorkerAssumption ==
  /\ {Main, Worker, Free} \cap Flushers = {}
  /\ Free \notin {Main, Worker}
  /\ InterruptHolding \subseteq {"summary", "state"}
  /\ {MaxJobs, MaxFaults} \subseteq Nat

VARIABLES
  pc,          \* of each thread, its step
  after,       \* of each thread, the step that follows a refresh of the summary
  work,        \* of each thread, the job it has and the ids of _flush_job_ids
  lock,        \* the holders of _process_lock, _summary_lock and _state_lock
  stop,        \* the event that ends them (the other, wake, only shortens a wait)
  leaving,     \* why the runtime is being closed: "no", "reset", "init", "exit",
               \* or "late", the exit that finds /reset or /init closing it
  turn,        \* is a durable turn open?
  jobs,        \* memory_jobs
  snapshot,    \* of each thread, whether what it read is still what is committed
  summary,     \* whether memory_summary.md shows what is committed
  dirty,       \* _summary_dirty, and whether _summary_retry_at has come
  faults       \* failures so far, a counter for the bound

threadVars == <<pc, after, work>>
managerVars == <<lock, stop>>
mainVars == <<leaving, turn>>
summaryVars == <<snapshot, summary, dirty>>
vars == <<threadVars, managerVars, mainVars, jobs, summaryVars, faults>>

Unfinished == {"young", "ready", "waiting", "leased"}

NoLocks == [process |-> Free, summary |-> Free, state |-> Free]

ExitBegun == leaving \in {"exit", "late"}

NoWork == [job |-> 0, allowed |-> {}, tried |-> {}, spawned |-> {}, expired |-> FALSE]

Init ==
  /\ pc = [t \in Threads |-> IF t = Main THEN "start" ELSE "off"]
  /\ after = [t \in Threads |-> "off"]
  /\ work = [t \in Threads |-> NoWork]
  /\ lock = NoLocks
  /\ stop = FALSE /\ leaving = "no" /\ turn = FALSE
  /\ jobs = << >>
  /\ snapshot = [t \in Threads |-> FALSE] /\ summary = FALSE /\ dirty = "due"
  /\ faults = 0

Goto(t, step) == pc' = [pc EXCEPT ![t] = step]
Fault == faults < MaxFaults /\ faults' = faults + 1

-----------------------------------------------------------------------------
(* The summary.  A commit marks it dirty, then refreshes it.  A refresh    *)
(* holds the lock from the snapshot to the end of the write; one that      *)
(* fails is tried again by the worker.                                     *)

MarkDirty(t) ==
  /\ pc[t] = "mark" /\ lock.summary = Free
  /\ dirty' = "due"
  /\ Goto(t, "refresh")
  /\ UNCHANGED <<after, work, lock, stop, mainVars, jobs, snapshot, summary, faults>>

(* MemoryStore.summary_snapshot: what is committed as it is read.          *)
Snapshot(t) == snapshot' = [snapshot EXCEPT ![t] = TRUE]

(* MemorySummaryProjector.refresh: the file shows what was read.           *)
Projected(t) == summary' = snapshot[t]

(* Fault: the lock is taken only for the write. *)
ReadBeforeLock(t) ==
  /\ pc[t] = "refresh"
  /\ Snapshot(t)
  /\ Goto(t, "project")
  /\ UNCHANGED <<after, work, managerVars, mainVars, jobs, summary, dirty, faults>>

RefreshSummary(t) ==
  /\ pc[t] = "refresh" /\ lock.summary = Free
  /\ lock' = [lock EXCEPT !.summary = t]
  /\ Snapshot(t)
  /\ Goto(t, "project")
  /\ UNCHANGED <<after, work, stop, mainVars, jobs, summary, dirty, faults>>

(* Fault: a refresh that failed leaves nothing to be tried again. *)
ProjectOnce(t) ==
  /\ pc[t] = "project"
  /\ \/ Projected(t) /\ UNCHANGED faults
     \/ Fault /\ UNCHANGED summary
  /\ dirty' = "no"
  /\ lock' = [lock EXCEPT !.summary = Free]
  /\ snapshot' = [snapshot EXCEPT ![t] = FALSE]
  /\ Goto(t, after[t])
  /\ after' = [after EXCEPT ![t] = "off"]
  /\ UNCHANGED <<work, stop, mainVars, jobs>>

Project(t) ==
  /\ pc[t] = "project"
  /\ \/ Projected(t) /\ dirty' = "no" /\ UNCHANGED faults
     \/ Fault /\ dirty' = "later" /\ UNCHANGED summary
  /\ lock' = [lock EXCEPT !.summary = Free]
  /\ snapshot' = [snapshot EXCEPT ![t] = FALSE]
  /\ Goto(t, after[t])
  /\ after' = [after EXCEPT ![t] = "off"]
  /\ UNCHANGED <<work, stop, mainVars, jobs>>

Commit ==
  /\ summary' = FALSE
  /\ snapshot' = [t \in Threads |-> FALSE]

MarkThen(t, next) ==
  /\ Goto(t, "mark")
  /\ after' = [after EXCEPT ![t] = next]

-----------------------------------------------------------------------------
(* One job through the pipeline, which worker and flush run alike, each    *)
(* while it has the process lock.                                          *)

(* A finished row, or a deleted one.  Ids are not used again.              *)
Done == [status |-> "done", source |-> 0, old |-> TRUE]

NewJob(source) ==
  [status |-> IF source = 0 THEN "young" ELSE "ready", source |-> source,
   old |-> source # 0 /\ jobs[source].old]

(* After the flush of an exit the runtime is closed, if it is open yet.    *)
AfterFlush == IF leaving = "late" THEN "unwind" ELSE "close"

(* The process lock is given back, and a flush is over.                    *)
Leave(t) ==
  /\ lock' = [lock EXCEPT !.process = Free]
  /\ work' = [work EXCEPT ![t] = [NoWork EXCEPT !.expired = work[t].expired]]
  /\ Goto(t, CASE t = Worker -> "wait" [] t = Main -> AfterFlush [] OTHER -> "finish")

Lease(t, j) ==
  /\ UNCHANGED lock
  /\ jobs' = [jobs EXCEPT ![j].status = "leased"]
  /\ work' = [work EXCEPT ![t].job = j]
  /\ Goto(t, "call")

(* What _flush_job_ids notes of a finished step; the worker notes nothing. *)
Noted(t, children) ==
  IF t = Worker THEN [work EXCEPT ![t].job = 0]
  ELSE [work EXCEPT ![t] = [@ EXCEPT !.job = 0, !.tried = @ \cup {work[t].job},
                              !.allowed = @ \cup children, !.spawned = @ \cup children]]

(* The answer is committed, and with it the consolidation job for what it  *)
(* found.  A flush that is told to stop leaves the summary alone.          *)
Succeed(t) ==
  LET j == work[t].job
      found == IF jobs[j].source = 0 /\ Len(jobs) < MaxJobs THEN {TRUE, FALSE} ELSE {FALSE}
  IN
  /\ pc[t] = "call" /\ jobs[j].status = "leased"
  /\ \E more \in found :
       /\ jobs' = LET done == [jobs EXCEPT ![j] = Done]
                  IN IF more THEN Append(done, NewJob(j)) ELSE done
       /\ work' = Noted(t, IF more THEN {Len(jobs) + 1} ELSE {})
  /\ IF stop /\ t # Worker
     THEN Goto(t, "round") /\ UNCHANGED after
     ELSE MarkThen(t, "round")
  /\ Commit
  /\ UNCHANGED <<managerVars, mainVars, dirty, faults>>

(* The provider failed, for now or for good, or the row was deleted.       *)
Fail(t) ==
  LET j == work[t].job IN
  /\ pc[t] = "call"
  /\ \/ /\ jobs[j].status = "leased" /\ Fault
        /\ \/ jobs' = [jobs EXCEPT ![j].status = "waiting"]
           \/ jobs' = [jobs EXCEPT ![j] = Done]
     \/ jobs[j] = Done /\ UNCHANGED <<jobs, faults>>
  /\ work' = Noted(t, {})
  /\ Goto(t, "round")
  /\ UNCHANGED <<after, managerVars, mainVars, summaryVars>>

(* process_one raised: the job stays leased until its lease expires.  A    *)
(* database that the worker cannot trust makes the summary stale.          *)
GiveUp(t) ==
  /\ pc[t] = "call"
  /\ Fault
  /\ \/ UNCHANGED dirty
     \/ t = Worker /\ lock.summary = Free /\ dirty' = "due"
  /\ Leave(t)
  /\ UNCHANGED <<after, stop, mainVars, jobs, snapshot, summary>>

Call(t) == Succeed(t) \/ Fail(t) \/ GiveUp(t)

-----------------------------------------------------------------------------
(* The worker.                                                             *)

WorkerWakes ==
  /\ pc[Worker] = "wait"
  /\ Goto(Worker, IF stop THEN "off" ELSE "beat")
  /\ UNCHANGED <<after, work, lock, stop, mainVars, jobs, summaryVars, faults>>

(* Leases are renewed and recovered.  A database that cannot be trusted    *)
(* makes the summary stale; a locked one is tried at the next poll.        *)
WorkerBeats ==
  /\ pc[Worker] = "beat"
  /\ \/ Goto(Worker, "due") /\ UNCHANGED <<dirty, faults>>
     \/ Fault /\ Goto(Worker, "wait") /\ UNCHANGED dirty
     \/ Fault /\ lock.summary = Free /\ dirty' = "due" /\ Goto(Worker, "wait")
  /\ UNCHANGED <<after, work, managerVars, mainVars, jobs, snapshot, summary>>

RetrySummaryIfDue ==
  /\ pc[Worker] = "due" /\ lock.summary = Free
  /\ IF dirty = "due" THEN Goto(Worker, "refresh") /\ after' = [after EXCEPT ![Worker] = "drain"]
                      ELSE Goto(Worker, "drain") /\ UNCHANGED after
  /\ UNCHANGED <<work, managerVars, mainVars, jobs, summaryVars, faults>>

TakeProcessLock(t) ==
  /\ pc[t] = "drain" /\ lock.process = Free
  /\ lock' = [lock EXCEPT !.process = t]
  /\ Goto(t, "round")
  /\ UNCHANGED <<after, work, stop, mainVars, jobs, summaryVars, faults>>

WorkerRound ==
  /\ pc[Worker] = "round"
  /\ LET ready == {j \in DOMAIN jobs : jobs[j].status = "ready"} IN
       IF stop \/ ready = {} THEN Leave(Worker) /\ UNCHANGED jobs
                             ELSE \E j \in ready : Lease(Worker, j)
  /\ UNCHANGED <<after, stop, mainVars, summaryVars, faults>>

-----------------------------------------------------------------------------
(* A flush works on the jobs that were unfinished when it was asked for,   *)
(* and on the consolidation jobs that come of them, each once.  It waits   *)
(* for one it cannot claim only when it has a deadline.                    *)

UnfinishedOf(ids) ==
  {j \in DOMAIN jobs : jobs[j].status \in Unfinished /\ (j \in ids \/ jobs[j].source \in ids)}

FlushOf(ids) == [NoWork EXCEPT !.allowed = ids]

(* Fault: what came of a job in the flush is left for later. *)
RemainingOfCapture(t) == {j \in UnfinishedOf(work[t].allowed) : jobs[j].source = 0} \ work[t].tried

Remaining(t) == (UnfinishedOf(work[t].allowed) \cup work[t].spawned) \ work[t].tried

FlushRound(t) ==
  LET claimable == {j \in Remaining(t) : jobs[j].status \in {"young", "ready"}}
      ends == stop \/ Remaining(t) = {}
              \/ (claimable = {} /\ (t = Main \/ work[t].expired))
  IN
  /\ pc[t] = "round"
  /\ \/ ends /\ Leave(t) /\ UNCHANGED jobs
     \/ ~ends /\ \E j \in claimable : Lease(t, j)
  /\ UNCHANGED <<after, stop, mainVars, summaryVars, faults>>

(* The flush thread takes itself off the list, then tells that it is done. *)
FlusherEnds(f) ==
  /\ pc[f] = "finish" /\ lock.state = Free
  /\ work' = [work EXCEPT ![f] = NoWork]
  /\ Goto(f, "off")
  /\ UNCHANGED <<after, managerVars, mainVars, jobs, summaryVars, faults>>

-----------------------------------------------------------------------------
(* Commands of the main thread.                                            *)

(* start: the summary is written anew, then the worker runs.  Nobody else  *)
(* has the manager yet, or any of its locks.                               *)
Start ==
  /\ pc[Main] = "start" /\ lock.summary = Free
  /\ stop' = FALSE /\ dirty' = "due" /\ leaving' = "no"
  /\ after' = [after EXCEPT ![Main] = "spawn"]
  /\ Goto(Main, "refresh")
  /\ UNCHANGED <<work, lock, turn, jobs, snapshot, summary, faults>>

StartWorker ==
  /\ pc[Main] = "spawn"
  /\ pc' = [pc EXCEPT ![Main] = "prompt", ![Worker] = "wait"]
  /\ UNCHANGED <<after, work, managerVars, mainVars, jobs, summaryVars, faults>>

BeginTurn ==
  /\ Len(jobs) < MaxJobs
  /\ pc[Main] = "prompt"
  /\ Goto(Main, "run")
  /\ turn' = TRUE
  /\ UNCHANGED <<after, work, managerVars, leaving, jobs, summaryVars, faults>>

(* Completed or failed, the turn has its job.                              *)
FinishTurn ==
  /\ turn' = FALSE
  /\ jobs' = Append(jobs, NewJob(0))

EndTurn ==
  /\ pc[Main] = "run"
  /\ IF turn THEN FinishTurn ELSE UNCHANGED <<turn, jobs>>
  /\ Goto(Main, "prompt")
  /\ UNCHANGED <<after, work, lock, stop, leaving, summaryVars, faults>>

(* A tool fails in the database, or the turn cannot be begun or ended (its *)
(* row is the matter of MemoryTurns): main looks up, under the state lock, *)
(* whether the user was told, and the request goes on.                     *)
Degraded ==
  /\ pc[Main] = "run" /\ Fault /\ lock.state = Free
  /\ lock' = [lock EXCEPT !.state = Main]
  /\ turn' \in {turn, FALSE}
  /\ Goto(Main, "notice")
  /\ UNCHANGED <<after, work, stop, leaving, jobs, summaryVars>>

Noticed ==
  /\ pc[Main] = "notice"
  /\ lock' = [lock EXCEPT !.state = Free]
  /\ Goto(Main, "run")
  /\ UNCHANGED <<after, work, stop, mainVars, jobs, summaryVars, faults>>

(* /memory forget and clear; the rows of jobs under way are deleted, too.  *)
Forget ==
  /\ pc[Main] = "prompt"
  /\ Commit
  /\ MarkThen(Main, "prompt")
  /\ UNCHANGED <<work, managerVars, mainVars, jobs, dirty, faults>>

(* /memory status has a file written anew that is not what it should be.   *)
SummaryStatus ==
  /\ pc[Main] = "prompt" /\ lock.summary = Free
  /\ dirty' \in {dirty, "due"}
  /\ UNCHANGED <<threadVars, managerVars, mainVars, jobs, snapshot, summary, faults>>

RebuildSummary ==
  /\ pc[Main] = "prompt"
  /\ MarkThen(Main, "prompt")
  /\ UNCHANGED <<work, managerVars, mainVars, jobs, summaryVars, faults>>

Clear ==
  /\ pc[Main] = "prompt"
  /\ Commit
  /\ jobs' = [j \in DOMAIN jobs |-> Done]
  /\ MarkThen(Main, "prompt")
  /\ UNCHANGED <<work, managerVars, mainVars, dirty, faults>>

(* /new has its flush thread listed and started under the state lock (the  *)
(* manager is never stopped there), waits for it until the deadline, and   *)
(* archives the thread.                                                    *)
New ==
  LET ids == {j \in DOMAIN jobs : jobs[j].status \in Unfinished /\ ~jobs[j].old} IN
  /\ pc[Main] = "prompt"
  /\ IF ids = {} THEN Goto(Main, "archive") /\ UNCHANGED <<work, lock>>
     ELSE /\ lock.state = Free /\ (\E f \in Flushers : pc[f] = "off")
          /\ lock' = [lock EXCEPT !.state = Main]
          /\ work' = [work EXCEPT ![Main] = FlushOf(ids)]
          /\ Goto(Main, "register")
  /\ UNCHANGED <<after, stop, leaving, turn, jobs, summaryVars, faults>>

StartFlush(f) ==
  /\ pc[Main] = "register" /\ pc[f] = "off"
  /\ pc' = [pc EXCEPT ![Main] = "started", ![f] = "drain"]
  /\ work' = [work EXCEPT ![f] = work[Main], ![Main] = NoWork]
  /\ UNCHANGED <<after, managerVars, mainVars, jobs, summaryVars, faults>>

(* The thread runs, or could not be started and /new does without.         *)
Registered ==
  /\ \/ pc[Main] = "started" /\ Goto(Main, "await") /\ UNCHANGED faults
     \/ pc[Main] = "register" /\ Fault /\ Goto(Main, "archive")
  /\ lock' = [lock EXCEPT !.state = Free]
  /\ work' = [work EXCEPT ![Main] = NoWork]
  /\ UNCHANGED <<after, stop, mainVars, jobs, summaryVars>>

(* The flush that /new waits for is the one without a missed deadline.     *)
FlushEnds ==
  /\ pc[Main] = "await"
  /\ \A f \in Flushers : pc[f] = "off" \/ work[f].expired
  /\ Goto(Main, "archive")
  /\ UNCHANGED <<after, work, managerVars, mainVars, jobs, summaryVars, faults>>

Expire(f) ==
  /\ pc[f] # "off" /\ ~work[f].expired
  /\ work' = [work EXCEPT ![f].expired = TRUE]
  /\ UNCHANGED <<pc, after, managerVars, mainVars, jobs, summaryVars, faults>>

StartNewThread ==
  /\ pc[Main] = "archive"
  /\ jobs' = [j \in DOMAIN jobs |-> [jobs[j] EXCEPT !.old = TRUE]]
  /\ Commit
  /\ MarkThen(Main, "prompt")
  /\ UNCHANGED <<work, managerVars, mainVars, dirty, faults>>

(* /reset and /init close the runtime.                                     *)
CloseFor(why) ==
  /\ pc[Main] = "prompt"
  /\ Goto(Main, "close")
  /\ leaving' = why
  /\ UNCHANGED <<after, work, managerVars, turn, jobs, summaryVars, faults>>

(* /init after /reset has nothing to close.                                *)
InitAgain ==
  /\ pc[Main] = "detached"
  /\ Goto(Main, "start")
  /\ UNCHANGED <<after, work, managerVars, leaving, turn, jobs, summaryVars, faults>>

(* Fault: the lock is kept while the threads are joined. *)
CloseHoldingLock ==
  /\ pc[Main] = "close" /\ lock.state = Free
  /\ lock' = [lock EXCEPT !.state = Main]
  /\ stop' = TRUE
  /\ Goto(Main, "join")
  /\ UNCHANGED <<after, work, mainVars, jobs, summaryVars, faults>>

(* close tells the threads to stop, under the state lock, and joins those  *)
(* it found without it.  Then none is left that could have the lock.       *)
Close ==
  /\ pc[Main] = "close" /\ lock.state = Free
  /\ stop' = TRUE
  /\ Goto(Main, "join")
  /\ UNCHANGED <<after, work, lock, mainVars, jobs, summaryVars, faults>>

Closed ==
  CASE leaving = "reset" -> "detached" [] leaving = "init" -> "start" [] OTHER -> "unwind"

Join ==
  /\ pc[Main] = "join"
  /\ \A t \in Background : pc[t] = "off"
  /\ Goto(Main, Closed)
  /\ UNCHANGED <<after, work, managerVars, mainVars, jobs, summaryVars, faults>>

-----------------------------------------------------------------------------
(* The exit flushes every unfinished job once and closes.  /quit asks for  *)
(* it at the prompt; Ctrl-C in any step of main that is not the exit, and  *)
(* main keeps what it holds.  The SystemExit at its end then unwinds the   *)
(* step, and with it an open turn.                                         *)

BeginExit(why) ==
  /\ leaving' = why
  /\ work' = [work EXCEPT ![Main] = FlushOf({j \in DOMAIN jobs : jobs[j].status \in Unfinished})]
  /\ Goto(Main, "drain")
  /\ after' = [after EXCEPT ![Main] = "off"]
  /\ UNCHANGED <<stop, turn, jobs, summaryVars, faults>>

Quit == pc[Main] = "prompt" /\ BeginExit("exit") /\ UNCHANGED lock

(* Marking the summary and /memory status take the summary lock and give   *)
(* it back in one step, in the middle of which Ctrl-C may arrive.          *)
Interrupt ==
  /\ leaving = "no" /\ pc[Worker] # "off"
  /\ pc[Main] \in {"prompt", "run", "notice", "register", "started", "await", "archive",
                   "mark", "refresh", "project"}
  /\ \A l \in DOMAIN lock : lock[l] = Main => l \in InterruptHolding
  /\ \/ UNCHANGED lock
     \/ /\ pc[Main] \in {"prompt", "mark"} /\ lock.summary = Free /\ "summary" \in InterruptHolding
        /\ lock' = [lock EXCEPT !.summary = Main]
  /\ BeginExit("exit")

(* In the close of /reset or /init: the runtime counts as closed already,  *)
(* so this exit waits for no thread and for no state lock.                 *)
InterruptClose ==
  /\ leaving \in {"reset", "init"} /\ pc[Main] \in {"close", "join"}
  /\ BeginExit("late") /\ UNCHANGED lock

(* A second Ctrl-C leaves the flush for close, and close for the end.      *)
InterruptExit ==
  /\ ExitBegun
  /\ \/ /\ pc[Main] \in {"drain", "call", "mark", "refresh", "project"}
        /\ lock' = [lock EXCEPT !.process = IF @ = Main THEN Free ELSE @,
                                !.summary = IF pc[Main] = "project" THEN Free ELSE @]
        /\ Goto(Main, AfterFlush)
        /\ work' = [work EXCEPT ![Main] = NoWork]
     \/ pc[Main] \in {"close", "join"} /\ Goto(Main, "unwind") /\ UNCHANGED <<lock, work>>
  /\ after' = [after EXCEPT ![Main] = "off"]
  /\ UNCHANGED <<stop, mainVars, jobs, summaryVars, faults>>

(* Without a runtime there is nothing to flush.                            *)
ExitDetached ==
  /\ \/ pc[Main] \in {"start", "spawn", "detached"}
     \/ pc[Main] \in {"refresh", "project"} /\ after[Main] = "spawn"
  /\ leaving' = "exit"
  /\ Goto(Main, "unwind")
  /\ UNCHANGED <<after, work, managerVars, turn, jobs, summaryVars, faults>>

Unwind ==
  /\ pc[Main] = "unwind"
  /\ IF turn THEN FinishTurn ELSE UNCHANGED <<turn, jobs>>
  /\ pc' = [t \in Threads |-> IF t = Main THEN "exited" ELSE "off"]
  /\ after' = [t \in Threads |-> "off"]
  /\ work' = [t \in Threads |-> NoWork]
  /\ lock' = NoLocks
  /\ snapshot' = [t \in Threads |-> FALSE]
  /\ UNCHANGED <<stop, leaving, summary, dirty, faults>>

(* The next process starts on what is in the database.                    *)
Restart ==
  /\ pc[Main] = "exited"
  /\ Goto(Main, "start")
  /\ leaving' = "no" /\ stop' = FALSE /\ dirty' = "due"
  /\ UNCHANGED <<after, work, lock, turn, jobs, snapshot, summary, faults>>

-----------------------------------------------------------------------------
(* Time makes a row claimable: a young one, a retry, a lease nobody keeps. *)

Ripen(j) ==
  /\ \/ jobs[j].status \in {"young", "waiting"}
     \/ jobs[j].status = "leased" /\ \A t \in Threads : work[t].job # j
  /\ jobs' = [jobs EXCEPT ![j].status = "ready"]
  /\ UNCHANGED <<threadVars, managerVars, mainVars, summaryVars, faults>>

RetryComes ==
  /\ dirty = "later"
  /\ dirty' = "due"
  /\ UNCHANGED <<threadVars, managerVars, mainVars, jobs, snapshot, summary, faults>>

Tick == (\E j \in DOMAIN jobs : Ripen(j)) \/ RetryComes

Refresh(t) == MarkDirty(t) \/ RefreshSummary(t) \/ Project(t)

WorkerStep ==
  WorkerWakes \/ WorkerBeats \/ RetrySummaryIfDue \/ TakeProcessLock(Worker) \/ WorkerRound
  \/ Call(Worker) \/ Refresh(Worker)

FlushStep(t) ==
  TakeProcessLock(t) \/ FlushRound(t) \/ Call(t) \/ Refresh(t)

FlusherStep(f) == FlushStep(f) \/ FlusherEnds(f)

(* The steps of main that follow a command, whoever gave it.               *)
MainStep ==
  Start \/ StartWorker \/ EndTurn \/ Noticed \/ (\E f \in Flushers : StartFlush(f)) \/ Registered
  \/ FlushEnds \/ StartNewThread \/ Close \/ Join \/ Unwind \/ FlushStep(Main)

Commands ==
  BeginTurn \/ Forget \/ SummaryStatus \/ RebuildSummary \/ Clear \/ New \/ CloseFor("reset") \/ CloseFor("init")
  \/ InitAgain \/ Quit \/ Restart

Next ==
  MainStep \/ WorkerStep \/ (\E f \in Flushers : FlusherStep(f) \/ Expire(f))
  \/ Commands \/ Degraded \/ Interrupt \/ InterruptClose \/ InterruptExit \/ ExitDetached \/ Tick

(* A thread that waits for a lock gets it in the end: its holders release  *)
(* it after every batch and every write, and the worker then sleeps.       *)
Spec ==
  /\ Init /\ [][Next]_vars
  /\ SF_vars(MainStep) /\ SF_vars(WorkerStep) /\ WF_vars(Tick)
  /\ \A f \in Flushers : SF_vars(FlusherStep(f)) /\ WF_vars(Expire(f))

-----------------------------------------------------------------------------
(* Whatever thread committed last, a summary that does not show it is      *)
(* known to be behind, unless the commit is on its way to say so or the    *)
(* program ends: no refresh that read an older state calls it current.     *)
StaleSummaryIsMarked ==
  summary \/ dirty # "no" \/ stop \/ ExitBegun
  \/ \E t \in Threads : pc[t] = "mark"

(* The flush at the exit tries every job that was unfinished when it began *)
(* and every one that came of it, but for those it could not claim, and it *)
(* tries none of them twice; unless /reset or /init has stopped the memory *)
(* already.                                                                *)
ExitTriesWhatWasPending ==
  [][/\ pc[Main] = "round" /\ pc'[Main] \in {"close", "unwind"} /\ ~stop =>
          \A j \in DOMAIN jobs :
            j \in work[Main].tried \/ jobs[j].status \notin {"young", "ready"}
            \/ ~(j \in work[Main].allowed \/ jobs[j].source \in work[Main].allowed)
     /\ pc[Main] = "round" /\ pc'[Main] = "call" => work'[Main].job \notin work[Main].tried]_vars

(* Every command comes back to the prompt, and every exit to its end: /new *)
(* though the worker has the lock, /reset and /init though threads run and *)
(* take the state lock to end, and the exit wherever Ctrl-C arrives while  *)
(* main has none of the locks (with one it need not: ExitEnds).            *)
MainReturns ==
  (pc[Main] \notin {"prompt", "detached", "exited"})
    ~> (pc[Main] \in {"prompt", "detached", "exited"})

(* A summary that is behind catches up, or its manager is closed.          *)
SummaryCatchesUp == ~summary ~> (summary \/ stop \/ pc[Main] = "exited")

(* "CLI then goes on with the exit": once it has begun, it ends.           *)
ExitEnds == ExitBegun ~> (pc[Main] = "exited")
=============================================================================
