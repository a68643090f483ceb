-------------------------- MODULE MemoryWorkerProofs --------------------------
(***************************************************************************)
(* A summary that is behind is known to be, for any number of flushes,     *)
(* jobs and failures, and wherever Ctrl-C arrives.                         *)
(*                                                                         *)
(* A refresh that read before the last commit and has yet to write could   *)
(* call the file current.  What keeps it from that is that it holds the    *)
(* summary lock, so that the commit still waits to mark the summary dirty  *)
(* (Behind); and that no thread is left over from a runtime that has been  *)
(* closed when the next one starts (Quiet).                                *)
(***************************************************************************)
EXTENDS MemoryWorker, TLAPS

-----------------------------------------------------------------------------
(* The inductive invariant.                                                *)

Steps ==
  {"start", "spawn", "prompt", "run", "await", "archive", "detached", "close", "join",
   "unwind", "exited", "off", "wait", "beat", "due", "drain", "round", "call",
   "mark", "refresh", "project", "notice", "register", "started", "finish"}

Locks == [process : Threads \cup {Free}, summary : Threads \cup {Free}, state : Threads \cup {Free}]

Types ==
  /\ pc \in [Threads -> Steps]
  /\ after \in [Threads -> {"off", "prompt", "spawn", "round", "drain"}]
  /\ lock \in Locks
  /\ stop \in BOOLEAN
  /\ leaving \in {"no", "reset", "init", "exit", "late"}
  /\ snapshot \in [Threads -> BOOLEAN] /\ summary \in BOOLEAN
  /\ dirty \in {"no", "later", "due"}

(* Every thread has a record of its work, in which its job can be replaced. *)
Records ==
  DOMAIN work = Threads /\ \A t \in Threads : "job" \in DOMAIN work[t]

(* Where each thread goes on after a refresh.                              *)
Returns ==
  /\ \A t \in Background : after[t] \in {"off", "round", "drain"}
  /\ after[Main] # "drain"
  /\ after[Main] = "round" => ExitBegun
  /\ after[Main] = "spawn" => pc[Main] \in {"refresh", "project", "unwind"}
  /\ pc[Main] = "exited" => after[Main] = "off"

(* While there is no open runtime, no other thread runs.                   *)
Quiet ==
  pc[Main] \in {"start", "spawn", "detached", "exited"} \/ after[Main] = "spawn" =>
    \A t \in Background : pc[t] = "off"

(* The steps of the exit, which main never leaves for the prompt.          *)
Exiting ==
  /\ pc[Main] \in {"drain", "round", "call", "unwind", "exited"} => ExitBegun
  /\ pc[Main] \in {"close", "join"} => leaving \in {"reset", "init", "exit"}
  /\ stop => pc[Main] \in {"join", "detached", "start", "unwind", "exited"} \/ leaving = "late"
  /\ ExitBegun =>
       \/ pc[Main] \in {"drain", "round", "call", "close", "join", "unwind", "exited"}
       \/ pc[Main] \in {"mark", "refresh", "project"} /\ after[Main] = "round"

HasSummaryLock == \A t \in Threads : pc[t] = "project" => lock.summary = t

Marked == stop \/ ExitBegun \/ \E t \in Threads : pc[t] = "mark"

(* What is about to be written is what is committed, or to be marked.      *)
Behind == \A t \in Threads : pc[t] = "project" /\ ~snapshot[t] => Marked

IInv ==
  Types /\ Returns /\ Quiet /\ Exiting /\ HasSummaryLock /\ Behind /\ StaleSummaryIsMarked

-----------------------------------------------------------------------------
(* Every step keeps the invariant.                                         *)

LEMMA StepInv == IInv /\ [Next]_vars => IInv'
<1> SUFFICES ASSUME IInv, [Next]_vars PROVE IInv'
  OBVIOUS
<1> USE WorkerAssumption DEF Threads, Background, Main, Worker, Steps, Goto, Fault, Marked, IInv,
        Locks, ExitBegun,
        Types, Returns, Quiet, Exiting, HasSummaryLock, Behind, StaleSummaryIsMarked,
        threadVars, managerVars, mainVars, summaryVars
<1>1. ASSUME NEW t \in Threads, MarkDirty(t) PROVE IInv'
  BY <1>1 DEF MarkDirty
<1>2. ASSUME NEW t \in Threads, RefreshSummary(t) PROVE IInv'
  BY <1>2 DEF RefreshSummary, Snapshot
<1>3. ASSUME NEW t \in Threads, Project(t) PROVE IInv'
  BY <1>3 DEF Project, Projected
<1>4. ASSUME NEW t \in Threads, Succeed(t) PROVE IInv'
  <2>1. /\ pc[t] = "call"
        /\ \/ pc' = [pc EXCEPT ![t] = "round"] /\ after' = after /\ stop
           \/ pc' = [pc EXCEPT ![t] = "mark"] /\ after' = [after EXCEPT ![t] = "round"]
        /\ summary' = FALSE /\ snapshot' = [u \in Threads |-> FALSE]
        /\ UNCHANGED <<lock, stop, leaving, dirty>>
    BY <1>4 DEF Succeed, Commit, MarkThen
  <2>2. Types'
    <3>1. pc' \in [Threads -> Steps]
      BY <2>1
    <3>2. after' \in [Threads -> {"off", "prompt", "spawn", "round", "drain"}]
      BY <2>1
    <3>3. snapshot' \in [Threads -> BOOLEAN] /\ lock' \in Locks
      BY <2>1
    <3> QED
      BY <2>1, <3>1, <3>2, <3>3
  <2>3. Returns' /\ Exiting'
    BY <2>1
  <2>4. Quiet' /\ HasSummaryLock'
    BY <2>1
  <2>5. Behind' /\ StaleSummaryIsMarked'
    BY <2>1
  <2> QED
    BY <2>2, <2>3, <2>4, <2>5
<1>5. ASSUME NEW t \in Threads, Fail(t) PROVE IInv'
  BY <1>5 DEF Fail
<1>6. ASSUME NEW t \in Threads, GiveUp(t) PROVE IInv'
  BY <1>6 DEF GiveUp, Leave, AfterFlush
<1>7. CASE WorkerWakes
  BY <1>7 DEF WorkerWakes
<1>8. CASE WorkerBeats
  <2>1. /\ pc[Worker] = "beat"
        /\ \E step \in {"due", "wait"} : pc' = [pc EXCEPT ![Worker] = step]
        /\ dirty' \in {dirty, "due"}
        /\ UNCHANGED <<after, lock, stop, leaving, snapshot, summary>>
    BY <1>8 DEF WorkerBeats
  <2>2. Types'
    BY <2>1
  <2>3. Returns' /\ Exiting'
    BY <2>1
  <2>4. Quiet' /\ HasSummaryLock'
    BY <2>1
  <2>5. Behind' /\ StaleSummaryIsMarked'
    BY <2>1
  <2> QED
    BY <2>2, <2>3, <2>4, <2>5
<1>9. CASE RetrySummaryIfDue
  <2>1. /\ pc[Worker] = "due"
        /\ \E step \in {"refresh", "drain"} : pc' = [pc EXCEPT ![Worker] = step]
        /\ after' \in {after, [after EXCEPT ![Worker] = "drain"]}
        /\ UNCHANGED <<lock, stop, leaving, snapshot, summary, dirty>>
    BY <1>9 DEF RetrySummaryIfDue
  <2>2. Types'
    <3>1. pc' \in [Threads -> Steps]
      BY <2>1
    <3>2. after' \in [Threads -> {"off", "prompt", "spawn", "round", "drain"}]
      BY <2>1
    <3> QED
      BY <2>1, <3>1, <3>2
  <2>3. Returns' /\ Exiting'
    BY <2>1
  <2>4. Quiet' /\ HasSummaryLock'
    BY <2>1
  <2>5. Behind' /\ StaleSummaryIsMarked'
    BY <2>1
  <2> QED
    BY <2>2, <2>3, <2>4, <2>5
<1>10. ASSUME NEW t \in Threads, TakeProcessLock(t) PROVE IInv'
  BY <1>10 DEF TakeProcessLock
<1>11. CASE WorkerRound
  BY <1>11 DEF WorkerRound, Leave, Lease
<1>12. ASSUME NEW t \in Threads \ {Worker}, FlushRound(t) PROVE IInv'
  BY <1>12 DEF FlushRound, Leave, AfterFlush, Lease
<1>13. CASE Start
  BY <1>13 DEF Start
<1>14. CASE StartWorker
  <2>1. Types'
    <3>1. pc' \in [Threads -> Steps]
      BY <1>14 DEF StartWorker
    <3>2. after' \in [Threads -> {"off", "prompt", "spawn", "round", "drain"}]
      BY <1>14 DEF StartWorker
    <3> QED
      BY <1>14, <3>1, <3>2 DEF StartWorker
  <2>2. Returns' /\ Exiting'
    BY <1>14 DEF StartWorker
  <2>3. Quiet' /\ HasSummaryLock'
    BY <1>14 DEF StartWorker
  <2>4. Behind' /\ StaleSummaryIsMarked'
    BY <1>14 DEF StartWorker
  <2> QED
    BY <2>1, <2>2, <2>3, <2>4
<1>15. CASE BeginTurn
  BY <1>15 DEF BeginTurn
<1>16. CASE EndTurn
  BY <1>16 DEF EndTurn, FinishTurn
<1>17. CASE Forget
  BY <1>17, ZenonT(40) DEF Forget, Commit, MarkThen
<1>18. CASE RebuildSummary
  BY <1>18 DEF RebuildSummary, MarkThen
<1>19. CASE Clear
  BY <1>19, ZenonT(40) DEF Clear, Commit, MarkThen
<1>20. CASE New
  <2>1. /\ pc[Main] = "prompt"
        /\ \E step \in {"archive", "register"} : pc' = [pc EXCEPT ![Main] = step]
        /\ lock' \in {lock, [lock EXCEPT !.state = Main]}
        /\ UNCHANGED <<after, stop, leaving, snapshot, summary, dirty>>
    BY <1>20 DEF New
  <2>2. Types'
    BY <2>1
  <2>3. Returns' /\ Exiting'
    BY <2>1
  <2>4. Quiet' /\ HasSummaryLock'
    BY <2>1
  <2>5. Behind' /\ StaleSummaryIsMarked'
    BY <2>1
  <2> QED
    BY <2>2, <2>3, <2>4, <2>5
<1>21. CASE FlushEnds
  BY <1>21 DEF FlushEnds
<1>22. ASSUME NEW t \in Flushers, Expire(t) PROVE IInv'
  BY <1>22 DEF Expire
<1>23. CASE StartNewThread
  BY <1>23, ZenonT(40) DEF StartNewThread, Commit, MarkThen
<1>24. ASSUME NEW why \in {"reset", "init"}, CloseFor(why) PROVE IInv'
  BY <1>24 DEF CloseFor
<1>25. CASE InitAgain
  BY <1>25 DEF InitAgain
<1>26. CASE Close
  BY <1>26 DEF Close
<1>27. CASE Join
  <2>1. /\ pc[Main] = "join" /\ \A t \in Background : pc[t] = "off"
        /\ \E step \in {"detached", "start", "unwind"} :
             pc' = [pc EXCEPT ![Main] = step] /\ (step = "unwind" <=> leaving = "exit")
        /\ UNCHANGED <<after, lock, stop, leaving, snapshot, summary, dirty>>
    BY <1>27 DEF Join, Closed
  <2>2. Types'
    BY <2>1
  <2>3. Returns' /\ Exiting'
    BY <2>1
  <2>4. Quiet' /\ HasSummaryLock'
    BY <2>1
  <2>5. Behind' /\ StaleSummaryIsMarked'
    BY <2>1
  <2> QED
    BY <2>2, <2>3, <2>4, <2>5
<1>28. CASE Quit
  BY <1>28 DEF Quit, BeginExit
<1>29. CASE Interrupt
  <2>1. /\ leaving = "no" /\ leaving' = "exit" /\ pc[Worker] # "off"
        /\ pc' = [pc EXCEPT ![Main] = "drain"] /\ after' = [after EXCEPT ![Main] = "off"]
        /\ \/ lock' = lock
           \/ lock.summary = Free /\ lock' = [lock EXCEPT !.summary = Main]
        /\ UNCHANGED <<stop, snapshot, summary, dirty>>
    BY <1>29 DEF Interrupt, BeginExit
  <2>2. Types'
    BY <2>1
  <2>3. Returns' /\ Exiting'
    BY <2>1
  <2>4. Quiet' /\ HasSummaryLock'
    BY <2>1
  <2>5. Behind' /\ StaleSummaryIsMarked'
    BY <2>1
  <2> QED
    BY <2>2, <2>3, <2>4, <2>5
<1>30. CASE InterruptExit
  <2>1. /\ ExitBegun /\ UNCHANGED <<stop, leaving, snapshot, summary, dirty>>
        /\ after' = [after EXCEPT ![Main] = "off"]
        /\ \E step \in {"close", "unwind"} :
             /\ pc' = [pc EXCEPT ![Main] = step]
             /\ step = "close" => leaving = "exit" /\ ~stop
        /\ lock' \in Locks
        /\ lock'.summary = IF pc[Main] = "project" THEN Free ELSE lock.summary
    BY <1>30 DEF InterruptExit, AfterFlush
  <2>2. Types'
    BY <2>1
  <2>3. Returns' /\ Exiting'
    BY <2>1
  <2>4. Quiet' /\ HasSummaryLock'
    BY <2>1
  <2>5. Behind' /\ StaleSummaryIsMarked'
    BY <2>1
  <2> QED
    BY <2>2, <2>3, <2>4, <2>5
<1>31. CASE ExitDetached
  <2>1. /\ pc[Main] \in {"start", "spawn", "detached"} \/ after[Main] = "spawn"
        /\ pc' = [pc EXCEPT ![Main] = "unwind"] /\ leaving' = "exit"
        /\ UNCHANGED <<after, lock, stop, snapshot, summary, dirty>>
    BY <1>31 DEF ExitDetached
  <2>2. Types'
    BY <2>1
  <2>3. Returns' /\ Exiting'
    BY <2>1
  <2>4. Quiet' /\ HasSummaryLock'
    BY <2>1
  <2>5. Behind' /\ StaleSummaryIsMarked'
    BY <2>1
  <2> QED
    BY <2>2, <2>3, <2>4, <2>5
<1>32. CASE Unwind
  BY <1>32 DEF Unwind, NoLocks, FinishTurn
<1>33. CASE Restart
  <2>1. Types'
    BY <1>33 DEF Restart
  <2>2. Returns' /\ Exiting'
    BY <1>33 DEF Restart
  <2>3. Quiet' /\ HasSummaryLock'
    BY <1>33 DEF Restart
  <2>4. Behind' /\ StaleSummaryIsMarked'
    BY <1>33 DEF Restart
  <2> QED
    BY <2>1, <2>2, <2>3, <2>4
<1>34. CASE Tick
  BY <1>34 DEF Tick, Ripen, RetryComes
<1>35. CASE UNCHANGED vars
  BY <1>35 DEF vars
<1>36. ASSUME NEW t \in Flushers, FlusherEnds(t) PROVE IInv'
  BY <1>36 DEF FlusherEnds
<1>37. CASE Degraded
  BY <1>37 DEF Degraded
<1>38. CASE Noticed
  BY <1>38 DEF Noticed
<1>39. CASE SummaryStatus
  BY <1>39 DEF SummaryStatus
<1>40. ASSUME NEW t \in Flushers, StartFlush(t) PROVE IInv'
  BY <1>40 DEF StartFlush
<1>41. CASE Registered
  BY <1>41 DEF Registered
<1>42. CASE InterruptClose
  BY <1>42 DEF InterruptClose, BeginExit
<1> QED
  BY <1>1, <1>2, <1>3, <1>4, <1>5, <1>6, <1>7, <1>8, <1>9, <1>10, <1>11,
     <1>12, <1>13, <1>14, <1>15, <1>16, <1>17, <1>18, <1>19, <1>20, <1>21,
     <1>22, <1>23, <1>24, <1>25, <1>26, <1>27, <1>28, <1>29, <1>30, <1>31,
     <1>32, <1>33, <1>34, <1>35, <1>36, <1>37, <1>38, <1>39, <1>40, <1>41, <1>42
  DEF Next, MainStep, WorkerStep, FlushStep, FlusherStep, Commands, Refresh, Call

(* No step takes the record of its work from a thread.                     *)
LEMMA RecordsStep == Records /\ [Next]_vars => Records'
<1> SUFFICES ASSUME Records, [Next]_vars PROVE Records'
  OBVIOUS
<1> USE WorkerAssumption DEF Records, NoWork, threadVars
<1>1. ASSUME NEW t \in Threads, MarkDirty(t) PROVE Records'
  BY <1>1 DEF MarkDirty
<1>2. ASSUME NEW t \in Threads, RefreshSummary(t) PROVE Records'
  BY <1>2 DEF RefreshSummary
<1>3. ASSUME NEW t \in Threads, Project(t) PROVE Records'
  BY <1>3 DEF Project
<1>4. ASSUME NEW t \in Threads, Succeed(t) PROVE Records'
  BY <1>4 DEF Succeed, Noted
<1>5. ASSUME NEW t \in Threads, Fail(t) PROVE Records'
  BY <1>5 DEF Fail, Noted
<1>6. ASSUME NEW t \in Threads, GiveUp(t) PROVE Records'
  BY <1>6 DEF GiveUp, Leave
<1>7. CASE WorkerWakes
  BY <1>7 DEF WorkerWakes
<1>8. CASE WorkerBeats
  BY <1>8 DEF WorkerBeats
<1>9. CASE RetrySummaryIfDue
  BY <1>9 DEF RetrySummaryIfDue
<1>10. ASSUME NEW t \in Threads, TakeProcessLock(t) PROVE Records'
  BY <1>10 DEF TakeProcessLock
<1>11. CASE WorkerRound
  BY <1>11 DEF WorkerRound, Leave, Lease
<1>12. ASSUME NEW t \in Threads \ {Worker}, FlushRound(t) PROVE Records'
  BY <1>12 DEF FlushRound, Leave, Lease
<1>13. CASE Start
  BY <1>13 DEF Start
<1>14. CASE StartWorker
  BY <1>14 DEF StartWorker
<1>15. CASE BeginTurn
  BY <1>15 DEF BeginTurn
<1>16. CASE EndTurn
  BY <1>16 DEF EndTurn
<1>17. CASE Forget
  BY <1>17 DEF Forget
<1>18. CASE RebuildSummary
  BY <1>18 DEF RebuildSummary
<1>19. CASE Clear
  BY <1>19 DEF Clear
<1>20. CASE New
  BY <1>20 DEF New, FlushOf
<1>21. CASE FlushEnds
  BY <1>21 DEF FlushEnds
<1>22. ASSUME NEW t \in Flushers, Expire(t) PROVE Records'
  BY <1>22 DEF Expire
<1>23. CASE StartNewThread
  BY <1>23 DEF StartNewThread
<1>24. ASSUME NEW why \in {"reset", "init"}, CloseFor(why) PROVE Records'
  BY <1>24 DEF CloseFor
<1>25. CASE InitAgain
  BY <1>25 DEF InitAgain
<1>26. CASE Close
  BY <1>26 DEF Close
<1>27. CASE Join
  BY <1>27 DEF Join
<1>28. CASE Quit
  BY <1>28 DEF Quit, BeginExit, FlushOf
<1>29. CASE Interrupt
  BY <1>29 DEF Interrupt, BeginExit, FlushOf
<1>30. CASE InterruptExit
  BY <1>30 DEF InterruptExit
<1>31. CASE ExitDetached
  BY <1>31 DEF ExitDetached
<1>32. CASE Unwind
  BY <1>32 DEF Unwind
<1>33. CASE Restart
  BY <1>33 DEF Restart
<1>34. CASE Tick
  BY <1>34 DEF Tick, Ripen, RetryComes
<1>35. CASE UNCHANGED vars
  BY <1>35 DEF vars
<1>36. ASSUME NEW t \in Flushers, FlusherEnds(t) PROVE Records'
  BY <1>36 DEF FlusherEnds
<1>37. CASE Degraded
  BY <1>37 DEF Degraded
<1>38. CASE Noticed
  BY <1>38 DEF Noticed
<1>39. CASE SummaryStatus
  BY <1>39 DEF SummaryStatus
<1>40. ASSUME NEW t \in Flushers, StartFlush(t) PROVE Records'
  <2>1. work' = [work EXCEPT ![t] = work[Main], ![Main] = NoWork]
    BY <1>40 DEF StartFlush
  <2>2. DOMAIN work' = Threads /\ Main \in Threads
    BY <2>1 DEF Threads
  <2>3. ASSUME NEW u \in Threads PROVE "job" \in DOMAIN work'[u]
    BY <2>1, <2>2
  <2> QED
    BY <2>2, <2>3
<1>41. CASE Registered
  BY <1>41 DEF Registered
<1>42. CASE InterruptClose
  BY <1>42 DEF InterruptClose, BeginExit, FlushOf
<1> QED
  BY <1>1, <1>2, <1>3, <1>4, <1>5, <1>6, <1>7, <1>8, <1>9, <1>10, <1>11,
     <1>12, <1>13, <1>14, <1>15, <1>16, <1>17, <1>18, <1>19, <1>20, <1>21,
     <1>22, <1>23, <1>24, <1>25, <1>26, <1>27, <1>28, <1>29, <1>30, <1>31,
     <1>32, <1>33, <1>34, <1>35, <1>36, <1>37, <1>38, <1>39, <1>40, <1>41, <1>42
  DEF Threads, Background, Main, Worker, Next, MainStep, WorkerStep, FlushStep,
      FlusherStep, Commands, Refresh, Call

-----------------------------------------------------------------------------
(* The theorems.                                                           *)

LEMMA InitInv == Init => IInv
<1> SUFFICES ASSUME Init PROVE IInv
  OBVIOUS
<1> USE WorkerAssumption DEF Init, NoLocks, ExitBegun, Threads, Background, Main, Worker
<1>1. Types
  BY DEF Types, Steps, Locks
<1>2. Returns /\ Quiet /\ Exiting
  BY DEF Returns, Quiet, Exiting
<1>3. HasSummaryLock /\ Behind /\ StaleSummaryIsMarked
  BY DEF HasSummaryLock, Behind, StaleSummaryIsMarked
<1> QED
  BY <1>1, <1>2, <1>3 DEF IInv

(* The invariant holds in every state of the threads.                      *)
THEOREM Invariance == Spec => []IInv
<1>1. Init => IInv
  BY InitInv
<1>2. IInv /\ [Next]_vars => IInv'
  BY StepInv
<1> QED
  BY <1>1, <1>2, PTL DEF Spec

(* No refresh calls a summary current that a commit has overtaken          *)
(* (_refresh_summary of the manager): whichever threads commit, refresh    *)
(* and fail at the same time, and wherever Ctrl-C displaces the main       *)
(* thread.                                                                 *)
THEOREM SummariesAreMarked == Spec => []StaleSummaryIsMarked
<1>1. IInv => StaleSummaryIsMarked
  BY DEF IInv
<1> QED
  BY <1>1, Invariance, PTL

LEMMA InitRecords == Init => Records
BY DEF Init, Records, NoWork

(* Only the round itself moves main on from a round of its flush.          *)
LEMMA MainRound ==
  ASSUME IInv, [Next]_vars, pc[Main] = "round", pc'[Main] # "round"
  PROVE  FlushRound(Main)
<1> USE WorkerAssumption DEF Main, Worker, Threads, Background, Goto, IInv, Types
<1>1. ASSUME NEW t \in Background, TakeProcessLock(t) \/ Call(t) \/ Refresh(t)
      PROVE  FALSE
  BY <1>1 DEF TakeProcessLock, Call, Succeed, MarkThen, Fail, GiveUp, Leave,
              Refresh, MarkDirty, RefreshSummary, Project
<1>2. ASSUME NEW f \in Flushers, FlushRound(f) \/ FlusherEnds(f) \/ Expire(f) PROVE FALSE
  BY <1>2 DEF FlushRound, FlusherEnds, Leave, Lease, Expire, threadVars
<1>3. ~WorkerStep
  BY <1>1 DEF WorkerStep, WorkerWakes, WorkerBeats, RetrySummaryIfDue, WorkerRound, Leave, Lease
<1>4. ~(TakeProcessLock(Main) \/ Call(Main) \/ Refresh(Main))
  BY DEF TakeProcessLock, Call, Succeed, Fail, GiveUp, Refresh, MarkDirty, RefreshSummary, Project
<1>5. MainStep => FlushRound(Main)
  BY <1>4 DEF MainStep, FlushStep, Start, StartWorker, EndTurn, Noticed, StartFlush, Registered,
              FlushEnds, StartNewThread, Close, Join, Unwind
<1>6. ~Commands
  BY DEF Commands, BeginTurn, Forget, SummaryStatus, RebuildSummary, Clear, New, CloseFor,
         InitAgain, Quit, Restart
<1>7. ~Degraded /\ ~Interrupt /\ ~InterruptClose /\ ~InterruptExit /\ ~ExitDetached
  BY DEF Degraded, Interrupt, InterruptClose, InterruptExit, ExitDetached
<1>8. ~Tick /\ ~UNCHANGED vars
  BY DEF Tick, Ripen, RetryComes, threadVars, vars
<1> QED
  BY <1>1, <1>2, <1>3, <1>5, <1>6, <1>7, <1>8 DEF Next, FlushStep, FlusherStep

(* The flush of the exit (_flush_job_ids) tries each job that was          *)
(* unfinished when it began and each that came of one, once, but for those *)
(* it could not claim, whatever the worker and another flush do meanwhile. *)
THEOREM ExitTriesEverything == Spec => ExitTriesWhatWasPending
<1>1. ASSUME IInv, Records, [Next]_vars, ~stop,
             pc[Main] = "round", pc'[Main] \in {"close", "unwind"}, NEW j \in DOMAIN jobs, j \notin work[Main].tried,
             jobs[j].status \in {"young", "ready"},
             j \in work[Main].allowed \/ jobs[j].source \in work[Main].allowed
      PROVE  FALSE
  <2>1. FlushRound(Main)
    BY <1>1, MainRound
  <2>2. j \in Remaining(Main)
    BY <1>1 DEF Remaining, UnfinishedOf, Unfinished
  <2>3. PICK i \in Remaining(Main) : Lease(Main, i)
    BY <1>1, <2>1, <2>2 DEF FlushRound
  <2> QED
    BY <1>1, <2>3 DEF Lease, Goto, IInv, Types, Threads
<1>2. ASSUME IInv, Records, [Next]_vars, pc[Main] = "round", pc'[Main] = "call"
      PROVE  work'[Main].job \notin work[Main].tried
  <2>1. FlushRound(Main)
    BY <1>2, MainRound
  <2>2. PICK i \in Remaining(Main) : Lease(Main, i)
    BY <1>2, <2>1 DEF FlushRound, Leave, AfterFlush, Goto, IInv, Types, Threads, Main, Worker
  <2>3. work'[Main].job = i
    BY <1>2, <2>2 DEF Lease, Records, Threads
  <2> QED
    BY <2>2, <2>3 DEF Remaining
<1>3. Init => IInv /\ Records
  BY InitInv, InitRecords
<1>4. IInv /\ Records /\ [Next]_vars => (IInv /\ Records)'
  BY StepInv, RecordsStep
<1> DEFINE Tries ==
      /\ pc[Main] = "round" /\ pc'[Main] \in {"close", "unwind"} /\ ~stop =>
           \A j \in DOMAIN jobs :
             j \in work[Main].tried \/ jobs[j].status \notin {"young", "ready"}
             \/ ~(j \in work[Main].allowed \/ jobs[j].source \in work[Main].allowed)
      /\ pc[Main] = "round" /\ pc'[Main] = "call" => work'[Main].job \notin work[Main].tried
<1>5. IInv /\ Records /\ [Next]_vars => [Tries]_vars
  BY <1>1, <1>2
<1> QED
  BY <1>3, <1>4, <1>5, PTL DEF Spec, ExitTriesWhatWasPending

=============================================================================
