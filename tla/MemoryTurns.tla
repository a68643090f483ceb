----------------------------- MODULE MemoryTurns -----------------------------
(***************************************************************************)
(* The conversation in the project's memory: threads and turns (tables     *)
(* threads and turns of core/memory/store.py), as the processes that work  *)
(* on one project share them.  A request opens a turn, runs for as long as *)
(* its model takes, and closes the turn with its answer                    *)
(* (cli/workflows/memory_turn.py).  An open turn is leased: its process    *)
(* renews it from whichever thread is at work on the memory                *)
(* (core/memory/manager.py, pipeline.py), and any process may take one     *)
(* whose lease has run out for the remains of a crash.                     *)
(*                                                                         *)
(* A tick is half of a lease and longer than the interval of any           *)
(* heartbeat: between two ticks every thread that can move has beaten.     *)
(***************************************************************************)
EXTENDS Integers, FiniteSets

CONSTANTS
  Procs,       \* the processes
  Nobody,      \* the owner of what a stopped process has left
  Lease,       \* ticks in TURN_LEASE_SECONDS and JOB_LEASE_SECONDS
  CallTicks,   \* bound: ticks of one call of the provider, with its retries
  HistoryTurns,\* how many turns the budget of the recent history takes
  MaxTurns,    \* bound: turns
  MaxThreads,  \* bound: threads
  MaxFaults    \* bound: stops, stalls and failures of the database

ASSUME TurnsAssumption ==
  /\ Nobody \notin Procs
  /\ Lease \in Nat /\ Lease > 1
  /\ {CallTicks, HistoryTurns, MaxTurns, MaxThreads} \subseteq Nat \ {0}
  /\ MaxFaults \in Nat

Turns == 1..MaxTurns
Threads == {"worker", "flusher"}

VARIABLES
  active,      \* the thread whose status is 'active'
  archived,    \* those whose status is 'archived'
  flushed,     \* those whose flush by /new has come to its end
  turns,       \* the rows of turns; "none" has not been, "gone" was cleared
  missed,      \* of each turn, what kept its process from renewing it in time
  pending,     \* calls of the provider that the job queue asks for
  main,        \* of each process, its main thread: [at, turn, thread, heard]
  at,          \* of each process, the steps of its other threads
  call,        \* of each process, the call of its provider: [age, lease, beats]
  beaten,      \* which threads have beaten since the last tick
  told,        \* the degraded notices: who was told, and what of
  faults       \* faults so far, a counter for the bound

storeVars == <<active, archived, turns>>
vars == <<storeVars, flushed, missed, pending, main, at, call, beaten, told, faults>>

NoTurn == [state |-> "none", thread |-> 1, owner |-> Nobody, lease |-> 0]
Idle == [at |-> "idle", turn |-> 0, thread |-> 0, heard |-> {}]
Off == [Idle EXCEPT !.at = "off"]
NoCall == [age |-> 0, lease |-> 0, beats |-> FALSE]

Init ==
  /\ active = 1 /\ archived = {} /\ flushed = {}
  /\ turns = [t \in Turns |-> NoTurn] /\ missed = [t \in Turns |-> {}]
  /\ pending = 0
  /\ main = [p \in Procs |-> Off]
  /\ at = [p \in Procs |-> [th \in Threads |-> "off"]]
  /\ call = [p \in Procs |-> NoCall]
  /\ beaten = [p \in Procs |-> {}]
  /\ told = {} /\ faults = 0

Least(m, n) == IF m < n THEN m ELSE n
Most(m, n) == IF m > n THEN m ELSE n

Fault == faults < MaxFaults /\ faults' = faults + 1

Running(p) == main[p].at # "off"

(* _process_lock: one thread of a process at a time steps or calls.        *)
Holds(p, th) == at[p][th] \in {"step", "call"}
LockFree(p) == \A th \in Threads : ~Holds(p, th)

GoMain(p, step) == main' = [main EXCEPT ![p].at = step]
Go(p, th, step) == at' = [at EXCEPT ![p][th] = step]

-----------------------------------------------------------------------------
(* Operations of the store.                                                *)

OpenOf(p) == {t \in Turns : turns[t].state = "open" /\ turns[t].owner = p}
Expired == {t \in Turns : turns[t].state = "open" /\ turns[t].lease = 0}
Made == {t \in Turns : turns[t].state # "none"}

(* What is not read of a turn any more is not kept.                        *)
Ended(t, state) == [turns[t] EXCEPT !.state = state, !.lease = 0,
                      !.owner = IF state = "interrupted" THEN @ ELSE Nobody]

(* heartbeat_open_turns: a lease that has run out is not renewed.          *)
HeartbeatOpenTurns(p) ==
  turns' = [t \in Turns |->
              IF t \in OpenOf(p) \ Expired THEN [turns[t] EXCEPT !.lease = Lease] ELSE turns[t]]

(* recover_startup: each turn that it ends asks for its extraction.        *)
RecoverStartup ==
  /\ turns' = [t \in Turns |->
                 IF t \in Expired THEN Ended(t, "interrupted") ELSE turns[t]]
  /\ pending' = pending + Cardinality(Expired)

(* build_thread_history: the newest ordinary turns that were answered.     *)
Answered(thread) ==
  {t \in Turns : turns[t].state = "completed" /\ turns[t].thread = thread}

HistoryOf(thread) ==
  {t \in Answered(thread) : Cardinality({u \in Answered(thread) : u > t}) < HistoryTurns}

-----------------------------------------------------------------------------
(* A process starts, and stops at any moment.                              *)

Start(p) ==
  /\ main[p].at = "off"
  /\ RecoverStartup
  /\ main' = [main EXCEPT ![p] = Idle]
  /\ Go(p, "worker", "poll")
  /\ UNCHANGED <<active, archived, flushed, missed, call, beaten, told, faults>>

Stop(p) ==
  /\ Running(p) /\ Fault
  /\ turns' = [t \in Turns |-> IF t \in OpenOf(p) THEN [turns[t] EXCEPT !.owner = Nobody] ELSE turns[t]]
  /\ missed' = [t \in Turns |-> IF t \in OpenOf(p) \cup {main[p].turn} THEN missed[t] \cup {"stopped"} ELSE missed[t]]
  /\ main' = [main EXCEPT ![p] = Off]
  /\ at' = [at EXCEPT ![p] = [th \in Threads |-> "off"]]
  /\ call' = [call EXCEPT ![p] = NoCall]
  /\ beaten' = [beaten EXCEPT ![p] = {}]
  /\ UNCHANGED <<active, archived, flushed, pending, told>>

-----------------------------------------------------------------------------
(* run_durable_memory_turn.                                                *)

(* A notice is about one turn, about the database, or about a thread whose *)
(* flush by /new is not over.                                              *)
Database == 0
Unflushed(thread) == -thread

Notice(p, reason) == told' = told \cup {<<p, reason>>}

(* begin_turn and bind_memory_thread.  Without a turn the request runs all *)
(* the same.                                                               *)
BeginTurn(p) ==
  /\ main[p].at = "idle" /\ Made # Turns
  /\ LET t == Cardinality(Made) + 1 IN
     \/ /\ turns' = [turns EXCEPT ![t] = [state |-> "open", thread |-> active, owner |-> p, lease |-> Lease]]
        /\ main' = [main EXCEPT ![p] = [at |-> "asked", turn |-> t, thread |-> active, heard |-> {}]]
        /\ UNCHANGED <<told, faults>>
     \/ /\ Fault /\ Notice(p, Database)
        /\ GoMain(p, "asked")
        /\ UNCHANGED turns
  /\ UNCHANGED <<active, archived, flushed, missed, pending, at, call, beaten>>

(* Fault: a request reads the history of the active thread. *)
HearActive(p) ==
  /\ main[p].at = "asked"
  /\ main' = [main EXCEPT ![p].at = "run", ![p].heard = HistoryOf(active)]
  /\ UNCHANGED <<storeVars, flushed, missed, pending, at, call, beaten, told, faults>>

(* AgentSession.build_thread_history.                                      *)
Hear(p) ==
  /\ main[p].at = "asked"
  /\ LET thread == IF main[p].turn = 0 THEN active ELSE main[p].thread
     IN main' = [main EXCEPT ![p].at = "run", ![p].heard = HistoryOf(thread)]
  /\ UNCHANGED <<storeVars, flushed, missed, pending, at, call, beaten, told, faults>>

(* _finish_turn.  An answer that comes too late is still shown.            *)
CanFinish(p, t) == t \in OpenOf(p) \ Expired

Saves(p, outcome) ==
  /\ turns' = [turns EXCEPT ![main[p].turn] = Ended(main[p].turn, outcome)]
  /\ missed' = [missed EXCEPT ![main[p].turn] = {}]
  /\ pending' = pending + 1
  /\ UNCHANGED <<told, faults>>

(* Fault: the turn of a late answer is given up without a word. *)
EndRequestQuietly(p) ==
  /\ main[p].at = "run"
  /\ \E outcome \in {"completed", "failed"} :
       \/ CanFinish(p, main[p].turn) /\ Saves(p, outcome)
       \/ ~CanFinish(p, main[p].turn) /\ UNCHANGED <<turns, missed, pending, told, faults>>
       \/ main[p].turn # 0 /\ Fault /\ Notice(p, Database) /\ UNCHANGED <<turns, missed, pending>>
  /\ main' = [main EXCEPT ![p] = Idle]
  /\ UNCHANGED <<active, archived, flushed, at, call, beaten>>

EndRequest(p) ==
  /\ main[p].at = "run"
  /\ \E outcome \in {"completed", "failed"} :
       \/ main[p].turn = 0 /\ UNCHANGED <<turns, missed, pending, told, faults>>
       \/ CanFinish(p, main[p].turn) /\ Saves(p, outcome)
       \/ /\ main[p].turn # 0 /\ ~CanFinish(p, main[p].turn)
          /\ Notice(p, main[p].turn)
          /\ UNCHANGED <<turns, missed, pending, faults>>
       \/ main[p].turn # 0 /\ Fault /\ Notice(p, Database) /\ UNCHANGED <<turns, missed, pending>>
  /\ main' = [main EXCEPT ![p] = Idle]
  /\ UNCHANGED <<active, archived, flushed, at, call, beaten>>

-----------------------------------------------------------------------------
(* handle_new: flush what the old thread has left, wait for that for some  *)
(* seconds, then archive the thread, if no other process did.              *)

NewThread(p) ==
  /\ main[p].at = "idle" /\ at[p]["flusher"] = "off" /\ active < MaxThreads
  /\ main' = [main EXCEPT ![p].at = "new", ![p].thread = active]
  /\ \/ pending > 0 /\ Go(p, "flusher", "lock")
     \/ UNCHANGED at
  /\ UNCHANGED <<storeVars, flushed, missed, pending, call, beaten, told, faults>>

(* The wait is over: so is the flush, or its time is up and it goes on in  *)
(* the background, or it failed.                                           *)
FlushEnds(p) ==
  /\ main[p].at = "new"
  /\ \/ /\ at[p]["flusher"] = "off"
        /\ flushed' = flushed \cup {main[p].thread}
        /\ UNCHANGED <<told, faults>>
     \/ /\ at[p]["flusher"] # "off"
        /\ Notice(p, Unflushed(main[p].thread))
        /\ UNCHANGED <<flushed, faults>>
     \/ Fault /\ Notice(p, Unflushed(main[p].thread)) /\ UNCHANGED flushed
  /\ GoMain(p, "archive")
  /\ UNCHANGED <<storeVars, missed, pending, at, call, beaten>>

(* Fault: whichever thread is active is archived. *)
StartAnyNewThread(p) ==
  /\ main[p].at = "archive"
  /\ archived' = archived \cup {active} /\ active' = Least(active + 1, MaxThreads)
  /\ main' = [main EXCEPT ![p] = Idle]
  /\ UNCHANGED <<turns, flushed, missed, pending, at, call, beaten, told, faults>>

StartNewThread(p) ==
  /\ main[p].at = "archive"
  /\ IF active = main[p].thread
     THEN archived' = archived \cup {active} /\ active' = active + 1
     ELSE UNCHANGED <<active, archived>>
  /\ main' = [main EXCEPT ![p] = Idle]
  /\ UNCHANGED <<turns, flushed, missed, pending, at, call, beaten, told, faults>>

(* A turn without an answer of which something is still to be said.  Of a  *)
(* deleted one only whose it was is remembered.                            *)
Unanswered(row) ==
  row.state \in {"open", "interrupted"} \/ (row.state = "gone" /\ row.owner # Nobody)

(* /memory clear: whatever was called for before is fenced.                *)
Clear(p) ==
  /\ main[p].at = "idle" /\ active < MaxThreads
  /\ turns' = [t \in Turns |->
       IF t \in Made
       THEN [NoTurn EXCEPT !.state = "gone", !.owner = IF Unanswered(turns[t]) THEN turns[t].owner ELSE Nobody]
       ELSE turns[t]]
  /\ active' = active + 1 /\ archived' = {}
  /\ missed' = [t \in Turns |-> missed[t] \cap {"stopped"}]
  /\ pending' = 0
  /\ call' = [q \in Procs |-> [call[q] EXCEPT !.lease = 0]]
  /\ UNCHANGED <<flushed, main, at, beaten, told, faults>>

-----------------------------------------------------------------------------
(* The threads that work on the memory.                                    *)

Beats(p, th) == beaten' = [beaten EXCEPT ![p] = @ \cup {th}]

(* Two transactions of a poll: what another process does between them is   *)
(* the same before or after both.                                          *)
WorkerPolls(p) ==
  /\ at[p]["worker"] = "poll"
  /\ Beats(p, "worker")
  /\ turns' = [t \in Turns |-> CASE t \in Expired -> Ended(t, "interrupted")
                                  [] t \in OpenOf(p) \ Expired -> [turns[t] EXCEPT !.lease = Lease]
                                  [] OTHER -> turns[t]]
  /\ pending' = pending + Cardinality(Expired)
  /\ Go(p, "worker", "lock")
  /\ UNCHANGED <<active, archived, flushed, missed, main, call, told, faults>>

(* A thread steps when it has _process_lock, and keeps it until it is done. *)
MayStep(p, th) == at[p][th] = "step" \/ (at[p][th] = "lock" /\ LockFree(p))

Home(th) == IF th = "worker" THEN "poll" ELSE "off"

(* One step of the pipeline: it beats, then claims a job or finds none.    *)
Step(p, th) ==
  /\ MayStep(p, th)
  /\ HeartbeatOpenTurns(p) /\ Beats(p, th)
  /\ \/ /\ pending > 0 /\ pending' = pending - 1
        /\ call' = [call EXCEPT ![p] = [age |-> 0, lease |-> Lease, beats |-> TRUE]]
        /\ Go(p, th, "call")
     \/ /\ Go(p, th, Home(th))
        /\ UNCHANGED <<pending, call>>
  /\ UNCHANGED <<active, archived, flushed, missed, main, told, faults>>

(* Fault: the heartbeat of a call renews its job alone. *)
CallBeatsForJob(p, th) ==
  /\ at[p][th] = "call" /\ call[p].beats
  /\ Beats(p, th)
  /\ IF call[p].lease > 0 THEN call' = [call EXCEPT ![p].lease = Lease]
                          ELSE call' = [call EXCEPT ![p].beats = FALSE]
  /\ UNCHANGED <<storeVars, flushed, missed, pending, main, at, told, faults>>

(* _ProviderLeaseHeartbeat: it ends where its job is not its own any more. *)
CallBeats(p, th) ==
  /\ at[p][th] = "call" /\ call[p].beats
  /\ IF call[p].lease > 0
     THEN /\ HeartbeatOpenTurns(p) /\ Beats(p, th)
          /\ call' = [call EXCEPT ![p].lease = Lease]
     ELSE /\ call' = [call EXCEPT ![p].beats = FALSE]
          /\ UNCHANGED <<turns, beaten>>
  /\ UNCHANGED <<active, archived, flushed, missed, pending, main, at, told, faults>>

CallReturns(p, th) ==
  /\ at[p][th] = "call"
  /\ call' = [call EXCEPT ![p] = NoCall]
  /\ Go(p, th, "step")
  /\ UNCHANGED <<storeVars, flushed, missed, pending, main, beaten, told, faults>>

-----------------------------------------------------------------------------
(* Time.                                                                   *)

Blocked(p, th) == at[p][th] = "off" \/ (at[p][th] = "lock" /\ ~LockFree(p))
Calls(p) == \E th \in Threads : at[p][th] = "call"
Fenced(p) == Calls(p) /\ ~call[p].beats

(* A thread has beaten, unless it waits for another or for a provider that *)
(* answers in time, and whose heartbeat has ended.                         *)
OnTime(p) ==
  /\ Calls(p) => call[p].age < CallTicks
  /\ \A th \in Threads :
       Blocked(p, th) \/ (at[p][th] = "call" /\ Fenced(p)) \/ th \in beaten[p]

Why(p) == IF Fenced(p) THEN {"fenced"} ELSE {}

Tick ==
  /\ \E t \in Turns : turns[t].state = "open"
  /\ \E stalled \in SUBSET Procs :
       /\ \A p \in Procs \ stalled : Running(p) => OnTime(p)
       /\ IF stalled = {} THEN UNCHANGED faults
          ELSE Cardinality(stalled) = 1 /\ (\A p \in stalled : Running(p)) /\ Fault
       /\ missed' = [t \in Turns |->
            LET p == turns[t].owner IN
            IF turns[t].state # "open" \/ p = Nobody THEN missed[t]
            ELSE missed[t] \cup Why(p) \cup (IF p \in stalled THEN {"stalled"} ELSE {})]
  /\ turns' = [t \in Turns |->
       IF turns[t].state = "open" THEN [turns[t] EXCEPT !.lease = Most(@ - 1, 0)] ELSE turns[t]]
  /\ call' = [p \in Procs |->
       IF Calls(p) THEN [call[p] EXCEPT !.age = Least(@ + 1, CallTicks), !.lease = Most(@ - 1, 0)] ELSE call[p]]
  /\ beaten' = [p \in Procs |-> {}]
  /\ UNCHANGED <<active, archived, flushed, pending, main, at, told>>

Next ==
  \/ \E p \in Procs :
       \/ Start(p) \/ Stop(p)
       \/ BeginTurn(p) \/ Hear(p) \/ EndRequest(p)
       \/ NewThread(p) \/ FlushEnds(p) \/ StartNewThread(p) \/ Clear(p)
       \/ WorkerPolls(p)
       \/ \E th \in Threads : Step(p, th) \/ CallBeats(p, th) \/ CallReturns(p, th)
  \/ Tick

Spec == Init /\ [][Next]_vars

-----------------------------------------------------------------------------
(* Unless its process stopped, or came to a halt, no request that is being *)
(* worked on has its turn taken for the remains of a crash: whichever of   *)
(* the threads is busy, one of them renews the turn.  The exception is a   *)
(* call of the provider that a clear has fenced: its heartbeat ends, and   *)
(* until it returns nothing renews what is asked in the meantime.          *)
LiveTurnIsKept ==
  \A t \in Turns : turns[t].state = "interrupted" => missed[t] # {}

(* An answer that was not kept has its reason among those that the user    *)
(* was told, unless nobody is left to be told; also one that came after a  *)
(* clear had deleted its turn.                                             *)
AnswerKeptOrTold ==
  \A t \in Turns :
    /\ Unanswered(turns[t])
    /\ "stopped" \notin missed[t]
    /\ \A p \in Procs : main[p].turn # t
    => \E reason \in {t, Database} : <<turns[t].owner, reason>> \in told

(* Of each thread that is archived the flush was over before, or the user  *)
(* of a process was told that this thread's flush was not, whoever starts  *)
(* another thread in between.                                              *)
Waited(thread) == thread \in flushed \/ \E p \in Procs : <<p, Unflushed(thread)>> \in told

ArchivedThreadsWereFlushed == \A thread \in archived : Waited(thread)

(* A request goes on with the thread in which it began: what it heard and  *)
(* where its answer is kept are of one conversation, also when another     *)
(* process has started a new one.                                          *)
RequestStaysInItsThread ==
  \A p \in Procs :
    main[p].at = "run" /\ main[p].turn # 0 =>
      \A t \in main[p].heard : turns[t].state = "gone" \/ turns[t].thread = main[p].thread
=============================================================================
