-------------------------- MODULE MemoryTurnsProofs --------------------------
(***************************************************************************)
(* The safety properties of MemoryTurns hold for any number of processes,  *)
(* turns, threads and faults, for any lease of more than one tick and for  *)
(* calls of any length.                                                    *)
(*                                                                         *)
(* What they need beside the types is that turns are numbered in the order *)
(* of their beginning (Numbered), that the worker of a running process     *)
(* runs, too (WorkerRuns), how old the lease of a turn may be that its     *)
(* process did not miss (Renewed), and whose each request is (Attended).   *)
(***************************************************************************)
EXTENDS MemoryTurns, FiniteSetTheorems, TLAPS

-----------------------------------------------------------------------------
(* The inductive invariant.                                                *)

Reasons == {"stopped", "stalled", "fenced"}

Row == [state : {"none", "open", "completed", "failed", "interrupted", "gone"},
        thread : Nat, owner : Procs \cup {Nobody}, lease : Nat]

Request == [at : {"off", "idle", "asked", "run", "new", "archive"}, turn : Nat, thread : Nat,
            heard : SUBSET Turns]

Types ==
  /\ turns \in [Turns -> Row]
  /\ missed \in [Turns -> SUBSET Reasons]
  /\ main \in [Procs -> Request]
  /\ at \in [Procs -> [Threads -> {"off", "poll", "lock", "step", "call"}]]
  /\ beaten \in [Procs -> SUBSET Threads]
  /\ active \in Nat

(* The turns that have been are the first ones.                            *)
Numbered ==
  \E n \in 0..MaxTurns : \A t \in Turns : turns[t].state # "none" <=> t <= n

WorkerRuns == \A p \in Procs : Running(p) => at[p]["worker"] # "off"

(* Of a turn whose process has missed nothing, less than a tick of the     *)
(* lease is gone before a thread has beaten, and nothing of it after.      *)
RenewedTurn(t) ==
  LET p == turns[t].owner IN
  /\ p \in Procs
  /\ Running(p)
  /\ turns[t].lease >= Lease - 1
  /\ beaten[p] # {} => turns[t].lease = Lease

Renewed ==
  \A t \in Turns : turns[t].state = "open" /\ missed[t] = {} => RenewedTurn(t)

(* A request has its turn for itself.                                      *)
AttendedBy(p) ==
  LET t == main[p].turn IN
  /\ main[p].at \notin {"asked", "run"} => t = 0
  /\ t # 0 =>
       /\ t \in Turns /\ turns[t].state # "none"
       /\ Unanswered(turns[t]) /\ "stopped" \notin missed[t] =>
            turns[t].owner = p

Attended == \A p \in Procs : AttendedBy(p)

Told ==
  \A t \in Turns :
    /\ Unanswered(turns[t])
    /\ "stopped" \notin missed[t]
    => /\ turns[t].owner \in Procs
       /\ \/ \E p \in Procs : main[p].turn = t
          \/ \E reason \in {t, Database} : <<turns[t].owner, reason>> \in told

(* /new has waited for the flush of the thread it means to archive.        *)
Flushed ==
  /\ ArchivedThreadsWereFlushed
  /\ \A p \in Procs : main[p].at = "archive" => Waited(main[p].thread)

(* What a request has heard was answered in its thread, and is not taken   *)
(* back but by a clear.                                                    *)
Heard ==
  \A p \in Procs : main[p].at = "run" /\ main[p].turn # 0 =>
    \A t \in main[p].heard :
      \/ turns[t].state = "gone"
      \/ turns[t].state = "completed" /\ turns[t].thread = main[p].thread

IInv ==
  Types /\ Numbered /\ WorkerRuns /\ Renewed /\ LiveTurnIsKept /\ Attended /\ Told
  /\ Flushed /\ Heard

-----------------------------------------------------------------------------
(* How the turns and the requests change that belong together.             *)

(* A turn that is left to be answered was so before, and its process has   *)
(* it still; or it has just begun.                                         *)
OwnersKept ==
  \A t \in Turns :
    IF turns[t].state = "none"
    THEN turns'[t].state # "none" =>
           turns'[t].owner \in Procs /\ main'[turns'[t].owner].turn = t
    ELSE /\ turns'[t].state # "none"
         /\ Unanswered(turns'[t]) /\ "stopped" \notin missed'[t] =>
              /\ Unanswered(turns[t]) /\ "stopped" \notin missed[t]
              /\ turns'[t].owner = turns[t].owner

(* A request begins with a new turn; it leaves it with an answer or with a *)
(* notice, or stops.                                                       *)
RequestKept(p) ==
  LET old == main[p].turn
      new == main'[p].turn
  IN
  /\ main'[p].at \notin {"asked", "run"} => new = 0
  /\ \/ new \in {0, old}
     \/ /\ new \in Turns /\ turns[new].state = "none"
        /\ turns'[new].state = "open" /\ turns'[new].owner = p
  /\ \/ old \in {0, new}
     \/ ~Unanswered(turns'[old])
     \/ "stopped" \in missed'[old]
     \/ \E reason \in {old, Database} : <<p, reason>> \in told'

RequestsKept ==
  told \subseteq told' /\ flushed \subseteq flushed' /\ \A p \in Procs : RequestKept(p)

(* An answer is kept where it was given, until a clear.                    *)
AnswersKept ==
  \A t \in Turns :
    /\ turns[t].state = "gone" => turns'[t].state = "gone"
    /\ turns[t].state = "completed" =>
         \/ turns'[t].state = "gone"
         \/ turns'[t].state = "completed" /\ turns'[t].thread = turns[t].thread

(* A request hears the history of its thread, and no other after it.       *)
HearingKept ==
  \A p \in Procs : main'[p].at = "run" /\ main'[p].turn # 0 =>
    /\ main'[p].thread = main[p].thread /\ main'[p].turn = main[p].turn
    /\ \/ main[p].at = "run" /\ main'[p].heard = main[p].heard
       \/ main'[p].heard \subseteq Answered(main[p].thread)

-----------------------------------------------------------------------------
(* The number a new turn gets is the first that is free.                   *)
LEMMA NewTurn ==
  ASSUME Types, Numbered, Made # Turns
  PROVE  LET new == Cardinality(Made) + 1 IN
         /\ new \in Turns
         /\ \A t \in Turns : turns[t].state # "none" <=> t < new
<1> USE TurnsAssumption
<1>1. PICK n \in 0..MaxTurns : \A t \in Turns : turns[t].state # "none" <=> t <= n
  BY DEF Numbered
<1>2. Made = 1..n
  BY <1>1 DEF Made, Turns
<1>3. Cardinality(Made) = n
  BY <1>2, FS_Interval
<1>4. n < MaxTurns
  BY <1>2 DEF Turns
<1> QED
  BY <1>1, <1>3, <1>4 DEF Turns

(* What the store and the requests change of a row and of a request. *)
LEMMA RowChanges ==
  ASSUME NEW row \in Row
  PROVE  /\ \A lease \in Nat : [row EXCEPT !.lease = lease] \in Row
         /\ [row EXCEPT !.owner = Nobody] \in Row
         /\ \A state \in {"completed", "failed", "interrupted"} :
              [row EXCEPT !.state = state, !.lease = 0,
                          !.owner = IF state = "interrupted" THEN @ ELSE Nobody] \in Row
  BY DEF Row

LEMMA HeartbeatTypes ==
  ASSUME turns \in [Turns -> Row], NEW p \in Procs, HeartbeatOpenTurns(p)
  PROVE  turns' \in [Turns -> Row]
  BY RowChanges, TurnsAssumption DEF HeartbeatOpenTurns

LEMMA RequestChanges ==
  ASSUME NEW r \in Request
  PROVE  /\ [r EXCEPT !.at = "asked"] \in Request
         /\ \A heard \in SUBSET Turns : [r EXCEPT !.at = "run", !.heard = heard] \in Request
         /\ \A thread \in Nat : [r EXCEPT !.at = "new", !.thread = thread] \in Request
         /\ [r EXCEPT !.at = "archive"] \in Request
  BY DEF Request

(* What a request's beginning, its end and the passing of time come to. *)
LEMMA BeginTurnCases ==
  ASSUME NEW p \in Procs, BeginTurn(p)
  PROVE  LET t == Cardinality(Made) + 1 IN
         /\ main[p].at = "idle" /\ Made # Turns
         /\ UNCHANGED <<active, archived, flushed, missed, at, call, beaten>>
         /\ \/ /\ turns' = [turns EXCEPT ![t] = [state |-> "open", thread |-> active,
                                                owner |-> p, lease |-> Lease]]
               /\ main' = [main EXCEPT ![p] = [at |-> "asked", turn |-> t,
                                              thread |-> active, heard |-> {}]]
               /\ told' = told
            \/ /\ turns' = turns
               /\ main' = [main EXCEPT ![p].at = "asked"]
               /\ told \subseteq told'
  BY DEF BeginTurn, GoMain, Notice

LEMMA EndRequestCases ==
  ASSUME NEW p \in Procs, EndRequest(p)
  PROVE  LET t == main[p].turn IN
         /\ main[p].at = "run"
         /\ main' = [main EXCEPT ![p] = Idle]
         /\ UNCHANGED <<active, archived, flushed, at, call, beaten>>
         /\ \/ /\ turns' = turns /\ missed' = missed /\ told \subseteq told'
               /\ t # 0 => \E reason \in {t, Database} : <<p, reason>> \in told'
            \/ /\ CanFinish(p, t) /\ told' = told
               /\ missed' = [missed EXCEPT ![t] = {}]
               /\ \E outcome \in {"completed", "failed"} :
                    turns' = [turns EXCEPT ![t] = Ended(t, outcome)]
<1>1. PICK outcome \in {"completed", "failed"} :
        \/ main[p].turn = 0 /\ UNCHANGED <<turns, missed, pending, told, faults>>
        \/ CanFinish(p, main[p].turn) /\ Saves(p, outcome)
        \/ /\ main[p].turn # 0 /\ Notice(p, main[p].turn)
           /\ UNCHANGED <<turns, missed, pending, faults>>
        \/ main[p].turn # 0 /\ Notice(p, Database) /\ UNCHANGED <<turns, missed, pending>>
  BY DEF EndRequest
<1>2. CASE main[p].turn = 0 /\ UNCHANGED <<turns, missed, pending, told, faults>>
  BY <1>2 DEF EndRequest
<1>3. CASE CanFinish(p, main[p].turn) /\ Saves(p, outcome)
  BY <1>3 DEF EndRequest, Saves
<1>4. CASE /\ main[p].turn # 0 /\ Notice(p, main[p].turn)
           /\ UNCHANGED <<turns, missed, pending, faults>>
  BY <1>4 DEF EndRequest, Notice
<1>5. CASE main[p].turn # 0 /\ Notice(p, Database) /\ UNCHANGED <<turns, missed, pending>>
  BY <1>5 DEF EndRequest, Notice
<1> QED
  BY <1>1, <1>2, <1>3, <1>4, <1>5

LEMMA FlushEndsCases ==
  ASSUME NEW p \in Procs, FlushEnds(p)
  PROVE  /\ main[p].at = "new"
         /\ main' = [main EXCEPT ![p].at = "archive"]
         /\ flushed \subseteq flushed' /\ told \subseteq told'
         /\ \A thread : thread = main[p].thread => Waited(thread)'
         /\ UNCHANGED <<active, archived, turns, missed, pending, at, call, beaten>>
<1> USE DEF FlushEnds, GoMain, storeVars
<1>1. main[p].at = "new" /\ main' = [main EXCEPT ![p].at = "archive"]
  OBVIOUS
<1>2. UNCHANGED <<active, archived, turns, missed, pending, at, call, beaten>>
  OBVIOUS
<1>3. \/ flushed' = flushed \cup {main[p].thread} /\ told' = told
      \/ flushed' = flushed /\ Notice(p, Unflushed(main[p].thread))
  OBVIOUS
<1>4. flushed \subseteq flushed' /\ told \subseteq told'
  BY <1>3 DEF Notice
<1>5. ASSUME NEW thread, thread = main[p].thread PROVE Waited(thread)'
  BY <1>3, <1>5 DEF Notice, Waited, Unflushed
<1> QED
  BY <1>1, <1>2, <1>4, <1>5

LEMMA TickCases ==
  ASSUME Tick
  PROVE  /\ turns' = [t \in Turns |->
                       IF turns[t].state = "open"
                       THEN [turns[t] EXCEPT !.lease = Most(@ - 1, 0)] ELSE turns[t]]
         /\ \E new \in [Turns -> SUBSET {"stalled", "fenced"}] :
              missed' = [t \in Turns |-> missed[t] \cup new[t]]
         /\ \A t \in Turns :
              LET p == turns[t].owner IN
              turns[t].state = "open" /\ missed'[t] = {} /\ p \in Procs /\ Running(p) =>
                OnTime(p) /\ ~Fenced(p)
         /\ beaten' = [p \in Procs |-> {}]
         /\ UNCHANGED <<active, archived, flushed, pending, main, at, told>>
<1>1. PICK stalled \in SUBSET Procs :
        /\ \A p \in Procs \ stalled : Running(p) => OnTime(p)
        /\ missed' = [t \in Turns |->
             LET p == turns[t].owner IN
             IF turns[t].state # "open" \/ p = Nobody THEN missed[t]
             ELSE missed[t] \cup Why(p) \cup (IF p \in stalled THEN {"stalled"} ELSE {})]
  BY DEF Tick
<1> DEFINE new == [t \in Turns |->
             LET p == turns[t].owner IN
             IF turns[t].state # "open" \/ p = Nobody THEN {}
             ELSE Why(p) \cup (IF p \in stalled THEN {"stalled"} ELSE {})]
<1>2. new \in [Turns -> SUBSET {"stalled", "fenced"}]
  BY DEF Why
<1>3. missed' = [t \in Turns |-> missed[t] \cup new[t]]
  BY <1>1
<1>4. ASSUME NEW t \in Turns, turns[t].state = "open", missed'[t] = {},
             turns[t].owner \in Procs, Running(turns[t].owner)
      PROVE  OnTime(turns[t].owner) /\ ~Fenced(turns[t].owner)
  BY <1>1, <1>4, TurnsAssumption DEF Why
<1> QED
  BY <1>2, <1>3, <1>4 DEF Tick

(* No step leaves the types. *)
LEMMA TypesStep == IInv /\ [Next]_vars => Types'
<1> SUFFICES ASSUME IInv, [Next]_vars PROVE Types'
  OBVIOUS
<1> USE TurnsAssumption DEF IInv, Types, Reasons, Threads, storeVars
<1>1. ASSUME NEW p \in Procs, Start(p) PROVE Types'
  <2>1. turns' \in [Turns -> Row]
    BY <1>1, RowChanges DEF Start, RecoverStartup, Ended
  <2>2. main' \in [Procs -> Request]
    BY <1>1 DEF Start, Idle, Request
  <2>3. at' \in [Procs -> [Threads -> {"off", "poll", "lock", "step", "call"}]]
    BY <1>1 DEF Start, Go
  <2> QED
    BY <1>1, <2>1, <2>2, <2>3 DEF Start
<1>2. ASSUME NEW p \in Procs, Stop(p) PROVE Types'
  <2>1. turns' \in [Turns -> Row]
    BY <1>2, RowChanges DEF Stop
  <2>2. missed' \in [Turns -> SUBSET Reasons]
    BY <1>2 DEF Stop
  <2>3. main' \in [Procs -> Request]
    BY <1>2 DEF Stop, Off, Idle, Request
  <2>4. at' \in [Procs -> [Threads -> {"off", "poll", "lock", "step", "call"}]]
    BY <1>2 DEF Stop
  <2>5. beaten' \in [Procs -> SUBSET Threads]
    BY <1>2 DEF Stop
  <2> QED
    BY <1>2, <2>1, <2>2, <2>3, <2>4, <2>5 DEF Stop
<1>3. ASSUME NEW p \in Procs, BeginTurn(p) PROVE Types'
  <2>1. Cardinality(Made) + 1 \in Nat
    BY <1>3, NewTurn DEF BeginTurn, Turns
  <2>2. turns' \in [Turns -> Row]
    BY <1>3, <2>1 DEF BeginTurn, Row
  <2>3. [at |-> "asked", turn |-> Cardinality(Made) + 1, thread |-> active, heard |-> {}] \in Request
    BY <2>1 DEF Request
  <2>4. [main[p] EXCEPT !.at = "asked"] \in Request
    BY RequestChanges
  <2>5. ASSUME main' = [main EXCEPT ![p].at = "asked"]
      PROVE  main' \in [Procs -> Request]
    BY <2>4, <2>5
  <2>6. ASSUME main' = [main EXCEPT ![p] = [at |-> "asked", turn |-> Cardinality(Made) + 1,
                                          thread |-> active, heard |-> {}]]
      PROVE  main' \in [Procs -> Request]
    BY <2>3, <2>6
  <2> QED
    BY <1>3, <2>2, <2>5, <2>6, BeginTurnCases
<1>4. ASSUME NEW p \in Procs, Hear(p) PROVE Types'
  <2>1. main' \in [Procs -> Request]
    BY <1>4, RequestChanges DEF Hear, HistoryOf, Answered
  <2> QED
    BY <1>4, <2>1 DEF Hear
<1>5. ASSUME NEW p \in Procs, EndRequest(p) PROVE Types'
  <2>1. main' = [main EXCEPT ![p] = Idle]
    BY <1>5 DEF EndRequest
  <2>2. main' \in [Procs -> Request]
    BY <2>1 DEF Idle, Request
  <2>3. CanFinish(p, main[p].turn) => \A outcome \in {"completed", "failed"} : Ended(main[p].turn, outcome) \in Row
    BY RowChanges DEF Ended, CanFinish, OpenOf
  <2>4. ASSUME NEW outcome \in {"completed", "failed"}, CanFinish(p, main[p].turn),
             turns' = [turns EXCEPT ![main[p].turn] = Ended(main[p].turn, outcome)]
      PROVE  turns' \in [Turns -> Row]
    BY <2>3, <2>4
  <2>5. turns' \in [Turns -> Row]
    BY <1>5, <2>4, EndRequestCases
  <2>6. missed' \in [Turns -> SUBSET Reasons]
    BY <1>5, EndRequestCases
  <2> QED
    BY <1>5, <2>2, <2>5, <2>6, EndRequestCases
<1>6. ASSUME NEW p \in Procs, NewThread(p) PROVE Types'
  <2>1. main' \in [Procs -> Request]
    BY <1>6, RequestChanges DEF NewThread
  <2>2. at' \in [Procs -> [Threads -> {"off", "poll", "lock", "step", "call"}]]
    BY <1>6 DEF NewThread, Go
  <2> QED
    BY <1>6, <2>1, <2>2 DEF NewThread
<1>7. ASSUME NEW p \in Procs, StartNewThread(p) PROVE Types'
  BY <1>7 DEF StartNewThread, Idle, Request
<1>8. ASSUME NEW p \in Procs, Clear(p) PROVE Types'
  <2>1. \A owner \in Procs \cup {Nobody} : [NoTurn EXCEPT !.state = "gone", !.owner = owner] \in Row
    BY DEF NoTurn, Row
  <2>2. \A t \in Turns : (IF Unanswered(turns[t]) THEN turns[t].owner ELSE Nobody) \in Procs \cup {Nobody}
    BY DEF Row
  <2>3. turns' \in [Turns -> Row]
    BY <1>8, <2>1, <2>2 DEF Clear
  <2>4. missed' \in [Turns -> SUBSET Reasons]
    BY <1>8 DEF Clear
  <2>5. active' = active + 1 /\ main' = main /\ at' = at /\ beaten' = beaten
    BY <1>8, Zenon DEF Clear
  <2> QED
    BY <2>3, <2>4, <2>5
<1>9. ASSUME NEW p \in Procs, WorkerPolls(p) PROVE Types'
  <2>1. turns' \in [Turns -> Row]
    BY <1>9, RowChanges DEF WorkerPolls, Ended
  <2>2. at' \in [Procs -> [Threads -> {"off", "poll", "lock", "step", "call"}]]
    BY <1>9 DEF WorkerPolls, Go
  <2>3. beaten' \in [Procs -> SUBSET Threads]
    BY <1>9 DEF WorkerPolls, Beats
  <2> QED
    BY <1>9, <2>1, <2>2, <2>3 DEF WorkerPolls
<1>10. ASSUME NEW p \in Procs, NEW th \in Threads, Step(p, th) PROVE Types'
  <2>1. Home(th) \in {"off", "poll"}
    BY  DEF Home
  <2>2. turns' \in [Turns -> Row]
    BY <1>10, RowChanges DEF Step, HeartbeatOpenTurns
  <2>3. at' \in [Procs -> [Threads -> {"off", "poll", "lock", "step", "call"}]]
    BY <1>10, <2>1 DEF Step, Go
  <2>4. beaten' \in [Procs -> SUBSET Threads]
    BY <1>10 DEF Step, Beats
  <2> QED
    BY <1>10, <2>2, <2>3, <2>4 DEF Step
<1>11. ASSUME NEW p \in Procs, NEW th \in Threads, CallBeats(p, th) PROVE Types'
  <2>1. turns' \in [Turns -> Row]
    BY <1>11, HeartbeatTypes DEF CallBeats
  <2>2. beaten' \in [Procs -> SUBSET Threads]
    BY <1>11 DEF CallBeats, Beats
  <2> QED
    BY <1>11, <2>1, <2>2 DEF CallBeats
<1>12. ASSUME NEW p \in Procs, NEW th \in Threads, CallReturns(p, th) PROVE Types'
  BY <1>12 DEF CallReturns, Go
<1>13. CASE Tick
  <2>1. ASSUME NEW t \in Turns PROVE Most(turns[t].lease - 1, 0) \in Nat
    BY  DEF Most, Row
  <2>2. turns' \in [Turns -> Row]
    BY <1>13, <2>1, RowChanges DEF Tick
  <2>3. missed' \in [Turns -> SUBSET Reasons]
    BY <1>13, TickCases
  <2> QED
    BY <1>13, <2>2, <2>3 DEF Tick
<1>14. CASE UNCHANGED vars
  BY <1>14 DEF vars, storeVars
<1>15. ASSUME NEW p \in Procs, FlushEnds(p) PROVE Types'
  <2>1. [main[p] EXCEPT !.at = "archive"] \in Request
    BY RequestChanges
  <2>2. main' = [main EXCEPT ![p].at = "archive"]
    BY <1>15, FlushEndsCases
  <2>3. main' \in [Procs -> Request]
    BY <2>1, <2>2
  <2> QED
    BY <1>15, <2>3, FlushEndsCases
<1> QED
  BY <1>1, <1>2, <1>3, <1>4, <1>5, <1>6, <1>7, <1>8, <1>9, <1>10, <1>11, <1>12, <1>13, <1>14,
     <1>15 DEF Next

(* New turns take the next number, and none is forgotten. *)
LEMMA NumberedStep == IInv /\ [Next]_vars => Numbered'
<1> SUFFICES ASSUME IInv, [Next]_vars PROVE Numbered'
  OBVIOUS
<1> USE TurnsAssumption DEF IInv, Types, Row, storeVars
<1>1. ASSUME NEW p \in Procs, Start(p) PROVE Numbered'
  <2>1. \A t \in Turns : turns'[t].state # "none" <=> turns[t].state # "none"
    BY <1>1 DEF Start, RecoverStartup, Ended, Expired
  <2> QED
    BY <2>1 DEF Numbered
<1>2. ASSUME NEW p \in Procs, Stop(p) PROVE Numbered'
  BY <1>2 DEF Stop, Numbered
<1>3. ASSUME NEW p \in Procs, BeginTurn(p) PROVE Numbered'
  <2>1. PICK n \in 0..MaxTurns : \A t \in Turns : turns[t].state # "none" <=> t <= n
    BY  DEF Numbered
  <2>2. CASE turns' = turns
    BY <2>1, <2>2 DEF Numbered
  <2>3. Cardinality(Made) + 1 \in 1..MaxTurns
    BY <1>3, NewTurn, BeginTurnCases DEF Turns
  <2>4. \A t \in Turns : turns[t].state # "none" <=> t < Cardinality(Made) + 1
    BY <1>3, NewTurn, BeginTurnCases
  <2>5. ASSUME turns' = [turns EXCEPT ![Cardinality(Made) + 1] =
               [state |-> "open", thread |-> active, owner |-> p, lease |-> Lease]],
             NEW t \in Turns
      PROVE  turns'[t].state # "none" <=> t <= Cardinality(Made) + 1
    BY <2>3, <2>4, <2>5 DEF Turns
  <2>6. CASE turns' = [turns EXCEPT ![Cardinality(Made) + 1] =
             [state |-> "open", thread |-> active, owner |-> p, lease |-> Lease]]
    BY <2>3, <2>4, <2>5, <2>6 DEF Numbered
  <2> QED
    BY <1>3, <2>2, <2>6, BeginTurnCases
<1>4. ASSUME NEW p \in Procs, Hear(p) PROVE Numbered'
  BY <1>4 DEF Hear, Numbered
<1>5. ASSUME NEW p \in Procs, EndRequest(p) PROVE Numbered'
  <2>1. CASE turns' = turns
    BY <2>1 DEF Numbered
  <2>2. ASSUME NEW outcome \in {"completed", "failed"}, CanFinish(p, main[p].turn),
             turns' = [turns EXCEPT ![main[p].turn] = Ended(main[p].turn, outcome)]
      PROVE  Numbered'
    BY <2>2 DEF Numbered, Ended, CanFinish, OpenOf, Row
  <2> QED
    BY <1>5, <2>1, <2>2, EndRequestCases
<1>6. ASSUME NEW p \in Procs, NewThread(p) PROVE Numbered'
  BY <1>6 DEF NewThread, Numbered
<1>7. ASSUME NEW p \in Procs, StartNewThread(p) PROVE Numbered'
  BY <1>7 DEF StartNewThread, Numbered
<1>8. ASSUME NEW p \in Procs, Clear(p) PROVE Numbered'
  BY <1>8 DEF Clear, Made, NoTurn, Numbered
<1>9. ASSUME NEW p \in Procs, WorkerPolls(p) PROVE Numbered'
  BY <1>9 DEF WorkerPolls, Ended, Expired, OpenOf, Numbered
<1>10. ASSUME NEW p \in Procs, NEW th \in Threads, Step(p, th) PROVE Numbered'
  BY <1>10 DEF Step, HeartbeatOpenTurns, Numbered
<1>11. ASSUME NEW p \in Procs, NEW th \in Threads, CallBeats(p, th) PROVE Numbered'
  <2>1. \A t \in Turns : turns'[t].state # "none" <=> turns[t].state # "none"
    BY <1>11 DEF CallBeats, HeartbeatOpenTurns
  <2> QED
    BY <2>1 DEF Numbered
<1>12. ASSUME NEW p \in Procs, NEW th \in Threads, CallReturns(p, th) PROVE Numbered'
  BY <1>12 DEF CallReturns, Numbered
<1>13. CASE Tick
  BY <1>13 DEF Tick, Numbered
<1>14. CASE UNCHANGED vars
  BY <1>14 DEF vars, storeVars, Numbered
<1>15. ASSUME NEW p \in Procs, FlushEnds(p) PROVE Numbered'
  BY <1>15, FlushEndsCases DEF Numbered
<1> QED
  BY <1>1, <1>2, <1>3, <1>4, <1>5, <1>6, <1>7, <1>8, <1>9, <1>10, <1>11, <1>12, <1>13, <1>14,
     <1>15 DEF Next

(* A worker ends with its process. *)
LEMMA WorkerRunsStep == IInv /\ [Next]_vars => WorkerRuns'
<1> SUFFICES ASSUME IInv, [Next]_vars PROVE WorkerRuns'
  OBVIOUS
<1> USE TurnsAssumption DEF IInv, Types, WorkerRuns, Running, Request, Threads, storeVars
<1>1. ASSUME NEW p \in Procs, Start(p) PROVE WorkerRuns'
  BY <1>1 DEF Start, Go, Idle
<1>2. ASSUME NEW p \in Procs, Stop(p) PROVE WorkerRuns'
  BY <1>2 DEF Stop, Off, Idle
<1>3. ASSUME NEW p \in Procs, BeginTurn(p) PROVE WorkerRuns'
  BY <1>3, BeginTurnCases DEF BeginTurn
<1>4. ASSUME NEW p \in Procs, Hear(p) PROVE WorkerRuns'
  BY <1>4 DEF Hear
<1>5. ASSUME NEW p \in Procs, EndRequest(p) PROVE WorkerRuns'
  BY <1>5, EndRequestCases DEF EndRequest, Idle
<1>6. ASSUME NEW p \in Procs, NewThread(p) PROVE WorkerRuns'
  BY <1>6 DEF NewThread, Go
<1>7. ASSUME NEW p \in Procs, StartNewThread(p) PROVE WorkerRuns'
  BY <1>7 DEF StartNewThread, Idle
<1>8. ASSUME NEW p \in Procs, Clear(p) PROVE WorkerRuns'
  BY <1>8 DEF Clear
<1>9. ASSUME NEW p \in Procs, WorkerPolls(p) PROVE WorkerRuns'
  BY <1>9 DEF WorkerPolls, Go
<1>10. ASSUME NEW p \in Procs, NEW th \in Threads, Step(p, th) PROVE WorkerRuns'
  <2>1. main' = main
    BY <1>10 DEF Step
  <2>2. \E step \in {"call", Home(th)} : at' = [at EXCEPT ![p][th] = step]
    BY <1>10 DEF Step, Go
  <2>3. th = "worker" => Home(th) # "off"
    BY DEF Home
  <2> QED
    BY <2>1, <2>2, <2>3
<1>11. ASSUME NEW p \in Procs, NEW th \in Threads, CallBeats(p, th) PROVE WorkerRuns'
  BY <1>11 DEF CallBeats
<1>12. ASSUME NEW p \in Procs, NEW th \in Threads, CallReturns(p, th) PROVE WorkerRuns'
  BY <1>12 DEF CallReturns, Go
<1>13. CASE Tick
  BY <1>13 DEF Tick
<1>14. CASE UNCHANGED vars
  BY <1>14 DEF vars, storeVars
<1>15. ASSUME NEW p \in Procs, FlushEnds(p) PROVE WorkerRuns'
  BY <1>15, FlushEndsCases
<1> QED
  BY <1>1, <1>2, <1>3, <1>4, <1>5, <1>6, <1>7, <1>8, <1>9, <1>10, <1>11, <1>12, <1>13, <1>14,
     <1>15 DEF Next

(* In time, a process has beaten since the last tick: if its worker waits for    *)
(* another thread, it is that thread.                                            *)
LEMMA SomeoneBeats ==
  ASSUME Types, WorkerRuns, NEW p \in Procs, Running(p), OnTime(p), ~Fenced(p)
  PROVE  beaten[p] # {}
<1>1. CASE ~Blocked(p, "worker")
  BY <1>1 DEF OnTime, Threads
<1>2. CASE Blocked(p, "worker")
  <2>1. PICK th \in Threads : Holds(p, th)
    BY <1>2 DEF Blocked, LockFree, WorkerRuns
  <2>2. ~Blocked(p, th)
    BY <2>1 DEF Blocked, Holds
  <2> QED
    BY <2>2 DEF OnTime
<1> QED
  BY <1>1, <1>2

(* Whichever thread beats, it renews what its process has open. *)
LEMMA RenewedStep == IInv /\ [Next]_vars => Renewed'
<1> SUFFICES ASSUME IInv, [Next]_vars PROVE Renewed'
  OBVIOUS
<1> USE TurnsAssumption DEF IInv, Types, Row, storeVars
<1>1. ASSUME NEW p \in Procs, Start(p) PROVE Renewed'
  <2> SUFFICES ASSUME NEW t \in Turns, turns'[t].state = "open", missed'[t] = {}
               PROVE  RenewedTurn(t)'
    BY DEF Renewed
  <2>1. turns[t].state = "open" /\ missed[t] = {} /\ turns'[t] = turns[t]
    BY <1>1, ZenonT(40) DEF Start, RecoverStartup, Ended
  <2> QED
    BY <1>1, <2>1 DEF Start, Renewed, Idle, RenewedTurn, Running
<1>2. ASSUME NEW p \in Procs, Stop(p) PROVE Renewed'
  <2> SUFFICES ASSUME NEW t \in Turns, turns'[t].state = "open", missed'[t] = {}
               PROVE  RenewedTurn(t)'
    BY DEF Renewed
  <2>1. turns[t].state = "open" /\ missed[t] = {} /\ turns'[t] = turns[t] /\ turns[t].owner # p
    BY <1>2 DEF Stop, OpenOf
  <2> QED
    BY <1>2, <2>1 DEF Stop, Renewed, RenewedTurn, Running
<1>3. ASSUME NEW p \in Procs, BeginTurn(p) PROVE Renewed'
  <2> SUFFICES ASSUME NEW t \in Turns, turns'[t].state = "open", missed'[t] = {}
               PROVE  RenewedTurn(t)'
    BY DEF Renewed
  <2>1. \/ main' = [main EXCEPT ![p].at = "asked"]
        \/ main' = [main EXCEPT ![p] = [at |-> "asked", turn |-> Cardinality(Made) + 1,
                                       thread |-> active, heard |-> {}]]
    BY <1>3, BeginTurnCases
  <2>2. main'[p].at = "asked" /\ \A q \in Procs \ {p} : main'[q] = main[q]
    BY <2>1 DEF Request
  <2>3. \A q \in Procs : Running(q) => Running(q)'
    BY <2>2 DEF Running
  <2>4. ASSUME turns'[t] = turns[t] PROVE RenewedTurn(t)'
    BY <1>3, <2>3, <2>4, BeginTurnCases DEF Renewed, RenewedTurn
  <2>5. CASE turns'[t] = [state |-> "open", thread |-> active, owner |-> p, lease |-> Lease] /\ main'[p].at = "asked"
    BY <2>5 DEF RenewedTurn, Running
  <2> QED
    BY <1>3, <2>4, <2>5, BeginTurnCases
<1>4. ASSUME NEW p \in Procs, Hear(p) PROVE Renewed'
  BY <1>4 DEF Hear, Renewed, RenewedTurn, Running
<1>5. ASSUME NEW p \in Procs, EndRequest(p) PROVE Renewed'
  <2> SUFFICES ASSUME NEW t \in Turns, turns'[t].state = "open", missed'[t] = {}
               PROVE  RenewedTurn(t)'
    BY DEF Renewed
  <2>1. ASSUME NEW outcome \in {"completed", "failed"},
             missed' = [missed EXCEPT ![main[p].turn] = {}],
             turns' = [turns EXCEPT ![main[p].turn] = Ended(main[p].turn, outcome)]
      PROVE  missed'[t] = missed[t] /\ turns'[t] = turns[t]
    BY <2>1 DEF Ended
  <2>2. missed'[t] = missed[t] /\ turns'[t] = turns[t]
    BY <1>5, <2>1, EndRequestCases
  <2>3. RenewedTurn(t)
    BY <2>2 DEF Renewed
  <2>4. main' = [main EXCEPT ![p] = Idle] /\ UNCHANGED beaten
    BY <1>5 DEF EndRequest
  <2>5. \A q \in Procs : Running(q) => Running(q)'
    BY <2>4 DEF Running, Idle
  <2> QED
    BY <2>2, <2>3, <2>4, <2>5 DEF RenewedTurn
<1>6. ASSUME NEW p \in Procs, NewThread(p) PROVE Renewed'
  BY <1>6 DEF NewThread, Renewed, RenewedTurn, Running
<1>7. ASSUME NEW p \in Procs, StartNewThread(p) PROVE Renewed'
  BY <1>7 DEF StartNewThread, Renewed, Idle, RenewedTurn, Running
<1>8. ASSUME NEW p \in Procs, Clear(p) PROVE Renewed'
  BY <1>8 DEF Clear, Renewed, NoTurn, Made
<1>9. ASSUME NEW p \in Procs, WorkerPolls(p) PROVE Renewed'
  <2> SUFFICES ASSUME NEW t \in Turns, turns'[t].state = "open", missed'[t] = {}
               PROVE  RenewedTurn(t)'
    BY DEF Renewed
  <2>1. turns[t].state = "open" /\ missed[t] = {} /\ RenewedTurn(t)
    BY <1>9 DEF WorkerPolls, Ended, Renewed
  <2>2. t \notin Expired
    BY <2>1 DEF Expired, RenewedTurn
  <2>3. turns'[t] = IF turns[t].owner = p THEN [turns[t] EXCEPT !.lease = Lease] ELSE turns[t]
    BY <1>9, <2>1, <2>2 DEF WorkerPolls, OpenOf
  <2>4. turns[t].owner \in Procs /\ turns'[t].owner = turns[t].owner /\ Running(turns[t].owner)'
    BY <1>9, <2>1, <2>3 DEF WorkerPolls, RenewedTurn, Running
  <2>5. beaten' = [beaten EXCEPT ![p] = @ \cup {"worker"}]
    BY <1>9 DEF WorkerPolls, Beats
  <2> QED
    BY <2>1, <2>3, <2>4, <2>5 DEF RenewedTurn
<1>10. ASSUME NEW p \in Procs, NEW th \in Threads, Step(p, th) PROVE Renewed'
  <2> SUFFICES ASSUME NEW t \in Turns, turns'[t].state = "open", missed'[t] = {}
               PROVE  RenewedTurn(t)'
    BY DEF Renewed
  <2>1. turns[t].state = "open" /\ missed[t] = {} /\ RenewedTurn(t)
    BY <1>10 DEF Step, HeartbeatOpenTurns, Renewed
  <2>2. t \notin Expired
    BY <2>1 DEF Expired, RenewedTurn
  <2>3. turns'[t] = IF turns[t].owner = p THEN [turns[t] EXCEPT !.lease = Lease] ELSE turns[t]
    BY <1>10, <2>1, <2>2 DEF Step, HeartbeatOpenTurns, OpenOf
  <2> QED
    BY <1>10, <2>1, <2>3 DEF Step, Beats, RenewedTurn, Running
<1>11. ASSUME NEW p \in Procs, NEW th \in Threads, CallBeats(p, th) PROVE Renewed'
  <2> SUFFICES ASSUME NEW t \in Turns, turns'[t].state = "open", missed'[t] = {}
               PROVE  RenewedTurn(t)'
    BY DEF Renewed
  <2>1. CASE UNCHANGED <<turns, beaten>>
    BY <1>11, <2>1 DEF CallBeats, Renewed, RenewedTurn, Running
  <2>2. SUFFICES ASSUME HeartbeatOpenTurns(p), Beats(p, th) PROVE RenewedTurn(t)'
    BY <1>11, <2>1 DEF CallBeats
  <2>3. turns[t].state = "open" /\ missed[t] = {} /\ RenewedTurn(t)
    BY <1>11, <2>2 DEF CallBeats, HeartbeatOpenTurns, Renewed
  <2>4. t \notin Expired
    BY <2>3 DEF Expired, RenewedTurn
  <2>5. turns'[t] = IF turns[t].owner = p THEN [turns[t] EXCEPT !.lease = Lease] ELSE turns[t]
    BY <1>11, <2>2, <2>3, <2>4 DEF HeartbeatOpenTurns, OpenOf
  <2> QED
    BY <1>11, <2>2, <2>3, <2>5 DEF CallBeats, Beats, RenewedTurn, Running
<1>12. ASSUME NEW p \in Procs, NEW th \in Threads, CallReturns(p, th) PROVE Renewed'
  BY <1>12 DEF CallReturns, Renewed, RenewedTurn, Running
<1>13. CASE Tick
  <2> SUFFICES ASSUME NEW t \in Turns, turns'[t].state = "open", missed'[t] = {}
               PROVE  RenewedTurn(t)'
    BY DEF Renewed
  <2>1. turns[t].state = "open" /\ missed[t] = {} /\ RenewedTurn(t)
    BY <1>13, TickCases DEF Renewed
  <2>2. OnTime(turns[t].owner) /\ ~Fenced(turns[t].owner)
    BY <1>13, <2>1, TickCases DEF RenewedTurn
  <2>3. beaten[turns[t].owner] # {}
    BY <2>1, <2>2, SomeoneBeats DEF RenewedTurn
  <2>4. turns'[t] = [turns[t] EXCEPT !.lease = Most(@ - 1, 0)]
    BY <1>13, <2>1, TickCases
  <2>5. turns'[t].owner = turns[t].owner /\ turns'[t].lease = Lease - 1
    BY <2>1, <2>3, <2>4 DEF RenewedTurn, Most
  <2> QED
    BY <1>13, <2>1, <2>5, TickCases DEF RenewedTurn, Running
<1>14. CASE UNCHANGED vars
  BY <1>14 DEF vars, storeVars, Renewed, RenewedTurn, Running
<1>15. ASSUME NEW p \in Procs, FlushEnds(p) PROVE Renewed'
  <2> DEFINE before == main[p]
  <2>0. main' = [main EXCEPT ![p] = [before EXCEPT !.at = "archive"]] /\ before \in Request
    BY <1>15, FlushEndsCases
  <2>1. \A q \in Procs : main[q].at # "off" => main'[q].at # "off"
    BY <2>0 DEF Request
  <2>2. UNCHANGED <<turns, missed, beaten>>
    BY <1>15, FlushEndsCases
  <2> QED
    BY <2>1, <2>2 DEF Renewed, RenewedTurn, Running
<1> QED
  BY <1>1, <1>2, <1>3, <1>4, <1>5, <1>6, <1>7, <1>8, <1>9, <1>10, <1>11, <1>12, <1>13, <1>14,
     <1>15 DEF Next

(* Only what was missed is taken for the remains of a crash. *)
LEMMA LiveTurnStep == IInv /\ [Next]_vars => LiveTurnIsKept'
<1> SUFFICES ASSUME IInv, [Next]_vars PROVE LiveTurnIsKept'
  OBVIOUS
<1> USE TurnsAssumption DEF IInv, Types, Row, LiveTurnIsKept, storeVars
<1>1. ASSUME NEW p \in Procs, Start(p) PROVE LiveTurnIsKept'
  <2>1. ASSUME NEW t \in Expired PROVE missed[t] # {}
    BY  DEF Expired, Renewed, RenewedTurn
  <2>2. ASSUME NEW t \in Turns, turns'[t].state = "interrupted", t \notin Expired
      PROVE  turns[t].state = "interrupted"
    BY <1>1, <2>2 DEF Start, RecoverStartup, Ended
  <2>3. missed' = missed
    BY <1>1 DEF Start
  <2> QED
    BY <2>1, <2>2, <2>3
<1>2. ASSUME NEW p \in Procs, Stop(p) PROVE LiveTurnIsKept'
  BY <1>2 DEF Stop
<1>3. ASSUME NEW p \in Procs, BeginTurn(p) PROVE LiveTurnIsKept'
  <2>1. ASSUME NEW t \in Turns, turns'[t].state = "interrupted"
      PROVE  turns'[t] = turns[t] /\ missed' = missed
    BY <1>3, <2>1 DEF BeginTurn
  <2> QED
    BY <2>1
<1>4. ASSUME NEW p \in Procs, Hear(p) PROVE LiveTurnIsKept'
  BY <1>4 DEF Hear
<1>5. ASSUME NEW p \in Procs, EndRequest(p) PROVE LiveTurnIsKept'
  <2>1. ASSUME NEW t \in Turns, turns'[t].state = "interrupted",
             NEW outcome \in {"completed", "failed"},
             missed' = [missed EXCEPT ![main[p].turn] = {}],
             turns' = [turns EXCEPT ![main[p].turn] = Ended(main[p].turn, outcome)]
      PROVE  missed'[t] # {}
    BY <2>1 DEF Ended
  <2>2. ASSUME NEW t \in Turns, turns'[t].state = "interrupted"
      PROVE  missed'[t] # {}
    BY <1>5, <2>1, <2>2, EndRequestCases
  <2> QED
    BY <2>2 DEF LiveTurnIsKept
<1>6. ASSUME NEW p \in Procs, NewThread(p) PROVE LiveTurnIsKept'
  BY <1>6 DEF NewThread
<1>7. ASSUME NEW p \in Procs, StartNewThread(p) PROVE LiveTurnIsKept'
  BY <1>7 DEF StartNewThread
<1>8. ASSUME NEW p \in Procs, Clear(p) PROVE LiveTurnIsKept'
  BY <1>8 DEF Clear, NoTurn, Made
<1>9. ASSUME NEW p \in Procs, WorkerPolls(p) PROVE LiveTurnIsKept'
  <2>1. ASSUME NEW t \in Expired PROVE missed[t] # {}
    BY  DEF Expired, Renewed, RenewedTurn
  <2>2. ASSUME NEW t \in Turns, turns'[t].state = "interrupted", t \notin Expired
      PROVE  turns[t].state = "interrupted"
    BY <1>9, <2>2 DEF WorkerPolls
  <2>3. missed' = missed
    BY <1>9 DEF WorkerPolls
  <2> QED
    BY <2>1, <2>2, <2>3
<1>10. ASSUME NEW p \in Procs, NEW th \in Threads, Step(p, th) PROVE LiveTurnIsKept'
  BY <1>10 DEF Step, HeartbeatOpenTurns
<1>11. ASSUME NEW p \in Procs, NEW th \in Threads, CallBeats(p, th) PROVE LiveTurnIsKept'
  <2>1. CASE turns' = turns
    BY <1>11, <2>1 DEF CallBeats
  <2>2. CASE HeartbeatOpenTurns(p)
    BY <1>11, <2>2 DEF CallBeats, HeartbeatOpenTurns
  <2> QED
    BY <1>11, <2>1, <2>2 DEF CallBeats
<1>12. ASSUME NEW p \in Procs, NEW th \in Threads, CallReturns(p, th) PROVE LiveTurnIsKept'
  BY <1>12 DEF CallReturns
<1>13. CASE Tick
  <2>1. ASSUME NEW t \in Turns, turns'[t].state = "interrupted"
      PROVE  turns[t].state = "interrupted" /\ missed[t] \subseteq missed'[t]
    BY <1>13, <2>1, TickCases
  <2> QED
    BY <2>1 DEF LiveTurnIsKept
<1>14. CASE UNCHANGED vars
  BY <1>14 DEF vars, storeVars
<1>15. ASSUME NEW p \in Procs, FlushEnds(p) PROVE LiveTurnIsKept'
  BY <1>15, FlushEndsCases
<1> QED
  BY <1>1, <1>2, <1>3, <1>4, <1>5, <1>6, <1>7, <1>8, <1>9, <1>10, <1>11, <1>12, <1>13, <1>14,
     <1>15 DEF Next

(* Turns keep their owners. *)
LEMMA OwnersStep == IInv /\ [Next]_vars => OwnersKept
<1> SUFFICES ASSUME IInv, [Next]_vars PROVE OwnersKept
  OBVIOUS
<1> USE TurnsAssumption DEF IInv, Types, Row, OwnersKept, Unanswered, storeVars
<1>1. ASSUME NEW p \in Procs, Start(p) PROVE OwnersKept
  <2>1. turns' = [t \in Turns |-> IF t \in Expired THEN Ended(t, "interrupted") ELSE turns[t]]
      /\ missed' = missed
    BY <1>1 DEF Start, RecoverStartup
  <2> QED
    BY <2>1, ZenonT(40) DEF Ended, Expired
<1>2. ASSUME NEW p \in Procs, Stop(p) PROVE OwnersKept
  BY <1>2 DEF Stop, OpenOf
<1>3. ASSUME NEW p \in Procs, BeginTurn(p) PROVE OwnersKept
  <2>1. /\ Cardinality(Made) + 1 \in Turns
      /\ \A t \in Turns : turns[t].state # "none" <=> t < Cardinality(Made) + 1
    BY <1>3, NewTurn DEF BeginTurn
  <2>2. missed' = missed
    BY <1>3 DEF BeginTurn
  <2>3. CASE turns' = turns
    BY <2>2, <2>3
  <2>4. ASSUME turns' = [turns EXCEPT ![Cardinality(Made) + 1] =
                          [state |-> "open", thread |-> active, owner |-> p, lease |-> Lease]]
      PROVE  \A t \in Turns : IF turns[t].state # "none" THEN turns'[t] = turns[t]
                               ELSE turns'[t].state # "none" =>
                                      t = Cardinality(Made) + 1 /\ turns'[t].owner = p
    BY <2>1, <2>4 DEF Turns
  <2>5. CASE /\ turns' = [turns EXCEPT ![Cardinality(Made) + 1] =
                  [state |-> "open", thread |-> active, owner |-> p, lease |-> Lease]]
           /\ main' = [main EXCEPT ![p] = [at |-> "asked", turn |-> Cardinality(Made) + 1,
                                           thread |-> active, heard |-> {}]]
    BY <2>2, <2>4, <2>5
  <2> QED
    BY <1>3, <2>3, <2>5, BeginTurnCases
<1>4. ASSUME NEW p \in Procs, Hear(p) PROVE OwnersKept
  BY <1>4 DEF Hear
<1>5. ASSUME NEW p \in Procs, EndRequest(p) PROVE OwnersKept
  <2>1. CASE UNCHANGED <<turns, missed>>
    BY <2>1
  <2>2. ASSUME NEW outcome \in {"completed", "failed"}, CanFinish(p, main[p].turn),
             missed' = [missed EXCEPT ![main[p].turn] = {}],
             turns' = [turns EXCEPT ![main[p].turn] = Ended(main[p].turn, outcome)]
      PROVE  OwnersKept
    BY <2>2 DEF Ended, CanFinish, OpenOf
  <2> QED
    BY <1>5, <2>1, <2>2, EndRequestCases
<1>6. ASSUME NEW p \in Procs, NewThread(p) PROVE OwnersKept
  BY <1>6 DEF NewThread
<1>7. ASSUME NEW p \in Procs, StartNewThread(p) PROVE OwnersKept
  BY <1>7 DEF StartNewThread
<1>8. ASSUME NEW p \in Procs, Clear(p) PROVE OwnersKept
  BY <1>8 DEF Clear, NoTurn, Made
<1>9. ASSUME NEW p \in Procs, WorkerPolls(p) PROVE OwnersKept
  BY <1>9, ZenonT(40) DEF WorkerPolls, Ended, Expired
<1>10. ASSUME NEW p \in Procs, NEW th \in Threads, Step(p, th) PROVE OwnersKept
  BY <1>10 DEF Step, HeartbeatOpenTurns
<1>11. ASSUME NEW p \in Procs, NEW th \in Threads, CallBeats(p, th) PROVE OwnersKept
  <2>1. CASE turns' = turns
    BY <1>11, <2>1 DEF CallBeats
  <2>2. CASE HeartbeatOpenTurns(p)
    BY <1>11, <2>2 DEF CallBeats, HeartbeatOpenTurns
  <2> QED
    BY <1>11, <2>1, <2>2 DEF CallBeats
<1>12. ASSUME NEW p \in Procs, NEW th \in Threads, CallReturns(p, th) PROVE OwnersKept
  BY <1>12 DEF CallReturns
<1>13. CASE Tick
  <2>1. ASSUME NEW t \in Turns
      PROVE  /\ turns'[t].state = turns[t].state /\ turns'[t].owner = turns[t].owner
             /\ missed[t] \subseteq missed'[t]
    BY <1>13, TickCases
  <2> QED
    BY <2>1
<1>14. CASE UNCHANGED vars
  BY <1>14 DEF vars, storeVars
<1>15. ASSUME NEW p \in Procs, FlushEnds(p) PROVE OwnersKept
  BY <1>15, FlushEndsCases DEF Unanswered
<1> QED
  BY <1>1, <1>2, <1>3, <1>4, <1>5, <1>6, <1>7, <1>8, <1>9, <1>10, <1>11, <1>12, <1>13, <1>14,
     <1>15 DEF Next

(* Requests keep their turns. *)
LEMMA RequestsStep == IInv /\ [Next]_vars => RequestsKept
<1> SUFFICES ASSUME IInv, [Next]_vars PROVE RequestsKept
  OBVIOUS
<1> USE TurnsAssumption DEF IInv, Types, RequestsKept, RequestKept, Unanswered, storeVars
<1>1. ASSUME NEW p \in Procs, Start(p) PROVE RequestsKept
  BY <1>1 DEF Start, Attended, AttendedBy, Idle
<1>2. ASSUME NEW p \in Procs, Stop(p) PROVE RequestsKept
  BY <1>2 DEF Stop, Attended, AttendedBy, Off, Idle
<1>3. ASSUME NEW p \in Procs, BeginTurn(p) PROVE RequestsKept
  <2>0. flushed' = flushed
    BY <1>3 DEF BeginTurn
  <2>1. CASE /\ main' = [main EXCEPT ![p].at = "asked"]
           /\ told \subseteq told'
    BY <1>3, <2>0, <2>1 DEF Attended, AttendedBy, Request
  <2>2. /\ Cardinality(Made) + 1 \in Turns
      /\ \A t \in Turns : turns[t].state # "none" <=> t < Cardinality(Made) + 1
    BY <1>3, NewTurn DEF BeginTurn
  <2>3. turns[Cardinality(Made) + 1].state = "none"
    BY <2>2 DEF Turns
  <2>4. main[p].turn = 0
    BY <1>3 DEF BeginTurn, Attended, AttendedBy
  <2>5. ASSUME main' = [main EXCEPT ![p] = [at |-> "asked", turn |-> Cardinality(Made) + 1,
                                          thread |-> active, heard |-> {}]]
      PROVE  \A q \in Procs \ {p} : main'[q] = main[q] /\ AttendedBy(q)
    BY <2>5 DEF Attended
  <2>6. CASE /\ turns' = [turns EXCEPT ![Cardinality(Made) + 1] =
                  [state |-> "open", thread |-> active, owner |-> p, lease |-> Lease]]
           /\ main' = [main EXCEPT ![p] = [at |-> "asked", turn |-> Cardinality(Made) + 1,
                                           thread |-> active, heard |-> {}]]
           /\ told' = told
    BY <2>0, <2>2, <2>3, <2>4, <2>5, <2>6 DEF AttendedBy
  <2> QED
    BY <1>3, <2>1, <2>6, BeginTurnCases
<1>4. ASSUME NEW p \in Procs, Hear(p) PROVE RequestsKept
  BY <1>4 DEF Hear, Attended, AttendedBy, Request
<1>5. ASSUME NEW p \in Procs, EndRequest(p) PROVE RequestsKept
  <2>1. main' = [main EXCEPT ![p] = Idle] /\ flushed' = flushed
    BY <1>5 DEF EndRequest
  <2>2. ASSUME NEW q \in Procs \ {p} PROVE RequestKept(q)
    BY <2>1 DEF Attended, AttendedBy
  <2>3. main'[p].turn = 0
    BY <2>1 DEF Idle
  <2>4. ASSUME turns' = turns, told \subseteq told',
             main[p].turn # 0 => \E reason \in {main[p].turn, Database} : <<p, reason>> \in told'
      PROVE  RequestKept(p)
    BY <2>3, <2>4
  <2>5. ASSUME NEW outcome \in {"completed", "failed"}, CanFinish(p, main[p].turn), told' = told,
             turns' = [turns EXCEPT ![main[p].turn] = Ended(main[p].turn, outcome)]
      PROVE  RequestsKept
    BY <2>1, <2>2, <2>3, <2>5 DEF Ended, CanFinish, OpenOf, Row
  <2> QED
    BY <1>5, <2>1, <2>2, <2>4, <2>5, EndRequestCases
<1>6. ASSUME NEW p \in Procs, NewThread(p) PROVE RequestsKept
  BY <1>6 DEF NewThread, Attended, AttendedBy, Request
<1>7. ASSUME NEW p \in Procs, StartNewThread(p) PROVE RequestsKept
  BY <1>7 DEF StartNewThread, Attended, AttendedBy, Idle
<1>8. ASSUME NEW p \in Procs, Clear(p) PROVE RequestsKept
  BY <1>8 DEF Clear, Attended, AttendedBy
<1>9. ASSUME NEW p \in Procs, WorkerPolls(p) PROVE RequestsKept
  BY <1>9 DEF WorkerPolls, Attended, AttendedBy
<1>10. ASSUME NEW p \in Procs, NEW th \in Threads, Step(p, th) PROVE RequestsKept
  BY <1>10 DEF Step, Attended, AttendedBy
<1>11. ASSUME NEW p \in Procs, NEW th \in Threads, CallBeats(p, th) PROVE RequestsKept
  BY <1>11 DEF CallBeats, Attended, AttendedBy
<1>12. ASSUME NEW p \in Procs, NEW th \in Threads, CallReturns(p, th) PROVE RequestsKept
  BY <1>12 DEF CallReturns, Attended, AttendedBy
<1>13. CASE Tick
  BY <1>13 DEF Tick, Attended, AttendedBy
<1>14. CASE UNCHANGED vars
  BY <1>14 DEF vars, storeVars, Attended, AttendedBy
<1>15. ASSUME NEW p \in Procs, FlushEnds(p) PROVE RequestsKept
  <2>1. /\ main' = [main EXCEPT ![p].at = "archive"] /\ main[p].at = "new"
        /\ flushed \subseteq flushed' /\ told \subseteq told' /\ turns' = turns
    BY <1>15, FlushEndsCases
  <2>2. \A q \in Procs : main'[q].turn = main[q].turn /\ AttendedBy(q)
    BY <2>1 DEF Attended
  <2> QED
    BY <2>1, <2>2 DEF AttendedBy
<1> QED
  BY <1>1, <1>2, <1>3, <1>4, <1>5, <1>6, <1>7, <1>8, <1>9, <1>10, <1>11, <1>12, <1>13, <1>14,
     <1>15 DEF Next

(* With both, each request has its turn for itself, and what is left is told of. *)
LEMMA AttendedStep == IInv /\ [Next]_vars => Attended'
<1> SUFFICES ASSUME IInv, [Next]_vars, NEW p \in Procs PROVE AttendedBy(p)'
  BY DEF Attended
<1>1. OwnersKept /\ RequestKept(p)
  BY OwnersStep, RequestsStep DEF RequestsKept
<1>2. AttendedBy(p)
  BY DEF IInv, Attended
<1>3. CASE main'[p].turn = 0
  BY <1>1, <1>3 DEF AttendedBy, RequestKept
<1>4. CASE main'[p].turn # 0 /\ main'[p].turn = main[p].turn
  BY <1>1, <1>2, <1>4 DEF AttendedBy, RequestKept, OwnersKept
<1>5. CASE main'[p].turn \notin {0, main[p].turn}
  BY <1>1, <1>5 DEF AttendedBy, RequestKept
<1> QED
  BY <1>3, <1>4, <1>5

LEMMA ToldStep == IInv /\ [Next]_vars => Told'
<1> SUFFICES ASSUME IInv, [Next]_vars, NEW t \in Turns,
                    Unanswered(turns'[t]), "stopped" \notin missed'[t]
             PROVE  /\ turns'[t].owner \in Procs
                    /\ \/ \E p \in Procs : main'[p].turn = t
                       \/ \E reason \in {t, Database} : <<turns'[t].owner, reason>> \in told'
  BY DEF Told
<1>1. OwnersKept /\ RequestsKept
  BY OwnersStep, RequestsStep
<1>2. CASE turns[t].state = "none"
  BY <1>1, <1>2 DEF OwnersKept, Unanswered
<1>3. CASE turns[t].state # "none"
  <2>1. /\ Unanswered(turns[t]) /\ "stopped" \notin missed[t]
        /\ turns'[t].owner = turns[t].owner
    BY <1>1, <1>3 DEF OwnersKept
  <2>2. /\ turns[t].owner \in Procs
        /\ \/ \E p \in Procs : main[p].turn = t
           \/ \E reason \in {t, Database} : <<turns[t].owner, reason>> \in told
    BY <2>1 DEF IInv, Told
  <2>3. CASE \E reason \in {t, Database} : <<turns[t].owner, reason>> \in told
    BY <1>1, <2>1, <2>2, <2>3 DEF RequestsKept
  <2>4. ASSUME NEW p \in Procs, main[p].turn = t
        PROVE  \/ main'[p].turn = t
               \/ \E reason \in {t, Database} : <<turns'[t].owner, reason>> \in told'
    <3>1. turns[t].owner = p
      BY <2>1, <2>4 DEF IInv, Attended, AttendedBy, Turns
    <3>2. RequestKept(p)
      BY <1>1 DEF RequestsKept
    <3> QED
      BY <2>1, <2>4, <3>1, <3>2 DEF RequestKept, Turns
  <2> QED
    BY <2>1, <2>2, <2>3, <2>4
<1> QED
  BY <1>2, <1>3

(* What a process archives is what it has waited for. *)
LEMMA FlushedStep == IInv /\ [Next]_vars => Flushed'
<1> SUFFICES ASSUME IInv, [Next]_vars PROVE Flushed'
  OBVIOUS
<1>0. ASSUME NEW thread, Waited(thread) PROVE Waited(thread)'
  BY <1>0, RequestsStep DEF RequestsKept, Waited
<1> USE TurnsAssumption, <1>0 DEF IInv, Types, Flushed, ArchivedThreadsWereFlushed, Request, storeVars
<1>1. ASSUME NEW p \in Procs, Start(p) PROVE Flushed'
  BY <1>1 DEF Start, Idle
<1>2. ASSUME NEW p \in Procs, Stop(p) PROVE Flushed'
  BY <1>2 DEF Stop, Off, Idle
<1>3. ASSUME NEW p \in Procs, BeginTurn(p) PROVE Flushed'
  <2>1. \/ main' = [main EXCEPT ![p].at = "asked"]
        \/ main' = [main EXCEPT ![p] = [at |-> "asked", turn |-> Cardinality(Made) + 1,
                                       thread |-> active, heard |-> {}]]
    BY <1>3, BeginTurnCases
  <2>2. main'[p].at = "asked" /\ \A q \in Procs \ {p} : main'[q] = main[q]
    BY <2>1 DEF Request
  <2>3. UNCHANGED archived
    BY <1>3 DEF BeginTurn
  <2> QED
    BY <2>2, <2>3
<1>4. ASSUME NEW p \in Procs, Hear(p) PROVE Flushed'
  BY <1>4 DEF Hear
<1>5. ASSUME NEW p \in Procs, EndRequest(p) PROVE Flushed'
  BY <1>5 DEF EndRequest, Idle
<1>6. ASSUME NEW p \in Procs, NewThread(p) PROVE Flushed'
  BY <1>6 DEF NewThread
<1>7. ASSUME NEW p \in Procs, StartNewThread(p) PROVE Flushed'
  <2>1. archived' \subseteq archived \cup {main[p].thread}
    BY <1>7 DEF StartNewThread
  <2>2. Waited(main[p].thread) /\ main' = [main EXCEPT ![p] = Idle]
    BY <1>7 DEF StartNewThread
  <2>3. ArchivedThreadsWereFlushed'
    BY <2>1, <2>2
  <2> QED
    BY <2>2, <2>3 DEF Idle
<1>8. ASSUME NEW p \in Procs, Clear(p) PROVE Flushed'
  BY <1>8 DEF Clear
<1>9. ASSUME NEW p \in Procs, WorkerPolls(p) PROVE Flushed'
  BY <1>9 DEF WorkerPolls
<1>10. ASSUME NEW p \in Procs, NEW th \in Threads, Step(p, th) PROVE Flushed'
  BY <1>10 DEF Step
<1>11. ASSUME NEW p \in Procs, NEW th \in Threads, CallBeats(p, th) PROVE Flushed'
  BY <1>11 DEF CallBeats
<1>12. ASSUME NEW p \in Procs, NEW th \in Threads, CallReturns(p, th) PROVE Flushed'
  BY <1>12 DEF CallReturns
<1>13. CASE Tick
  BY <1>13 DEF Tick
<1>14. CASE UNCHANGED vars
  BY <1>14 DEF vars, storeVars
<1>15. ASSUME NEW p \in Procs, FlushEnds(p) PROVE Flushed'
  <2>1. archived' = archived
    BY <1>15, FlushEndsCases
  <2>2. main' = [main EXCEPT ![p].at = "archive"]
    BY <1>15, FlushEndsCases
  <2>3. ASSUME NEW q \in Procs \ {p} PROVE main'[q] = main[q]
    BY <2>2, <2>3
  <2>4. main'[p].thread = main[p].thread
    BY <2>2
  <2>5. \A thread : thread = main[p].thread => Waited(thread)'
    BY <1>15, FlushEndsCases
  <2>6. ASSUME NEW q \in Procs, main'[q].at = "archive", NEW thread, thread = main'[q].thread
        PROVE  Waited(thread)'
    <3>1. CASE q = p
      BY <2>4, <2>5, <2>6, <3>1
    <3>2. CASE q # p
      BY <2>3, <2>6, <3>2
    <3> QED
      BY <3>1, <3>2
  <2> QED
    BY <2>1, <2>6
<1> QED
  BY <1>1, <1>2, <1>3, <1>4, <1>5, <1>6, <1>7, <1>8, <1>9, <1>10, <1>11, <1>12, <1>13, <1>14,
     <1>15 DEF Next

(* Answers are kept. *)
LEMMA AnswersStep == IInv /\ [Next]_vars => AnswersKept
<1> SUFFICES ASSUME IInv, [Next]_vars PROVE AnswersKept
  OBVIOUS
<1> USE TurnsAssumption DEF IInv, Types, Row, AnswersKept, storeVars
<1>1. ASSUME NEW p \in Procs, Start(p) PROVE AnswersKept
  BY <1>1 DEF Start, RecoverStartup, Ended, Expired
<1>2. ASSUME NEW p \in Procs, Stop(p) PROVE AnswersKept
  BY <1>2 DEF Stop, OpenOf
<1>3. ASSUME NEW p \in Procs, BeginTurn(p) PROVE AnswersKept
  <2>1. /\ Cardinality(Made) + 1 \in Turns
      /\ \A t \in Turns : turns[t].state # "none" <=> t < Cardinality(Made) + 1
    BY <1>3, NewTurn DEF BeginTurn
  <2>2. CASE turns' = turns
    BY <2>2
  <2>3. CASE turns' = [turns EXCEPT ![Cardinality(Made) + 1] =
                [state |-> "open", thread |-> active, owner |-> p, lease |-> Lease]]
    BY <2>1, <2>3 DEF Turns
  <2> QED
    BY <1>3, <2>2, <2>3, BeginTurnCases
<1>4. ASSUME NEW p \in Procs, Hear(p) PROVE AnswersKept
  BY <1>4 DEF Hear
<1>5. ASSUME NEW p \in Procs, EndRequest(p) PROVE AnswersKept
  <2>1. CASE turns' = turns
    BY <2>1
  <2>2. ASSUME NEW outcome \in {"completed", "failed"}, CanFinish(p, main[p].turn),
             turns' = [turns EXCEPT ![main[p].turn] = Ended(main[p].turn, outcome)]
      PROVE  AnswersKept
    BY <2>2 DEF Ended, CanFinish, OpenOf
  <2> QED
    BY <1>5, <2>1, <2>2, EndRequestCases
<1>6. ASSUME NEW p \in Procs, NewThread(p) PROVE AnswersKept
  BY <1>6 DEF NewThread
<1>7. ASSUME NEW p \in Procs, StartNewThread(p) PROVE AnswersKept
  BY <1>7 DEF StartNewThread
<1>8. ASSUME NEW p \in Procs, Clear(p) PROVE AnswersKept
  BY <1>8 DEF Clear, NoTurn, Made
<1>9. ASSUME NEW p \in Procs, WorkerPolls(p) PROVE AnswersKept
  BY <1>9 DEF WorkerPolls, Ended, Expired, OpenOf
<1>10. ASSUME NEW p \in Procs, NEW th \in Threads, Step(p, th) PROVE AnswersKept
  BY <1>10 DEF Step, HeartbeatOpenTurns, OpenOf
<1>11. ASSUME NEW p \in Procs, NEW th \in Threads, CallBeats(p, th) PROVE AnswersKept
  <2>1. CASE turns' = turns
    BY <1>11, <2>1 DEF CallBeats
  <2>2. CASE HeartbeatOpenTurns(p)
    BY <1>11, <2>2 DEF CallBeats, HeartbeatOpenTurns, OpenOf
  <2> QED
    BY <1>11, <2>1, <2>2 DEF CallBeats
<1>12. ASSUME NEW p \in Procs, NEW th \in Threads, CallReturns(p, th) PROVE AnswersKept
  BY <1>12 DEF CallReturns
<1>13. CASE Tick
  BY <1>13, TickCases DEF Tick
<1>14. CASE UNCHANGED vars
  BY <1>14 DEF vars, storeVars
<1>15. ASSUME NEW p \in Procs, FlushEnds(p) PROVE AnswersKept
  BY <1>15, FlushEndsCases
<1> QED
  BY <1>1, <1>2, <1>3, <1>4, <1>5, <1>6, <1>7, <1>8, <1>9, <1>10, <1>11, <1>12, <1>13, <1>14,
     <1>15 DEF Next

(* A request hears once. *)
LEMMA HearingStep == IInv /\ [Next]_vars => HearingKept
<1> SUFFICES ASSUME IInv, [Next]_vars PROVE HearingKept
  OBVIOUS
<1> USE TurnsAssumption DEF IInv, Types, Request, HearingKept, storeVars
<1>1. ASSUME NEW p \in Procs, Start(p) PROVE HearingKept
  BY <1>1 DEF Start, Idle
<1>2. ASSUME NEW p \in Procs, Stop(p) PROVE HearingKept
  BY <1>2 DEF Stop, Off, Idle
<1>3. ASSUME NEW p \in Procs, BeginTurn(p) PROVE HearingKept
  <2>1. \/ main' = [main EXCEPT ![p].at = "asked"]
        \/ main' = [main EXCEPT ![p] = [at |-> "asked", turn |-> Cardinality(Made) + 1,
                                       thread |-> active, heard |-> {}]]
    BY <1>3, BeginTurnCases
  <2>2. main'[p].at = "asked" /\ \A q \in Procs \ {p} : main'[q] = main[q]
    BY <2>1 DEF Request
  <2> QED
    BY <2>2
<1>4. ASSUME NEW p \in Procs, Hear(p) PROVE HearingKept
  <2>1. HistoryOf(main[p].thread) \subseteq Answered(main[p].thread)
    BY  DEF HistoryOf
  <2>2. ASSUME main[p].turn # 0
      PROVE  main' = [main EXCEPT ![p].at = "run", ![p].heard = HistoryOf(main[p].thread)]
    BY <1>4, <2>2 DEF Hear
  <2>3. \A q \in Procs \ {p} : main'[q] = main[q]
    BY <1>4 DEF Hear
  <2>4. main'[p].turn = main[p].turn
    BY <1>4 DEF Hear
  <2> QED
    BY <2>1, <2>2, <2>3, <2>4
<1>5. ASSUME NEW p \in Procs, EndRequest(p) PROVE HearingKept
  BY <1>5 DEF EndRequest, Idle
<1>6. ASSUME NEW p \in Procs, NewThread(p) PROVE HearingKept
  BY <1>6 DEF NewThread
<1>7. ASSUME NEW p \in Procs, StartNewThread(p) PROVE HearingKept
  BY <1>7 DEF StartNewThread, Idle
<1>8. ASSUME NEW p \in Procs, Clear(p) PROVE HearingKept
  BY <1>8 DEF Clear
<1>9. ASSUME NEW p \in Procs, WorkerPolls(p) PROVE HearingKept
  BY <1>9 DEF WorkerPolls
<1>10. ASSUME NEW p \in Procs, NEW th \in Threads, Step(p, th) PROVE HearingKept
  BY <1>10 DEF Step
<1>11. ASSUME NEW p \in Procs, NEW th \in Threads, CallBeats(p, th) PROVE HearingKept
  BY <1>11 DEF CallBeats
<1>12. ASSUME NEW p \in Procs, NEW th \in Threads, CallReturns(p, th) PROVE HearingKept
  BY <1>12 DEF CallReturns
<1>13. CASE Tick
  BY <1>13 DEF Tick
<1>14. CASE UNCHANGED vars
  BY <1>14 DEF vars, storeVars
<1>15. ASSUME NEW p \in Procs, FlushEnds(p) PROVE HearingKept
  BY <1>15, FlushEndsCases
<1> QED
  BY <1>1, <1>2, <1>3, <1>4, <1>5, <1>6, <1>7, <1>8, <1>9, <1>10, <1>11, <1>12, <1>13, <1>14,
     <1>15 DEF Next

(* With both, what was heard stays in the thread it was heard from. *)
LEMMA HeardStep == IInv /\ [Next]_vars => Heard'
<1> SUFFICES ASSUME IInv, [Next]_vars, NEW p \in Procs,
                    main'[p].at = "run", main'[p].turn # 0, NEW t \in main'[p].heard
             PROVE  \/ turns'[t].state = "gone"
                    \/ turns'[t].state = "completed" /\ turns'[t].thread = main'[p].thread
  BY DEF Heard
<1>1. AnswersKept /\ HearingKept
  BY AnswersStep, HearingStep
<1>2. main'[p].thread = main[p].thread /\ main[p].turn # 0
  BY <1>1 DEF HearingKept
<1>3. t \in Turns
  BY TypesStep DEF Types, Request
<1>4. \/ turns[t].state = "gone"
      \/ turns[t].state = "completed" /\ turns[t].thread = main[p].thread
  <2>1. CASE main[p].at = "run" /\ main'[p].heard = main[p].heard
    BY <1>2, <2>1 DEF IInv, Heard
  <2>2. CASE main'[p].heard \subseteq Answered(main[p].thread)
    BY <2>2 DEF Answered
  <2> QED
    BY <1>1, <2>1, <2>2 DEF HearingKept
<1> QED
  BY <1>1, <1>2, <1>3, <1>4 DEF AnswersKept

-----------------------------------------------------------------------------
(* The theorems.                                                           *)

(* Every process is off and no turn has been: the invariant holds.         *)
LEMMA InitInv == Init => IInv
<1> SUFFICES ASSUME Init PROVE IInv
  OBVIOUS
<1> USE TurnsAssumption DEF Init
<1>1. Types
  BY DEF Types, Row, Request, NoTurn, Off, Idle
<1>2. Numbered
  <2>1. \A t \in Turns : turns[t].state # "none" <=> t <= 0
    BY DEF NoTurn, Turns
  <2>2. 0 \in 0..MaxTurns
    OBVIOUS
  <2> QED
    BY <2>1, <2>2 DEF Numbered
<1>3. WorkerRuns /\ Attended /\ Flushed /\ Heard
  BY DEF WorkerRuns, Running, Attended, AttendedBy, Flushed, ArchivedThreadsWereFlushed, Heard, Off, Idle
<1>4. Renewed /\ LiveTurnIsKept /\ Told
  BY DEF Renewed, LiveTurnIsKept, Told, Unanswered, NoTurn
<1> QED
  BY <1>1, <1>2, <1>3, <1>4 DEF IInv

LEMMA StepInv == IInv /\ [Next]_vars => IInv'
<1> SUFFICES ASSUME IInv, [Next]_vars PROVE IInv'
  OBVIOUS
<1>1. Types' /\ Numbered' /\ WorkerRuns' /\ Renewed' /\ LiveTurnIsKept'
  BY TypesStep, NumberedStep, WorkerRunsStep, RenewedStep, LiveTurnStep
<1>2. Attended' /\ Told' /\ Flushed' /\ Heard'
  BY AttendedStep, ToldStep, FlushedStep, HeardStep
<1> QED
  BY <1>1, <1>2 DEF IInv

(* The invariant holds in every state of the conversation.                 *)
THEOREM Invariance == Spec => []IInv
<1>1. Init => IInv
  BY InitInv
<1>2. IInv /\ [Next]_vars => IInv'
  BY StepInv
<1> QED
  BY <1>1, <1>2, PTL DEF Spec

(* Only the turn of a process that stopped, stalled or was fenced in a     *)
(* call is taken for the remains of a crash (recover_startup): in every    *)
(* other case one of its threads renews it in time, whichever of them has  *)
(* _process_lock and however long a provider takes to answer.              *)
THEOREM LiveTurnsAreKept == Spec => []LiveTurnIsKept
<1>1. IInv => LiveTurnIsKept
  BY DEF IInv
<1> QED
  BY <1>1, Invariance, PTL

(* A turn that a request left behind without its answer has a notice,      *)
(* about it or about the database, to the user of the process that began   *)
(* it (_finish_turn of cli/workflows/memory_turn.py), also when a clear    *)
(* has deleted the turn meanwhile.                                         *)
THEOREM AnswersAreKeptOrTold == Spec => []AnswerKeptOrTold
<1>1. IInv => AnswerKeptOrTold
  BY DEF IInv, Told, AnswerKeptOrTold
<1> QED
  BY <1>1, Invariance, PTL

(* A thread is archived (start_new_thread) only after a flush of it was    *)
(* over, or a user was told that its flush goes on or failed (handle_new,  *)
(* flush_thread_watermark): never one that another process has started     *)
(* since.                                                                  *)
THEOREM ArchivedThreadsAreFlushed == Spec => []ArchivedThreadsWereFlushed
<1>1. IInv => ArchivedThreadsWereFlushed
  BY DEF IInv, Flushed, ArchivedThreadsWereFlushed
<1> QED
  BY <1>1, Invariance, PTL

(* A request never hears the answers of a thread other than the one that   *)
(* its own answer goes to (bind_memory_thread), however many new threads   *)
(* other processes start while it runs.                                    *)
THEOREM RequestsStayInTheirThread == Spec => []RequestStaysInItsThread
<1>1. IInv => RequestStaysInItsThread
  BY DEF IInv, Heard, RequestStaysInItsThread
<1> QED
  BY <1>1, Invariance, PTL

=============================================================================
