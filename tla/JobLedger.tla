------------------------------ MODULE JobLedger ------------------------------
(***************************************************************************)
(* What the memory job queue promises, without leases, owners, clocks and  *)
(* provider calls: a job is attempted a bounded number of times and ends   *)
(* once; the extractions of a thread are attempted and committed from the  *)
(* front of its queue; a committed extraction has one consolidation job,   *)
(* issued with it.  MemoryJobs implements it.                              *)
(***************************************************************************)
EXTENDS Integers

CONSTANTS MaxAttempts, MaxThreads

VARIABLES
  ledger,  \* the jobs by id: their thread (0: a consolidation), the attempts
           \* made so far, and whether they are open, committed or dropped
  issued   \* the last id

Job(thread, runs, state) == [thread |-> thread, runs |-> runs, state |-> state]

Open == {i \in DOMAIN ledger : ledger[i].state = "open"}

Ahead(i, S) == {j \in S : ledger[j].thread = ledger[i].thread /\ j < i}

(* Jobs that can be worked on together when those in S are open: one       *)
(* consolidation, or the front of a queue.                                 *)
IsBatch(B, S) ==
  /\ B # {} /\ B \subseteq S
  /\ \A i, j \in B : ledger[i].thread = ledger[j].thread /\ ledger[i].runs = ledger[j].runs
  /\ \A i \in B : IF ledger[i].thread = 0 THEN B = {i} ELSE Ahead(i, S) \subseteq B

Init ==
  /\ ledger = [i \in {} |-> 0]
  /\ issued = 0

Arrive(t) ==
  /\ issued' = issued + 1
  /\ ledger' = [i \in DOMAIN ledger \cup {issued'} |->
                  IF i = issued' THEN Job(t, 0, "open") ELSE ledger[i]]

After(dropped, started) ==
  [i \in DOMAIN ledger |->
     IF i \in dropped THEN Job(ledger[i].thread, 0, "dropped")
     ELSE IF i \in started THEN Job(ledger[i].thread, ledger[i].runs + 1, "open")
     ELSE ledger[i]]

(* Attempted jobs may end without a result; then a batch may be started.   *)
Attempt ==
  \E dropped, started \in SUBSET Open :
    /\ \A i \in dropped : ledger[i].runs > 0
    /\ started # {} => IsBatch(started, Open \ dropped)
    /\ \A i \in started : ledger[i].runs < MaxAttempts
    /\ ledger' = After(dropped, started)
    /\ UNCHANGED issued

(* The results of an attempted batch are committed.                        *)
Commit ==
  \E batch \in SUBSET Open :
    /\ IsBatch(batch, Open)
    /\ \A i \in batch : ledger[i].runs > 0
    /\ LET spawns == \A i \in batch : ledger[i].thread > 0
       IN  /\ issued' = IF spawns THEN issued + 1 ELSE issued
           /\ ledger' = [i \in DOMAIN ledger \cup (IF spawns THEN {issued'} ELSE {}) |->
                           IF i \notin DOMAIN ledger THEN Job(0, 0, "open")
                           ELSE IF i \in batch THEN Job(ledger[i].thread, 0, "committed")
                           ELSE ledger[i]]

Clear ==
  /\ ledger' = [i \in {} |-> 0]
  /\ UNCHANGED issued

Next == (\E t \in 1..MaxThreads : Arrive(t)) \/ Attempt \/ Commit \/ Clear

vars == <<ledger, issued>>

Spec == Init /\ [][Next]_vars
=============================================================================
