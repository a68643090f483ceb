------------------------- MODULE MemoryRecallProofs -------------------------
(***************************************************************************)
(* The safety properties of MemoryItems hold for any number of threads,    *)
(* subjects, files, candidates, items and consolidation jobs.              *)
(*                                                                         *)
(* What they need beside the types is that every candidate belongs to one  *)
(* job, and no item draws on it before that job is done (JobsApart,        *)
(* Drawn), that of each line the active item is the last (Lines), and what *)
(* a transaction may have made of the items that it began with (UnderWay). *)
(*                                                                         *)
(* A request that recalls leaves the items alone, so that all this holds   *)
(* of MemoryRecall as well; and its map, its answers and what is left of   *)
(* its pool add up, whatever becomes of the items meanwhile (PoolInv).     *)
(***************************************************************************)
EXTENDS MemoryRecall, DataLemmas

-----------------------------------------------------------------------------
(* The inductive invariant.                                                *)

Candidate ==
  [scope : {Project} \cup Threads, paths : Paths, origin : Origins, mode : Modes,
   cited : {{}} \cup Citations,
   status : {"pending", "consolidated", "rejected", "suppressed"}]

Job == [cands : SUBSET Nat, at : {"waiting", "asked", "done"}, offered : SUBSET Nat]

Item ==
  [line : Nat, scope : {Project} \cup Threads, subject : Subjects, paths : Paths,
   origin : Origins, mode : Modes, status : {"active", "superseded", "forgotten"},
   from : SUBSET Nat]

Types ==
  /\ cands \in Seq(Candidate)
  /\ jobs \in Seq(Job)
  /\ items \in Seq(Item)
  /\ txn \in [job : Nat, left : SUBSET Nat, items : Seq(Item)]

(* Every candidate is of one job.                                          *)
JobsApart ==
  \A j \in DOMAIN jobs :
    /\ jobs[j].cands \subseteq DOMAIN cands
    /\ \A l \in DOMAIN jobs \ {j} : jobs[j].cands \cap jobs[l].cands = {}

(* No item draws on a candidate whose job is not done.                     *)
Drawn ==
  \A i \in DOMAIN items :
    /\ items[i].from \subseteq DOMAIN cands
    /\ \A j \in DOMAIN jobs : jobs[j].at # "done" => items[i].from \cap jobs[j].cands = {}

(* A line begins with the item that has its number, and ends with the      *)
(* active one, if there is one.                                            *)
Lines(its) ==
  /\ \A i \in DOMAIN its : its[i].line \in 1..i
  /\ \A i \in DOMAIN its, m \in Active(its) : its[i].line = its[m].line => i <= m

Singles(its) ==
  \A i, k \in Active(its) : Identity(its[i]) = Identity(its[k]) => i = k

(* What a transaction has come to: the items that it began with, but for   *)
(* the status of some that were active, and new ones from its candidates,  *)
(* of lines of their own or of one that was active.                        *)
Continues(its, new, from) ==
  /\ Len(its) <= Len(new)
  /\ \A i \in DOMAIN its :
       /\ new[i].line = its[i].line /\ new[i].from = its[i].from
       /\ new[i].subject = its[i].subject
       /\ its[i].status = "forgotten" => new[i].status = "forgotten"
  /\ \A k \in DOMAIN new \ DOMAIN its :
       /\ new[k].from \subseteq from
       /\ new[k].line > Len(its) \/ \E m \in Active(its) : new[k].line = its[m].line

UnderWay ==
  txn # NoTxn =>
    /\ txn.job \in DOMAIN jobs /\ jobs[txn.job].at = "asked"
    /\ txn.left \subseteq jobs[txn.job].cands
    /\ Lines(txn.items) /\ Singles(txn.items)
    /\ Continues(items, txn.items, jobs[txn.job].cands)

Repeated ==
  \A c \in DOMAIN cands : cands[c].origin = "inferred" => SupportedRepetition(cands[c].cited)

IInv ==
  /\ Types /\ JobsApart /\ Drawn /\ Repeated
  /\ Lines(items) /\ Singles(items)
  /\ UnderWay

-----------------------------------------------------------------------------
(* What the operators on the rows change, and what they leave.            *)

(* An item more at the end.                                                *)
LEMMA Appended ==
  ASSUME NEW S, NEW its \in Seq(S), NEW item \in S
  PROVE  /\ Append(its, item) \in Seq(S)
         /\ DOMAIN Append(its, item) = DOMAIN its \cup {Len(its) + 1}
         /\ Len(Append(its, item)) = Len(its) + 1
         /\ \A i \in DOMAIN its : Append(its, item)[i] = its[i]
         /\ Append(its, item)[Len(its) + 1] = item
  OBVIOUS

(* A sequence whose elements change, each of them by itself.               *)
LEMMA Mapped ==
  ASSUME NEW S, NEW s \in Seq(S), NEW new, new \in [DOMAIN s -> S]
  PROVE  new \in Seq(S) /\ DOMAIN new = DOMAIN s /\ Len(new) = Len(s)
  OBVIOUS

(* The status of an item changes: nothing else of it does.                 *)
LEMMA StatusChanged ==
  ASSUME NEW its \in Seq(Item), NEW i \in DOMAIN its,
         NEW status \in {"active", "superseded", "forgotten"}
  PROVE  LET new == [its EXCEPT ![i].status = status] IN
         /\ new \in Seq(Item) /\ DOMAIN new = DOMAIN its /\ Len(new) = Len(its)
         /\ \A k \in DOMAIN its :
              /\ new[k].line = its[k].line /\ new[k].from = its[k].from
              /\ new[k].scope = its[k].scope /\ new[k].paths = its[k].paths
              /\ new[k].subject = its[k].subject
              /\ new[k].status = IF k = i THEN status ELSE its[k].status
<1> DEFINE new == [its EXCEPT ![i].status = status]
<1>1. \A row \in Item : [row EXCEPT !.status = status] \in Item
  BY DEF Item
<1>2. new \in [DOMAIN its -> Item]
  BY <1>1
<1>3. new \in Seq(Item) /\ DOMAIN new = DOMAIN its /\ Len(new) = Len(its)
  BY <1>2, Mapped
<1>4. \A k \in DOMAIN its : its[k] \in Item
  OBVIOUS
<1> QED
  BY <1>3, <1>4 DEF Item

(* A job goes on: its candidates stay.                                     *)
LEMMA JobChanged ==
  ASSUME jobs \in Seq(Job), NEW j \in DOMAIN jobs,
         NEW step \in {"waiting", "asked", "done"}, NEW offered \in SUBSET Nat,
         jobs' = [jobs EXCEPT ![j].at = step, ![j].offered = offered]
  PROVE  /\ jobs' \in Seq(Job) /\ DOMAIN jobs' = DOMAIN jobs
         /\ \A l \in DOMAIN jobs :
              /\ jobs'[l].cands = jobs[l].cands
              /\ jobs'[l].at = IF l = j THEN step ELSE jobs[l].at
<1> DEFINE moved == [jobs EXCEPT ![j].at = step]
           row == [jobs[j] EXCEPT !.at = step, !.offered = offered]
<1>1. jobs[j] \in Job /\ jobs \in [DOMAIN jobs -> Job]
  OBVIOUS
<1>2. row \in Job /\ row.at = step /\ row.cands = jobs[j].cands
  BY <1>1 DEF Job
<1>3. moved = [jobs EXCEPT ![j] = [jobs[j] EXCEPT !.at = step]]
  BY <1>1
<1>4. jobs' = [moved EXCEPT ![j] = [moved[j] EXCEPT !.offered = offered]]
  BY <1>1
<1> HIDE DEF moved
<1>5. jobs' = [jobs EXCEPT ![j] = row]
  BY ONLY <1>1, <1>3, <1>4, j \in DOMAIN jobs
<1> HIDE DEF row
<1>6. jobs' \in [DOMAIN jobs -> Job]
  BY ONLY <1>1, <1>2, <1>5
<1>7. jobs' \in Seq(Job) /\ DOMAIN jobs' = DOMAIN jobs
  BY <1>6, Mapped
<1> QED
  BY ONLY <1>1, <1>2, <1>5, <1>7

LEMMA GivenBack ==
  ASSUME jobs \in Seq(Job), NEW j \in DOMAIN jobs, NEW step \in {"waiting", "done"},
         jobs' = [jobs EXCEPT ![j].at = step, ![j].offered = {}]
  PROVE  /\ jobs' \in Seq(Job) /\ DOMAIN jobs' = DOMAIN jobs
         /\ \A l \in DOMAIN jobs :
              /\ jobs'[l].cands = jobs[l].cands
              /\ jobs'[l].at = IF l = j THEN step ELSE jobs[l].at
<1>1. {} \in SUBSET Nat /\ step \in {"waiting", "asked", "done"}
  OBVIOUS
<1> QED
  BY <1>1, JobChanged, ZenonT(40)

(* The status of candidates changes: nothing else of them does.            *)
LEMMA CandidatesMarked ==
  ASSUME cands \in Seq(Candidate),
         NEW status \in [DOMAIN cands -> {"pending", "consolidated", "rejected", "suppressed"}],
         NEW new, new = [c \in DOMAIN cands |-> [cands[c] EXCEPT !.status = status[c]]]
  PROVE  /\ new \in Seq(Candidate) /\ DOMAIN new = DOMAIN cands
         /\ \A c \in DOMAIN cands :
              new[c].origin = cands[c].origin /\ new[c].cited = cands[c].cited
<1>1. \A c \in DOMAIN cands : cands[c] \in Candidate
  OBVIOUS
<1>2. \A c \in DOMAIN cands : [cands[c] EXCEPT !.status = status[c]] \in Candidate
  BY <1>1 DEF Candidate
<1>3. new \in [DOMAIN cands -> Candidate]
  BY <1>2
<1>4. new \in Seq(Candidate) /\ DOMAIN new = DOMAIN cands
  BY <1>3, Mapped
<1> QED
  BY <1>1, <1>4 DEF Candidate

LEMMA Suppressed ==
  ASSUME cands \in Seq(Candidate), NEW S, Suppress(S)
  PROVE  /\ cands' \in Seq(Candidate) /\ DOMAIN cands' = DOMAIN cands
         /\ \A c \in DOMAIN cands :
              cands'[c].origin = cands[c].origin /\ cands'[c].cited = cands[c].cited
<1> DEFINE status == [c \in DOMAIN cands |-> IF c \in S THEN "suppressed" ELSE cands[c].status]
<1>1. \A c \in DOMAIN cands : cands[c] \in Candidate
  OBVIOUS
<1>2. status \in [DOMAIN cands -> {"pending", "consolidated", "rejected", "suppressed"}]
  BY <1>1 DEF Candidate
<1>3. \A c \in DOMAIN cands : [cands[c] EXCEPT !.status = cands[c].status] = cands[c]
  BY <1>1 DEF Candidate
<1>4. cands' = [c \in DOMAIN cands |-> [cands[c] EXCEPT !.status = status[c]]]
  BY <1>3 DEF Suppress
<1> HIDE DEF status
<1> QED
  BY <1>2, <1>4, CandidatesMarked

LEMMA Committed ==
  ASSUME cands \in Seq(Candidate), Commit
  PROVE  /\ cands' \in Seq(Candidate) /\ DOMAIN cands' = DOMAIN cands
         /\ \A c \in DOMAIN cands :
              cands'[c].origin = cands[c].origin /\ cands'[c].cited = cands[c].cited
<1> DEFINE status == [c \in DOMAIN cands |->
                        IF c \notin jobs[txn.job].cands THEN cands[c].status
                        ELSE IF \E i \in DOMAIN txn.items : c \in txn.items[i].from
                             THEN "consolidated" ELSE "rejected"]
<1>1. \A c \in DOMAIN cands : cands[c] \in Candidate
  OBVIOUS
<1>2. status \in [DOMAIN cands -> {"pending", "consolidated", "rejected", "suppressed"}]
  BY <1>1 DEF Candidate
<1>3. \A c \in DOMAIN cands : [cands[c] EXCEPT !.status = cands[c].status] = cands[c]
  BY <1>1 DEF Candidate
<1>4. cands' = [c \in DOMAIN cands |-> [cands[c] EXCEPT !.status = status[c]]]
  BY <1>3 DEF Commit
<1> HIDE DEF status
<1> QED
  BY <1>2, <1>4, CandidatesMarked, ZenonT(40)

(* Candidates and their job are added at the end.                          *)
LEMMA Added ==
  ASSUME Types, NEW thread \in Threads, CompleteExtraction(thread)
  PROVE  \E n \in {1, 2} : \E new \in [1..n -> Extracted(thread)] :
           /\ cands' \in Seq(Candidate) /\ DOMAIN cands' = 1..(Len(cands) + n)
           /\ \A c \in DOMAIN cands : cands'[c] = cands[c]
           /\ \A c \in 1..n : cands'[Len(cands) + c] = new[c]
           /\ jobs' \in Seq(Job) /\ DOMAIN jobs' = DOMAIN jobs \cup {Len(jobs) + 1}
           /\ \A j \in DOMAIN jobs : jobs'[j] = jobs[j]
           /\ jobs'[Len(jobs) + 1].cands = (Len(cands) + 1)..(Len(cands) + n)
<1> DEFINE Outcome(n, new) ==
             /\ cands' = cands \o new
             /\ jobs' = Append(jobs, [cands |-> (Len(cands) + 1)..(Len(cands) + n),
                                      at |-> "waiting", offered |-> {}])
<1>a. PICK n \in 1..2 : \E new \in [1..n -> Extracted(thread)] : Outcome(n, new)
  BY DEF CompleteExtraction
<1>1. PICK new \in [1..n -> Extracted(thread)] : Outcome(n, new)
  BY <1>a
<1>2. new \in Seq(Candidate) /\ Len(new) = n /\ DOMAIN new = 1..n
  <2>1. Extracted(thread) \subseteq Candidate
    BY DEF Extracted, Candidate
  <2> QED
    BY <2>1
<1>3. /\ cands' \in Seq(Candidate) /\ DOMAIN cands' = 1..(Len(cands) + n)
      /\ \A c \in DOMAIN cands : cands'[c] = cands[c]
      /\ \A c \in 1..n : cands'[Len(cands) + c] = new[c]
  BY <1>1, <1>2, ConcatProperties DEF Types
<1> DEFINE job == [cands |-> (Len(cands) + 1)..(Len(cands) + n), at |-> "waiting", offered |-> {}]
<1>4. job \in Job
  BY DEF Job, Types
<1>5. /\ jobs' \in Seq(Job) /\ DOMAIN jobs' = DOMAIN jobs \cup {Len(jobs) + 1}
      /\ \A j \in DOMAIN jobs : jobs'[j] = jobs[j]
      /\ jobs'[Len(jobs) + 1] = job
  BY <1>1, <1>4, Appended DEF Types
<1>6. job.cands = (Len(cands) + 1)..(Len(cands) + n)
  OBVIOUS
<1>7. n \in {1, 2}
  OBVIOUS
<1> HIDE DEF job
<1> QED
  BY <1>3, <1>5, <1>6, <1>7

-----------------------------------------------------------------------------
(* One operation of a consolidation.                                       *)

Transaction == [job : Nat, left : SUBSET Nat, items : Seq(Item)]

(* The item that is made of candidates of the transaction.                 *)
LEMMA MadeItem ==
  ASSUME IInv, txn # NoTxn, NEW S \in SUBSET txn.left, NEW c \in S,
         NEW subject \in Subjects, NEW line \in Nat
  PROVE  /\ Made(S, c, subject, line) \in Item
         /\ Made(S, c, subject, line).line = line
         /\ Made(S, c, subject, line).from = S
         /\ Made(S, c, subject, line).status = "active"
<1>1. c \in DOMAIN cands /\ S \subseteq Nat
  BY DEF IInv, UnderWay, JobsApart, Types
<1>2. cands[c] \in Candidate
  BY <1>1 DEF IInv, Types
<1> QED
  BY <1>1, <1>2 DEF Made, Item, Candidate

LEMMA CreateEffect ==
  ASSUME IInv, txn # NoTxn, NEW S \in SUBSET txn.left, NEW c \in S,
         NEW subject \in Subjects, Create(S, c, subject)
  PROVE  \E item \in Item :
           /\ item.status = "active" /\ item.from = S
           /\ item.line = Len(txn.items) + 1
           /\ \A k \in Active(txn.items) : Identity(txn.items[k]) # Identity(item)
           /\ txn' \in Transaction /\ txn'.job = txn.job /\ txn'.left \subseteq txn.left
           /\ txn'.items = Append(txn.items, item)
           /\ UNCHANGED <<cands, jobs, items>>
<1> DEFINE line == Len(txn.items) + 1
           item == Made(S, c, subject, line)
<1>1. txn \in Transaction /\ line \in Nat
  BY DEF IInv, Types, Transaction
<1>2. /\ item \in Item
      /\ item.line = line /\ item.from = S /\ item.status = "active"
  BY <1>1, MadeItem
<1>3. Append(txn.items, item) \in Seq(Item)
  BY <1>1, <1>2, Appended DEF Transaction
<1>4. /\ ~IsTaken(item, {})
      /\ txn' = [txn EXCEPT !.left = @ \ S, !.items = Append(@, item)]
      /\ UNCHANGED <<cands, jobs, items>>
  BY DEF Create
<1> HIDE DEF item
<1>5. \A k \in Active(txn.items) : Identity(txn.items[k]) # Identity(item)
  BY <1>4 DEF IsTaken
<1>6. /\ txn' \in Transaction /\ txn'.job = txn.job /\ txn'.left \subseteq txn.left
      /\ txn'.items = Append(txn.items, item)
  BY <1>1, <1>3, <1>4 DEF Transaction
<1> QED
  BY <1>2, <1>4, <1>5, <1>6

LEMMA ReviseEffect ==
  ASSUME IInv, txn # NoTxn, NEW S \in SUBSET txn.left, NEW c \in S,
         NEW subject \in Subjects, NEW i \in DOMAIN txn.items, Revise(S, c, subject, i)
  PROVE  \E item \in Item :
           /\ item.status = "active" /\ item.from = S
           /\ item.line = txn.items[i].line
           /\ i \in Active(items) /\ i \in Active(txn.items)
           /\ \A k \in Active(txn.items) \ {i} : Identity(txn.items[k]) # Identity(item)
           /\ txn' \in Transaction /\ txn'.job = txn.job /\ txn'.left \subseteq txn.left
           /\ txn'.items = Append([txn.items EXCEPT ![i].status = "superseded"], item)
           /\ UNCHANGED <<cands, jobs, items>>
<1> DEFINE line == txn.items[i].line
           item == Made(S, c, subject, line)
           rest == [txn.items EXCEPT ![i].status = "superseded"]
<1>1. txn \in Transaction /\ line \in Nat
  <2>1. txn \in Transaction
    BY DEF IInv, Types, Transaction
  <2>2. txn.items[i] \in Item
    BY <2>1 DEF Transaction
  <2> QED
    BY <2>1, <2>2 DEF Item
<1>2. /\ item \in Item
      /\ item.line = line /\ item.from = S /\ item.status = "active"
  BY <1>1, MadeItem
<1>3. Append(rest, item) \in Seq(Item)
  <2>1. rest \in Seq(Item)
    BY <1>1, StatusChanged DEF Transaction
  <2> HIDE DEF rest, item
  <2> QED
    BY <2>1, <1>2, Appended
<1>4. /\ MayReplace(i, c) /\ ~IsTaken(item, {i})
      /\ txn' = [txn EXCEPT !.left = @ \ S, !.items = Append(rest, item)]
      /\ UNCHANGED <<cands, jobs, items>>
  BY <1>1 DEF Revise, Transaction
<1> HIDE DEF item, rest
<1>5. \A k \in Active(txn.items) \ {i} : Identity(txn.items[k]) # Identity(item)
  BY <1>4 DEF IsTaken
<1>6. /\ txn' \in Transaction /\ txn'.job = txn.job /\ txn'.left \subseteq txn.left
      /\ txn'.items = Append(rest, item)
  BY <1>1, <1>3, <1>4 DEF Transaction
<1>7. i \in Active(items) /\ i \in Active(txn.items)
  BY <1>4 DEF MayReplace
<1> QED
  BY <1>2, <1>4, <1>5, <1>6, <1>7 DEF rest

(* An item of a new line does not disturb the others.                      *)
LEMMA LineAdded ==
  ASSUME NEW its \in Seq(Item), Lines(its), Singles(its),
         NEW item \in Item, item.status = "active", item.line = Len(its) + 1,
         \A k \in Active(its) : Identity(its[k]) # Identity(item)
  PROVE  Lines(Append(its, item)) /\ Singles(Append(its, item))
<1> DEFINE new == Append(its, item)
<1>1. /\ DOMAIN new = DOMAIN its \cup {Len(its) + 1} /\ DOMAIN its = 1..Len(its)
      /\ \A i \in DOMAIN its : new[i] = its[i]
      /\ new[Len(its) + 1] = item
  BY Appended
<1> HIDE DEF new
<1>2. Active(new) = Active(its) \cup {Len(its) + 1}
  BY <1>1 DEF Active
<1>3. Lines(new)
  BY <1>1, <1>2 DEF Lines, Active
<1>4. Singles(new)
  BY <1>1, <1>2 DEF Singles, Active
<1> QED
  BY <1>3, <1>4 DEF new

(* Nor does one that takes the place of an active one.                     *)
LEMMA LineContinued ==
  ASSUME NEW its \in Seq(Item), Lines(its), Singles(its), NEW i \in Active(its),
         NEW item \in Item, item.status = "active", item.line = its[i].line,
         \A k \in Active(its) \ {i} : Identity(its[k]) # Identity(item)
  PROVE  LET new == Append([its EXCEPT ![i].status = "superseded"], item) IN
         Lines(new) /\ Singles(new)
<1> DEFINE rest == [its EXCEPT ![i].status = "superseded"]
<1>1. /\ rest \in Seq(Item) /\ DOMAIN rest = DOMAIN its /\ Len(rest) = Len(its)
      /\ \A k \in DOMAIN its :
           /\ rest[k].line = its[k].line
           /\ Identity(rest[k]) = Identity(its[k])
           /\ rest[k].status = IF k = i THEN "superseded" ELSE its[k].status
  <2>1. i \in DOMAIN its
    BY DEF Active
  <2>2. rest \in Seq(Item)
    BY <2>1, StatusChanged
  <2>3. /\ DOMAIN rest = DOMAIN its /\ Len(rest) = Len(its)
        /\ \A k \in DOMAIN its :
             /\ rest[k].line = its[k].line
             /\ rest[k].status = IF k = i THEN "superseded" ELSE its[k].status
    BY <2>1, StatusChanged
  <2>4. \A k \in DOMAIN its : /\ rest[k].scope = its[k].scope /\ rest[k].paths = its[k].paths
                              /\ rest[k].subject = its[k].subject
    BY <2>1, StatusChanged
  <2> QED
    BY <2>2, <2>3, <2>4 DEF Identity
<1> HIDE DEF rest
<1> DEFINE new == Append(rest, item)
<1>2. /\ DOMAIN new = DOMAIN its \cup {Len(its) + 1} /\ DOMAIN its = 1..Len(its)
      /\ \A k \in DOMAIN its : new[k] = rest[k]
      /\ new[Len(its) + 1] = item
  BY <1>1, Appended
<1> HIDE DEF new
<1>3. Active(new) = (Active(its) \ {i}) \cup {Len(its) + 1}
  BY <1>1, <1>2 DEF Active
<1>4. /\ \A k \in DOMAIN its : new[k].line = its[k].line /\ Identity(new[k]) = Identity(its[k])
      /\ i \in DOMAIN its
  BY <1>1, <1>2 DEF Active
<1>5. Lines(new)
  <2>1. \A k \in DOMAIN new : new[k].line \in 1..k
    BY <1>2, <1>4 DEF Lines
  <2>2. ASSUME NEW k \in DOMAIN new, NEW m \in Active(new), new[k].line = new[m].line
        PROVE  k <= m
    <3>1. CASE m = Len(its) + 1
      BY <1>2, <3>1
    <3>2. CASE m \in Active(its) \ {i} /\ k = Len(its) + 1
      <4>1. its[m].line = its[i].line
        BY <1>2, <1>4, <2>2, <3>2 DEF Active
      <4> QED
        BY <4>1, <3>2, <1>4 DEF Lines, Active
    <3>3. CASE m \in Active(its) \ {i} /\ k \in DOMAIN its
      BY <1>4, <2>2, <3>3 DEF Lines, Active
    <3> QED
      BY <1>2, <1>3, <3>1, <3>2, <3>3
  <2> QED
    BY <2>1, <2>2 DEF Lines
<1>6. Singles(new)
  <2> SUFFICES ASSUME NEW k \in Active(new), NEW m \in Active(new),
                      Identity(new[k]) = Identity(new[m])
               PROVE  k = m
    BY DEF Singles
  <2>1. CASE k \in Active(its) \ {i} /\ m \in Active(its) \ {i}
    BY <1>4, <2>1 DEF Singles, Active
  <2>2. CASE k = Len(its) + 1 /\ m \in Active(its) \ {i}
    BY <1>2, <1>4, <2>2 DEF Active
  <2>3. CASE m = Len(its) + 1 /\ k \in Active(its) \ {i}
    BY <1>2, <1>4, <2>3 DEF Active
  <2> QED
    BY <1>3, <2>1, <2>2, <2>3
<1> QED
  BY <1>5, <1>6 DEF new, rest

(* What the transaction has come to so far, and one item more.             *)
LEMMA ItemContinues ==
  ASSUME NEW its \in Seq(Item), NEW new \in Seq(Item), NEW from, Continues(its, new, from),
         NEW item \in Item, item.from \subseteq from,
         item.line > Len(its) \/ \E m \in Active(its) : item.line = its[m].line
  PROVE  Continues(its, Append(new, item), from)
<1> DEFINE longer == Append(new, item)
<1>1. /\ DOMAIN longer = DOMAIN new \cup {Len(new) + 1} /\ Len(longer) = Len(new) + 1
      /\ \A k \in DOMAIN new : longer[k] = new[k]
      /\ longer[Len(new) + 1] = item
  BY Appended
<1> HIDE DEF longer
<1>2. Len(its) <= Len(new) /\ DOMAIN its \subseteq DOMAIN new
  BY DEF Continues
<1>3. Len(its) <= Len(longer)
  BY <1>1, <1>2
<1>4. \A i \in DOMAIN its :
        /\ longer[i].line = its[i].line /\ longer[i].from = its[i].from
        /\ its[i].status = "forgotten" => longer[i].status = "forgotten"
  BY <1>1, <1>2 DEF Continues
<1>5. \A k \in DOMAIN longer \ DOMAIN its :
        /\ longer[k].from \subseteq from
        /\ longer[k].line > Len(its) \/ \E m \in Active(its) : longer[k].line = its[m].line
  BY <1>1 DEF Continues
<1> QED
  BY <1>3, <1>4, <1>5 DEF Continues, longer

LEMMA SupersededContinues ==
  ASSUME NEW its \in Seq(Item), NEW new \in Seq(Item), NEW from, Continues(its, new, from),
         NEW i \in Active(new)
  PROVE  Continues(its, [new EXCEPT ![i].status = "superseded"], from)
<1> DEFINE rest == [new EXCEPT ![i].status = "superseded"]
<1>1. /\ DOMAIN rest = DOMAIN new /\ Len(rest) = Len(new)
      /\ \A k \in DOMAIN new :
           /\ rest[k].line = new[k].line /\ rest[k].from = new[k].from
           /\ rest[k].status = IF k = i THEN "superseded" ELSE new[k].status
  <2>1. i \in DOMAIN new
    BY DEF Active
  <2> QED
    BY <2>1, StatusChanged
<1> HIDE DEF rest
<1>2. Len(its) <= Len(new) /\ DOMAIN its \subseteq DOMAIN new
  BY DEF Continues
<1> QED
  <2>1. \A k \in DOMAIN its :
          /\ rest[k].line = its[k].line /\ rest[k].from = its[k].from
          /\ its[k].status = "forgotten" => rest[k].status = "forgotten"
    BY <1>1, <1>2 DEF Continues, Active
  <2>2. \A k \in DOMAIN rest \ DOMAIN its :
          /\ rest[k].from \subseteq from
          /\ rest[k].line > Len(its) \/ \E m \in Active(its) : rest[k].line = its[m].line
    BY <1>1 DEF Continues
  <2> QED
    BY <1>1, <1>2, <2>1, <2>2 DEF Continues, rest

-----------------------------------------------------------------------------
(* Every step keeps the invariant.                                         *)

(* No step leaves the types. *)
LEMMA TypesStep == IInv /\ [ItemsNext]_itemVars => Types'
<1> SUFFICES ASSUME IInv, [ItemsNext]_itemVars PROVE Types'
  OBVIOUS
<1> USE ItemsAssumption DEF IInv
<1>1. ASSUME NEW thread \in Threads, CompleteExtraction(thread) PROVE Types'
  <2>1. cands' \in Seq(Candidate) /\ jobs' \in Seq(Job)
    BY <1>1, Added DEF Types
  <2> QED
    BY <1>1, <2>1 DEF CompleteExtraction, Types
<1>2. ASSUME NEW j \in DOMAIN jobs, Offer(j) PROVE Types'
  <2>1. PICK R \in Related(items, jobs[j].cands) :
        jobs' = [jobs EXCEPT ![j].at = "asked", ![j].offered = R]
    BY <1>2 DEF Offer
  <2>2. R \in SUBSET Nat
    BY DEF Related, Active, Types
  <2>3. jobs' \in Seq(Job)
    BY <2>1, <2>2, JobChanged DEF Types
  <2> QED
    BY <1>2, <2>3 DEF Offer, Types
<1>3. ASSUME NEW j \in DOMAIN jobs, Begin(j) PROVE Types'
  <2>1. jobs[j] \in Job /\ j \in Nat
    BY DEF Types
  <2>2. txn' \in [job : Nat, left : SUBSET Nat, items : Seq(Item)]
    BY <1>3, <2>1 DEF Begin, Types, Job
  <2> QED
    BY <1>3, <2>2 DEF Begin, Types
<1>4. ASSUME NEW j \in DOMAIN jobs, GiveBack(j) PROVE Types'
  <2>1. jobs' \in Seq(Job)
    BY <1>4, GivenBack DEF GiveBack, Types
  <2> QED
    BY <1>4, <2>1 DEF GiveBack, NoTxn, Types
<1>5. ASSUME NEW j \in DOMAIN jobs, GiveUp(j) PROVE Types'
  <2>1. jobs' \in Seq(Job) /\ cands' \in Seq(Candidate)
    BY <1>5, GivenBack, Suppressed DEF GiveUp, Types
  <2> QED
    BY <1>5, <2>1 DEF GiveUp, Types
<1>6. ASSUME txn # NoTxn, NEW S \in SUBSET txn.left, Reject(S) PROVE Types'
  BY <1>6 DEF Reject, Types
<1>7. ASSUME txn # NoTxn, NEW S \in SUBSET txn.left, NEW c \in S, NEW subject \in Subjects, Create(S, c, subject)
      PROVE  Types'
  <2>1. txn' \in Transaction /\ UNCHANGED <<cands, jobs, items>>
    BY <1>7, CreateEffect
  <2> QED
    BY <2>1 DEF Transaction, Types
<1>8. ASSUME txn # NoTxn, NEW S \in SUBSET txn.left, NEW c \in S, NEW subject \in Subjects,
             NEW i \in DOMAIN txn.items, Revise(S, c, subject, i)
      PROVE  Types'
  <2>1. txn' \in Transaction /\ UNCHANGED <<cands, jobs, items>>
    BY <1>8, ReviseEffect
  <2> QED
    BY <2>1 DEF Transaction, Types
<1>9. CASE Commit
  <2>1. cands' \in Seq(Candidate)
    BY <1>9, Committed DEF Types
  <2>2. jobs' \in Seq(Job)
    BY <1>9, GivenBack DEF Commit, UnderWay, Types
  <2> QED
    BY <1>9, <2>1, <2>2 DEF Commit, NoTxn, Types
<1>10. ASSUME NEW i \in DOMAIN items, Forget(i) PROVE Types'
  <2>1. items' \in Seq(Item)
    BY <1>10, StatusChanged DEF Forget, Types
  <2>2. cands' \in Seq(Candidate)
    BY <1>10, Suppressed DEF Forget, Types
  <2> QED
    BY <1>10, <2>1, <2>2 DEF Forget, Types
<1>11. CASE UNCHANGED itemVars
  BY <1>11 DEF itemVars, Types
<1> QED
  BY <1>1, <1>2, <1>3, <1>4, <1>5, <1>6, <1>7, <1>8, <1>9, <1>10, <1>11 DEF ItemsNext, Operate

(* Jobs are made with new candidates, and keep them. *)
LEMMA JobsApartStep == IInv /\ [ItemsNext]_itemVars => JobsApart'
<1> SUFFICES ASSUME IInv, [ItemsNext]_itemVars PROVE JobsApart'
  OBVIOUS
<1> USE ItemsAssumption DEF IInv
<1>1. ASSUME NEW thread \in Threads, CompleteExtraction(thread) PROVE JobsApart'
  <2>1. PICK n \in {1, 2} :
        /\ DOMAIN cands' = 1..(Len(cands) + n)
        /\ DOMAIN jobs' = DOMAIN jobs \cup {Len(jobs) + 1}
        /\ \A l \in DOMAIN jobs : jobs'[l] = jobs[l]
        /\ jobs'[Len(jobs) + 1].cands = (Len(cands) + 1)..(Len(cands) + n)
    BY <1>1, Added
  <2>2. /\ Len(cands) \in Nat /\ DOMAIN cands = 1..Len(cands)
      /\ Len(jobs) \in Nat /\ DOMAIN jobs = 1..Len(jobs)
    BY DEF Types
  <2>3. \A l \in DOMAIN jobs : jobs[l].cands \subseteq 1..Len(cands)
    BY <2>2 DEF JobsApart
  <2>4. \A l \in DOMAIN jobs : jobs[l].cands \cap ((Len(cands) + 1)..(Len(cands) + n)) = {}
    BY <2>2, <2>3
  <2>5. \A l \in DOMAIN jobs' : jobs'[l].cands \subseteq DOMAIN cands'
    BY <2>1, <2>2, <2>3, SMTT(30)
  <2>6. \A l, m \in DOMAIN jobs' : l # m => jobs'[l].cands \cap jobs'[m].cands = {}
    BY <2>1, <2>4 DEF JobsApart
  <2> QED
    BY <2>5, <2>6 DEF JobsApart
<1>2. ASSUME NEW j \in DOMAIN jobs, Offer(j) PROVE JobsApart'
  <2>1. PICK R \in Related(items, jobs[j].cands) :
        jobs' = [jobs EXCEPT ![j].at = "asked", ![j].offered = R]
    BY <1>2 DEF Offer
  <2>2. R \in SUBSET Nat
    BY DEF Related, Active, Types
  <2>3. /\ DOMAIN jobs' = DOMAIN jobs
      /\ \A l \in DOMAIN jobs : jobs'[l].cands = jobs[l].cands
    BY <2>1, <2>2, JobChanged DEF Types
  <2> QED
    BY <1>2, <2>3 DEF Offer, JobsApart
<1>3. ASSUME NEW j \in DOMAIN jobs, Begin(j) PROVE JobsApart'
  BY <1>3 DEF Begin, JobsApart
<1>4. ASSUME NEW j \in DOMAIN jobs, GiveBack(j) PROVE JobsApart'
  <2>1. /\ DOMAIN jobs' = DOMAIN jobs
      /\ \A l \in DOMAIN jobs : jobs'[l].cands = jobs[l].cands
    BY <1>4, GivenBack DEF GiveBack, Types
  <2> QED
    BY <1>4, <2>1 DEF GiveBack, JobsApart
<1>5. ASSUME NEW j \in DOMAIN jobs, GiveUp(j) PROVE JobsApart'
  <2>1. /\ DOMAIN jobs' = DOMAIN jobs
      /\ \A l \in DOMAIN jobs : jobs'[l].cands = jobs[l].cands
    BY <1>5, GivenBack DEF GiveUp, Types
  <2>2. DOMAIN cands' = DOMAIN cands
    BY <1>5, Suppressed DEF GiveUp, Types
  <2> QED
    BY <1>5, <2>1, <2>2 DEF GiveUp, JobsApart
<1>6. ASSUME txn # NoTxn, NEW S \in SUBSET txn.left, Reject(S) PROVE JobsApart'
  BY <1>6 DEF Reject, JobsApart
<1>7. ASSUME txn # NoTxn, NEW S \in SUBSET txn.left, NEW c \in S, NEW subject \in Subjects, Create(S, c, subject)
      PROVE  JobsApart'
  BY <1>7 DEF Create, JobsApart
<1>8. ASSUME txn # NoTxn, NEW S \in SUBSET txn.left, NEW c \in S, NEW subject \in Subjects,
             NEW i \in DOMAIN txn.items, Revise(S, c, subject, i)
      PROVE  JobsApart'
  BY <1>8 DEF Revise, JobsApart
<1>9. CASE Commit
  <2>1. /\ DOMAIN jobs' = DOMAIN jobs
      /\ \A l \in DOMAIN jobs : jobs'[l].cands = jobs[l].cands
    BY <1>9, GivenBack DEF Commit, Types, UnderWay
  <2>2. DOMAIN cands' = DOMAIN cands
    BY <1>9, Committed DEF Commit, Types
  <2> QED
    BY <1>9, <2>1, <2>2 DEF Commit, JobsApart
<1>10. ASSUME NEW i \in DOMAIN items, Forget(i) PROVE JobsApart'
  <2>1. DOMAIN cands' = DOMAIN cands
    BY <1>10, Suppressed DEF Forget, Types
  <2> QED
    BY <1>10, <2>1 DEF Forget, JobsApart
<1>11. CASE UNCHANGED itemVars
  BY <1>11 DEF itemVars, JobsApart
<1> QED
  BY <1>1, <1>2, <1>3, <1>4, <1>5, <1>6, <1>7, <1>8, <1>9, <1>10, <1>11 DEF ItemsNext, Operate

(* Items are made of the candidates of the job that ends with them. *)
LEMMA DrawnStep == IInv /\ [ItemsNext]_itemVars => Drawn'
<1> SUFFICES ASSUME IInv, [ItemsNext]_itemVars PROVE Drawn'
  OBVIOUS
<1> USE ItemsAssumption DEF IInv
<1>1. ASSUME NEW thread \in Threads, CompleteExtraction(thread) PROVE Drawn'
  <2>1. PICK n \in {1, 2} :
        /\ DOMAIN cands' = 1..(Len(cands) + n)
        /\ DOMAIN jobs' = DOMAIN jobs \cup {Len(jobs) + 1}
        /\ \A l \in DOMAIN jobs : jobs'[l] = jobs[l]
        /\ jobs'[Len(jobs) + 1].cands = (Len(cands) + 1)..(Len(cands) + n)
    BY <1>1, Added
  <2>2. Len(cands) \in Nat /\ DOMAIN cands = 1..Len(cands)
    BY DEF Types
  <2>3. \A i \in DOMAIN items : items[i].from \subseteq 1..Len(cands)
    BY <2>2 DEF Drawn
  <2>4. \A i \in DOMAIN items : items[i].from \cap ((Len(cands) + 1)..(Len(cands) + n)) = {}
    BY <2>2, <2>3
  <2>5. \A i \in DOMAIN items : items[i].from \subseteq DOMAIN cands'
    BY <2>1, <2>2, <2>3
  <2> QED
    BY <1>1, <2>1, <2>4, <2>5 DEF CompleteExtraction, Drawn
<1>2. ASSUME NEW j \in DOMAIN jobs, Offer(j) PROVE Drawn'
  <2>1. PICK R \in Related(items, jobs[j].cands) :
        jobs' = [jobs EXCEPT ![j].at = "asked", ![j].offered = R]
    BY <1>2 DEF Offer
  <2>2. R \in SUBSET Nat
    BY DEF Related, Active, Types
  <2>3. /\ DOMAIN jobs' = DOMAIN jobs
      /\ \A l \in DOMAIN jobs : /\ jobs'[l].cands = jobs[l].cands
                               /\ jobs'[l].at # "done" => jobs[l].at # "done"
    BY <1>2, <2>1, <2>2, JobChanged DEF Offer, Types
  <2> QED
    BY <1>2, <2>3 DEF Offer, Drawn
<1>3. ASSUME NEW j \in DOMAIN jobs, Begin(j) PROVE Drawn'
  BY <1>3 DEF Begin, Drawn
<1>4. ASSUME NEW j \in DOMAIN jobs, GiveBack(j) PROVE Drawn'
  <2>1. /\ DOMAIN jobs' = DOMAIN jobs
      /\ \A l \in DOMAIN jobs : /\ jobs'[l].cands = jobs[l].cands
                               /\ jobs'[l].at # "done" => jobs[l].at # "done"
    BY <1>4, GivenBack DEF GiveBack, Types
  <2> QED
    BY <1>4, <2>1 DEF GiveBack, Drawn
<1>5. ASSUME NEW j \in DOMAIN jobs, GiveUp(j) PROVE Drawn'
  <2>1. /\ DOMAIN jobs' = DOMAIN jobs
      /\ \A l \in DOMAIN jobs : /\ jobs'[l].cands = jobs[l].cands
                               /\ jobs'[l].at # "done" => jobs[l].at # "done"
    BY <1>5, GivenBack DEF GiveUp, Types
  <2>2. DOMAIN cands' = DOMAIN cands
    BY <1>5, Suppressed DEF GiveUp, Types
  <2> QED
    BY <1>5, <2>1, <2>2 DEF GiveUp, Drawn
<1>6. ASSUME txn # NoTxn, NEW S \in SUBSET txn.left, Reject(S) PROVE Drawn'
  BY <1>6 DEF Reject, Drawn
<1>7. ASSUME txn # NoTxn, NEW S \in SUBSET txn.left, NEW c \in S, NEW subject \in Subjects, Create(S, c, subject)
      PROVE  Drawn'
  BY <1>7 DEF Create, Drawn
<1>8. ASSUME txn # NoTxn, NEW S \in SUBSET txn.left, NEW c \in S, NEW subject \in Subjects,
             NEW i \in DOMAIN txn.items, Revise(S, c, subject, i)
      PROVE  Drawn'
  BY <1>8 DEF Revise, Drawn
<1>9. CASE Commit
  <2>1. /\ DOMAIN jobs' = DOMAIN jobs
      /\ \A l \in DOMAIN jobs : /\ jobs'[l].cands = jobs[l].cands
                               /\ jobs'[l].at = IF l = txn.job THEN "done" ELSE jobs[l].at
    BY <1>9, GivenBack DEF Commit, UnderWay, Types
  <2>2. DOMAIN cands' = DOMAIN cands /\ items' = txn.items
    BY <1>9, Committed DEF Commit, Types
  <2>3. /\ txn.job \in DOMAIN jobs /\ jobs[txn.job].at = "asked"
      /\ Continues(items, txn.items, jobs[txn.job].cands)
    BY <1>9 DEF Commit, UnderWay
  <2>4. \A i \in DOMAIN items : txn.items[i].from = items[i].from
    BY <2>3 DEF Continues
  <2>5. \A i \in DOMAIN txn.items \ DOMAIN items : txn.items[i].from \subseteq jobs[txn.job].cands
    BY <2>3 DEF Continues
  <2>6. ASSUME NEW i \in DOMAIN txn.items PROVE txn.items[i].from \subseteq DOMAIN cands
    BY <2>3, <2>4, <2>5 DEF Drawn, JobsApart
  <2>7. ASSUME NEW i \in DOMAIN txn.items, NEW l \in DOMAIN jobs \ {txn.job}, jobs[l].at # "done"
      PROVE  txn.items[i].from \cap jobs[l].cands = {}
    BY <2>3, <2>4, <2>5, <2>7 DEF Drawn, JobsApart
  <2> QED
    BY <2>1, <2>2, <2>6, <2>7 DEF Drawn
<1>10. ASSUME NEW i \in DOMAIN items, Forget(i) PROVE Drawn'
  <2>1. /\ DOMAIN items' = DOMAIN items
      /\ \A k \in DOMAIN items : items'[k].from = items[k].from
    BY <1>10, StatusChanged DEF Forget, Types
  <2>2. DOMAIN cands' = DOMAIN cands
    BY <1>10, Suppressed DEF Forget, Types
  <2> QED
    BY <1>10, <2>1, <2>2 DEF Forget, Drawn
<1>11. CASE UNCHANGED itemVars
  BY <1>11 DEF itemVars, Drawn
<1> QED
  BY <1>1, <1>2, <1>3, <1>4, <1>5, <1>6, <1>7, <1>8, <1>9, <1>10, <1>11 DEF ItemsNext, Operate

(* Extraction lets no other inferred candidate in. *)
LEMMA RepeatedStep == IInv /\ [ItemsNext]_itemVars => Repeated'
<1> SUFFICES ASSUME IInv, [ItemsNext]_itemVars PROVE Repeated'
  OBVIOUS
<1> USE ItemsAssumption DEF IInv
<1>1. ASSUME NEW thread \in Threads, CompleteExtraction(thread) PROVE Repeated'
  <2>1. PICK n \in {1, 2} : \E new \in [1..n -> Extracted(thread)] :
        /\ DOMAIN cands' = 1..(Len(cands) + n)
        /\ \A k \in DOMAIN cands : cands'[k] = cands[k]
        /\ \A k \in 1..n : cands'[Len(cands) + k] = new[k]
    BY <1>1, Added
  <2>2. Len(cands) \in Nat /\ DOMAIN cands = 1..Len(cands)
    BY DEF Types
  <2>3. \A k \in 1..n : cands'[Len(cands) + k] \in Extracted(thread)
    BY <2>1
  <2>4. ASSUME NEW k \in DOMAIN cands', k \notin DOMAIN cands PROVE cands'[k] \in Extracted(thread)
    <3>1. k - Len(cands) \in 1..n /\ Len(cands) + (k - Len(cands)) = k
      BY <2>1, <2>2, <2>4
    <3> QED
      BY <2>3, <3>1
  <2> QED
    BY <2>1, <2>4 DEF Repeated, Extracted, ValidSemantics
<1>2. ASSUME NEW j \in DOMAIN jobs, Offer(j) PROVE Repeated'
  BY <1>2 DEF Offer, Repeated
<1>3. ASSUME NEW j \in DOMAIN jobs, Begin(j) PROVE Repeated'
  BY <1>3 DEF Begin, Repeated
<1>4. ASSUME NEW j \in DOMAIN jobs, GiveBack(j) PROVE Repeated'
  BY <1>4 DEF GiveBack, Repeated
<1>5. ASSUME NEW j \in DOMAIN jobs, GiveUp(j) PROVE Repeated'
  <2>1. /\ DOMAIN cands' = DOMAIN cands
      /\ \A k \in DOMAIN cands :
           cands'[k].origin = cands[k].origin /\ cands'[k].cited = cands[k].cited
    BY <1>5, Suppressed DEF GiveUp, Types
  <2> QED
    BY <2>1 DEF Repeated
<1>6. ASSUME txn # NoTxn, NEW S \in SUBSET txn.left, Reject(S) PROVE Repeated'
  BY <1>6 DEF Reject, Repeated
<1>7. ASSUME txn # NoTxn, NEW S \in SUBSET txn.left, NEW c \in S, NEW subject \in Subjects, Create(S, c, subject)
      PROVE  Repeated'
  BY <1>7 DEF Create, Repeated
<1>8. ASSUME txn # NoTxn, NEW S \in SUBSET txn.left, NEW c \in S, NEW subject \in Subjects,
             NEW i \in DOMAIN txn.items, Revise(S, c, subject, i)
      PROVE  Repeated'
  BY <1>8 DEF Revise, Repeated
<1>9. CASE Commit
  <2>1. /\ DOMAIN cands' = DOMAIN cands
      /\ \A k \in DOMAIN cands :
           cands'[k].origin = cands[k].origin /\ cands'[k].cited = cands[k].cited
    BY <1>9, Committed DEF Commit, Types
  <2> QED
    BY <2>1 DEF Repeated
<1>10. ASSUME NEW i \in DOMAIN items, Forget(i) PROVE Repeated'
  <2>1. /\ DOMAIN cands' = DOMAIN cands
      /\ \A k \in DOMAIN cands :
           cands'[k].origin = cands[k].origin /\ cands'[k].cited = cands[k].cited
    BY <1>10, Suppressed DEF Forget, Types
  <2> QED
    BY <2>1 DEF Repeated
<1>11. CASE UNCHANGED itemVars
  BY <1>11 DEF itemVars, Repeated
<1> QED
  BY <1>1, <1>2, <1>3, <1>4, <1>5, <1>6, <1>7, <1>8, <1>9, <1>10, <1>11 DEF ItemsNext, Operate

(* The items that are committed are as the transaction left them. *)
LEMMA LinesStep == IInv /\ [ItemsNext]_itemVars => (Lines(items) /\ Singles(items))'
<1> SUFFICES ASSUME IInv, [ItemsNext]_itemVars PROVE (Lines(items) /\ Singles(items))'
  OBVIOUS
<1> USE ItemsAssumption DEF IInv
<1>1. ASSUME NEW thread \in Threads, CompleteExtraction(thread) PROVE (Lines(items) /\ Singles(items))'
  <2>1. items' = items
    BY <1>1 DEF CompleteExtraction
  <2> QED
    BY <2>1 DEF Lines, Singles, Active
<1>2. ASSUME NEW j \in DOMAIN jobs, Offer(j) PROVE (Lines(items) /\ Singles(items))'
  <2>1. items' = items
    BY <1>2 DEF Offer
  <2> QED
    BY <2>1 DEF Lines, Singles, Active
<1>3. ASSUME NEW j \in DOMAIN jobs, Begin(j) PROVE (Lines(items) /\ Singles(items))'
  <2>1. items' = items
    BY <1>3 DEF Begin
  <2> QED
    BY <2>1 DEF Lines, Singles, Active
<1>4. ASSUME NEW j \in DOMAIN jobs, GiveBack(j) PROVE (Lines(items) /\ Singles(items))'
  <2>1. items' = items
    BY <1>4 DEF GiveBack
  <2> QED
    BY <2>1 DEF Lines, Singles, Active
<1>5. ASSUME NEW j \in DOMAIN jobs, GiveUp(j) PROVE (Lines(items) /\ Singles(items))'
  <2>1. items' = items
    BY <1>5 DEF GiveUp
  <2> QED
    BY <2>1 DEF Lines, Singles, Active
<1>6. ASSUME txn # NoTxn, NEW S \in SUBSET txn.left, Reject(S) PROVE (Lines(items) /\ Singles(items))'
  <2>1. items' = items
    BY <1>6 DEF Reject
  <2> QED
    BY <2>1 DEF Lines, Singles, Active
<1>7. ASSUME txn # NoTxn, NEW S \in SUBSET txn.left, NEW c \in S, NEW subject \in Subjects, Create(S, c, subject)
      PROVE  (Lines(items) /\ Singles(items))'
  <2>1. items' = items
    BY <1>7 DEF Create
  <2> QED
    BY <2>1 DEF Lines, Singles, Active
<1>8. ASSUME txn # NoTxn, NEW S \in SUBSET txn.left, NEW c \in S, NEW subject \in Subjects,
             NEW i \in DOMAIN txn.items, Revise(S, c, subject, i)
      PROVE  (Lines(items) /\ Singles(items))'
  <2>1. items' = items
    BY <1>8 DEF Revise
  <2> QED
    BY <2>1 DEF Lines, Singles, Active
<1>9. CASE Commit
  <2>1. Lines(txn.items) /\ Singles(txn.items) /\ items' = txn.items
    BY <1>9 DEF Commit, UnderWay
  <2> QED
    BY <2>1 DEF Lines, Singles, Active
<1>10. ASSUME NEW i \in DOMAIN items, Forget(i) PROVE (Lines(items) /\ Singles(items))'
  <2>1. /\ DOMAIN items' = DOMAIN items
      /\ \A k \in DOMAIN items :
           /\ items'[k].line = items[k].line
           /\ items'[k].scope = items[k].scope /\ items'[k].paths = items[k].paths
           /\ items'[k].subject = items[k].subject
           /\ items'[k].status = IF k = i THEN "forgotten" ELSE items[k].status
    BY <1>10, StatusChanged DEF Forget, Types
  <2>2. Active(items') = Active(items) \ {i}
    BY <2>1 DEF Active
  <2>3. Lines(items')
    BY <2>1, <2>2 DEF Lines, Active
  <2>4. Singles(items')
    BY <2>1, <2>2 DEF Singles, Identity, Active
  <2> QED
    BY <2>3, <2>4 DEF Lines, Singles, Active
<1>11. CASE UNCHANGED itemVars
  BY <1>11 DEF itemVars, Lines, Singles, Active
<1> QED
  BY <1>1, <1>2, <1>3, <1>4, <1>5, <1>6, <1>7, <1>8, <1>9, <1>10, <1>11 DEF ItemsNext, Operate

(* A transaction goes on from the items that it began with. *)
LEMMA UnderWayStep == IInv /\ [ItemsNext]_itemVars => UnderWay'
<1> SUFFICES ASSUME IInv, [ItemsNext]_itemVars PROVE UnderWay'
  OBVIOUS
<1> USE ItemsAssumption DEF IInv
<1>1. ASSUME NEW thread \in Threads, CompleteExtraction(thread) PROVE UnderWay'
  <2>1. txn = NoTxn /\ txn' = txn
    BY <1>1 DEF CompleteExtraction
  <2> QED
    BY <2>1 DEF UnderWay
<1>2. ASSUME NEW j \in DOMAIN jobs, Offer(j) PROVE UnderWay'
  <2>1. PICK R \in Related(items, jobs[j].cands) :
        jobs' = [jobs EXCEPT ![j].at = "asked", ![j].offered = R]
    BY <1>2 DEF Offer
  <2>2. R \in SUBSET Nat
    BY DEF Related, Active, Types
  <2>3. /\ DOMAIN jobs' = DOMAIN jobs
      /\ \A l \in DOMAIN jobs : /\ jobs'[l].cands = jobs[l].cands
                               /\ jobs'[l].at = IF l = j THEN "asked" ELSE jobs[l].at
    BY <2>1, <2>2, JobChanged DEF Types
  <2>4. UNCHANGED <<items, txn>>
    BY <1>2 DEF Offer
  <2> QED
    BY <2>3, <2>4 DEF UnderWay, Continues, Lines, Singles, Active
<1>3. ASSUME NEW j \in DOMAIN jobs, Begin(j) PROVE UnderWay'
  <2>1. txn'.job = j /\ txn'.left = jobs[j].cands /\ txn'.items = items
    BY <1>3 DEF Begin
  <2>2. jobs[j].at = "asked" /\ UNCHANGED <<cands, jobs, items>>
    BY <1>3 DEF Begin
  <2>3. Len(items) \in Nat
    BY DEF Types
  <2>4. Continues(items, items, jobs[j].cands)
    BY <2>3 DEF Continues
  <2> QED
    BY <2>1, <2>2, <2>4 DEF UnderWay, Continues, Lines, Singles, Active
<1>4. ASSUME NEW j \in DOMAIN jobs, GiveBack(j) PROVE UnderWay'
  <2>1. txn' = NoTxn
    BY <1>4 DEF GiveBack
  <2> QED
    BY <2>1 DEF UnderWay
<1>5. ASSUME NEW j \in DOMAIN jobs, GiveUp(j) PROVE UnderWay'
  <2>1. txn = NoTxn /\ txn' = txn
    BY <1>5 DEF GiveUp
  <2> QED
    BY <2>1 DEF UnderWay
<1>6. ASSUME txn # NoTxn, NEW S \in SUBSET txn.left, Reject(S) PROVE UnderWay'
  <2>1. txn'.job = txn.job /\ txn'.left \subseteq txn.left /\ txn'.items = txn.items
    BY <1>6 DEF Reject, Types
  <2>2. UNCHANGED <<cands, jobs, items>>
    BY <1>6 DEF Reject
  <2> QED
    BY <1>6, <2>1, <2>2 DEF UnderWay, Continues, Lines, Singles, Active
<1>7. ASSUME txn # NoTxn, NEW S \in SUBSET txn.left, NEW c \in S, NEW subject \in Subjects, Create(S, c, subject)
      PROVE  UnderWay'
  <2>1. /\ txn \in Transaction /\ items \in Seq(Item)
      /\ txn.job \in DOMAIN jobs /\ jobs[txn.job].at = "asked"
      /\ txn.left \subseteq jobs[txn.job].cands
      /\ Lines(txn.items) /\ Singles(txn.items)
      /\ Continues(items, txn.items, jobs[txn.job].cands)
    BY <1>7 DEF UnderWay, Types, Transaction
  <2>2. PICK item \in Item :
        /\ item.status = "active" /\ item.from = S
        /\ item.line = Len(txn.items) + 1
        /\ \A k \in Active(txn.items) : Identity(txn.items[k]) # Identity(item)
        /\ txn' \in Transaction /\ txn'.job = txn.job /\ txn'.left \subseteq txn.left
        /\ txn'.items = Append(txn.items, item)
        /\ UNCHANGED <<cands, jobs, items>>
    BY <1>7, CreateEffect
  <2>3. txn.items \in Seq(Item) /\ Len(items) \in Nat /\ Len(txn.items) \in Nat
    BY <2>1 DEF Transaction
  <2>4. Lines(Append(txn.items, item)) /\ Singles(Append(txn.items, item))
    BY <2>1, <2>2, <2>3, LineAdded
  <2>5. item.from \subseteq jobs[txn.job].cands /\ item.line > Len(items)
    BY <2>1, <2>2, <2>3 DEF Continues
  <2>6. Continues(items, Append(txn.items, item), jobs[txn.job].cands)
    BY <2>1, <2>3, <2>5, ItemContinues
  <2> QED
    BY <2>1, <2>2, <2>4, <2>6 DEF UnderWay
<1>8. ASSUME txn # NoTxn, NEW S \in SUBSET txn.left, NEW c \in S, NEW subject \in Subjects,
             NEW i \in DOMAIN txn.items, Revise(S, c, subject, i)
      PROVE  UnderWay'
  <2>1. /\ txn \in Transaction /\ items \in Seq(Item)
      /\ txn.job \in DOMAIN jobs /\ jobs[txn.job].at = "asked"
      /\ txn.left \subseteq jobs[txn.job].cands
      /\ Lines(txn.items) /\ Singles(txn.items)
      /\ Continues(items, txn.items, jobs[txn.job].cands)
    BY <1>8 DEF UnderWay, Types, Transaction
  <2>2. PICK item \in Item :
        /\ item.status = "active" /\ item.from = S
        /\ item.line = txn.items[i].line
        /\ i \in Active(items) /\ i \in Active(txn.items)
        /\ \A k \in Active(txn.items) \ {i} : Identity(txn.items[k]) # Identity(item)
        /\ txn' \in Transaction /\ txn'.job = txn.job /\ txn'.left \subseteq txn.left
        /\ txn'.items = Append([txn.items EXCEPT ![i].status = "superseded"], item)
        /\ UNCHANGED <<cands, jobs, items>>
    BY <1>8, ReviseEffect
  <2>3. txn.items \in Seq(Item)
    BY <2>1 DEF Transaction
  <2>4. Lines(Append([txn.items EXCEPT ![i].status = "superseded"], item))
      /\ Singles(Append([txn.items EXCEPT ![i].status = "superseded"], item))
    BY <2>1, <2>2, <2>3, LineContinued
  <2>5. /\ item.from \subseteq jobs[txn.job].cands
      /\ \E m \in Active(items) : item.line = items[m].line
    BY <2>1, <2>2 DEF Continues, Active
  <2>6. [txn.items EXCEPT ![i].status = "superseded"] \in Seq(Item)
    BY <2>3, StatusChanged
  <2>7. Continues(items, [txn.items EXCEPT ![i].status = "superseded"], jobs[txn.job].cands)
    BY <2>1, <2>2, <2>3, SupersededContinues
  <2>8. Continues(items, Append([txn.items EXCEPT ![i].status = "superseded"], item),
                jobs[txn.job].cands)
    BY <2>1, <2>2, <2>5, <2>6, <2>7, ItemContinues
  <2> QED
    BY <2>1, <2>2, <2>4, <2>8 DEF UnderWay
<1>9. CASE Commit
  <2>1. txn' = NoTxn
    BY <1>9 DEF Commit
  <2> QED
    BY <2>1 DEF UnderWay
<1>10. ASSUME NEW i \in DOMAIN items, Forget(i) PROVE UnderWay'
  <2>1. txn = NoTxn /\ txn' = txn
    BY <1>10 DEF Forget
  <2> QED
    BY <2>1 DEF UnderWay
<1>11. CASE UNCHANGED itemVars
  BY <1>11 DEF itemVars, UnderWay, Lines, Singles, Active, Continues
<1> QED
  BY <1>1, <1>2, <1>3, <1>4, <1>5, <1>6, <1>7, <1>8, <1>9, <1>10, <1>11 DEF ItemsNext, Operate

-----------------------------------------------------------------------------
(* The theorems.                                                           *)

LEMMA InitInv == ItemsInit => IInv
<1> SUFFICES ASSUME ItemsInit PROVE IInv
  OBVIOUS
<1>1. Types
  BY DEF ItemsInit, Types, NoTxn
<1>2. JobsApart /\ Drawn /\ Repeated /\ UnderWay
  BY DEF ItemsInit, JobsApart, Drawn, Repeated, UnderWay
<1>3. Lines(items) /\ Singles(items)
  BY DEF ItemsInit, Lines, Singles, Active
<1> QED
  BY <1>1, <1>2, <1>3 DEF IInv

LEMMA StepInv == IInv /\ [ItemsNext]_itemVars => IInv'
<1> SUFFICES ASSUME IInv, [ItemsNext]_itemVars PROVE IInv'
  OBVIOUS
<1>1. Types' /\ JobsApart' /\ Drawn' /\ Repeated' /\ UnderWay'
  BY TypesStep, JobsApartStep, DrawnStep, RepeatedStep, UnderWayStep
<1>2. (Lines(items) /\ Singles(items))'
  BY LinesStep
<1> QED
  BY <1>1, <1>2 DEF IInv

(* The invariant holds in every state of the memory.                       *)
THEOREM Invariance == ItemsSpec => []IInv
<1>1. ItemsInit => IInv
  BY InitInv
<1>2. IInv /\ [ItemsNext]_itemVars => IInv'
  BY StepInv
<1> QED
  BY <1>1, <1>2, PTL DEF ItemsSpec

(* Of any number of consolidations that overlap, in any number of threads, *)
(* none leaves two active items for one subject, or an item active beside  *)
(* its revision (apply_consolidation of the store).            *)
THEOREM ItemsAreOne == ItemsSpec => []OneActiveItem
<1>1. IInv => OneActiveItem
  <2> SUFFICES ASSUME IInv, NEW i \in Active(items), NEW k \in Active(items),
                      \/ Identity(items[i]) = Identity(items[k])
                      \/ items[i].line = items[k].line
               PROVE  i = k
    BY DEF OneActiveItem
  <2>1. CASE Identity(items[i]) = Identity(items[k])
    BY <2>1 DEF IInv, Singles
  <2>2. CASE items[i].line = items[k].line
    <3>1. i \in DOMAIN items /\ k \in DOMAIN items
      BY DEF Active
    <3>2. i <= k /\ k <= i
      BY <2>2, <3>1 DEF IInv, Lines
    <3> QED
      BY <3>1, <3>2 DEF IInv, Types
  <2> QED
    BY <2>1, <2>2
<1> QED
  BY <1>1, Invariance, PTL

(* A forgotten item is never continued: what a consolidation that was      *)
(* under way commits after it draws on other candidates, and has its line  *)
(* only from an item that came after it (/memory forget).                  *)
THEOREM ForgottenItemsStay == ItemsSpec => ForgottenIsFinal
<1> DEFINE Final ==
      \A i \in DOMAIN items : items[i].status = "forgotten" =>
        /\ items'[i].status = "forgotten"
        /\ \A k \in DOMAIN items' \ DOMAIN items :
             /\ items'[k].from \cap items[i].from = {}
             /\ items'[k].line = items[i].line =>
                  \E m \in DOMAIN items : m > i /\ items[m].line = items[i].line
<1>1. IInv /\ [ItemsNext]_itemVars => [Final]_items
  <2> SUFFICES ASSUME IInv, ItemsNext, items' # items,
                      NEW i \in DOMAIN items, items[i].status = "forgotten"
               PROVE  /\ items'[i].status = "forgotten"
                      /\ \A k \in DOMAIN items' \ DOMAIN items :
                           /\ items'[k].from \cap items[i].from = {}
                           /\ items'[k].line = items[i].line =>
                                \E m \in DOMAIN items : m > i /\ items[m].line = items[i].line
    BY DEF itemVars
  <2>1. \/ Commit
        \/ \E l \in DOMAIN items : Forget(l)
    BY DEF ItemsNext, CompleteExtraction, Offer, Begin, GiveBack, GiveUp, Operate,
           Reject, Create, Revise
  <2>2. CASE Commit
    <3>1. /\ items' = txn.items
          /\ txn.job \in DOMAIN jobs /\ jobs[txn.job].at = "asked"
          /\ Continues(items, txn.items, jobs[txn.job].cands)
      BY <2>2 DEF Commit, IInv, UnderWay
    <3>2. items'[i].status = "forgotten"
      BY <3>1 DEF Continues
    <3>3. ASSUME NEW k \in DOMAIN items' \ DOMAIN items
          PROVE  items'[k].from \cap items[i].from = {}
      BY <3>1, <3>3 DEF Continues, IInv, Drawn
    <3>4. ASSUME NEW k \in DOMAIN items' \ DOMAIN items, items'[k].line = items[i].line
          PROVE  \E m \in DOMAIN items : m > i /\ items[m].line = items[i].line
      <4>1. items[i].line \in 1..i /\ i <= Len(items) /\ i \in Nat /\ Len(items) \in Nat
        BY DEF IInv, Lines, Types
      <4>2. PICK m \in Active(items) : items'[k].line = items[m].line
        BY <3>1, <3>4, <4>1 DEF Continues
      <4>3. m \in DOMAIN items /\ m \in Nat /\ m # i
        BY DEF Active, IInv, Types
      <4>4. i <= m
        BY <3>4, <4>2 DEF IInv, Lines
      <4> QED
        BY <3>4, <4>1, <4>2, <4>3, <4>4
    <3> QED
      BY <3>2, <3>3, <3>4
  <2>3. ASSUME NEW l \in DOMAIN items, Forget(l)
        PROVE  items'[i].status = "forgotten" /\ DOMAIN items' = DOMAIN items
    BY <2>3, StatusChanged DEF Forget, IInv, Types
  <2> QED
    BY <2>1, <2>2, <2>3
<1>2. ItemsSpec => [][Final]_items
  BY <1>1, Invariance, PTL DEF ItemsSpec
<1> QED
  BY <1>2 DEF ForgottenIsFinal

-----------------------------------------------------------------------------
(* Three turns that are about three findings are about one each.           *)

LEMMA TwoOf ==
  ASSUME NEW S, IsFiniteSet(S), Cardinality(S) >= 2
  PROVE  \E x, y \in S : x # y
<1>1. PICK x \in S : TRUE
  BY FS_EmptySet
<1>2. IsFiniteSet(S \ {x}) /\ Cardinality(S \ {x}) = Cardinality(S) - 1
  BY FS_RemoveElement
<1>3. PICK y \in S \ {x} : TRUE
  BY <1>2, FS_EmptySet, FS_CardinalityType
<1> QED
  BY <1>1, <1>3

LEMMA ThreeOf ==
  ASSUME NEW S, IsFiniteSet(S), Cardinality(S) >= 3
  PROVE  \E x, y, z \in S : x # y /\ y # z /\ x # z
<1>1. PICK x \in S : TRUE
  BY FS_EmptySet
<1>2. IsFiniteSet(S \ {x}) /\ Cardinality(S \ {x}) = Cardinality(S) - 1
  BY FS_RemoveElement
<1>3. Cardinality(S \ {x}) >= 2
  BY <1>2, FS_CardinalityType
<1>4. PICK y, z \in S \ {x} : y # z
  BY <1>2, <1>3, TwoOf
<1> QED
  BY <1>1, <1>4

LEMMA ExactlyThree ==
  ASSUME NEW S, IsFiniteSet(S), Cardinality(S) = 3
  PROVE  \E x, y, z \in S : x # y /\ y # z /\ x # z /\ S = {x, y, z}
<1>1. PICK x, y, z \in S : x # y /\ y # z /\ x # z
  BY ThreeOf
<1>2. IsFiniteSet(S \ {x}) /\ Cardinality(S \ {x}) = 2
  BY FS_RemoveElement
<1>3. IsFiniteSet((S \ {x}) \ {y}) /\ Cardinality((S \ {x}) \ {y}) = 1
  BY <1>1, <1>2, FS_RemoveElement
<1>4. IsFiniteSet(((S \ {x}) \ {y}) \ {z}) /\ Cardinality(((S \ {x}) \ {y}) \ {z}) = 0
  BY <1>1, <1>3, FS_RemoveElement
<1>5. ((S \ {x}) \ {y}) \ {z} = {}
  BY <1>4, FS_EmptySet
<1> QED
  BY <1>1, <1>5

LEMMA CountThree ==
  ASSUME NEW x, NEW y, NEW z, x # y, y # z, x # z
  PROVE  Cardinality({x, y, z}) = 3
<1>1. IsFiniteSet({x}) /\ Cardinality({x}) = 1
  BY FS_Singleton
<1>2. IsFiniteSet({x} \cup {y}) /\ Cardinality({x} \cup {y}) = 2
  BY <1>1, FS_AddElement
<1>3. Cardinality(({x} \cup {y}) \cup {z}) = 3
  BY <1>2, FS_AddElement
<1>4. ({x} \cup {y}) \cup {z} = {x, y, z}
  OBVIOUS
<1> QED
  BY <1>3, <1>4

(* The marriage theorem, for three.                                        *)
LEMMA OneEach ==
  ASSUME NEW A, NEW B, NEW C, A # {}, B # {}, C # {},
         \E x, y \in A \cup B : x # y, \E x, y \in B \cup C : x # y, \E x, y \in A \cup C : x # y,
         \E x, y, z \in A \cup B \cup C : x # y /\ y # z /\ x # z
  PROVE  \E a \in A, b \in B, c \in C : a # b /\ b # c /\ a # c
  OBVIOUS

LEMMA RepeatedIsOneEach ==
  ASSUME NEW cited \in Citations, SupportedRepetition(cited)
  PROVE  \E f \in [1..3 -> cited] :
           /\ Cardinality({f[n] : n \in 1..3}) = 3
           /\ Cardinality(UNION {ScopePaths[f[n]] : n \in 1..3}) >= 2
           /\ \E key1 \in EvidenceKeys[f[1]], key2 \in EvidenceKeys[f[2]],
                 key3 \in EvidenceKeys[f[3]] : Cardinality({key1, key2, key3}) = 3
<1>1. PICK T \in SUBSET cited :
        /\ Cardinality(T) = 3
        /\ \A t \in T : EvidenceKeys[t] # {}
        /\ Cardinality(UNION {EvidenceKeys[t] : t \in T}) >= 3
        /\ \A t, u \in T : t # u => Cardinality(EvidenceKeys[t] \cup EvidenceKeys[u]) >= 2
        /\ Cardinality(UNION {ScopePaths[t] : t \in T}) >= 2
  BY DEF SupportedRepetition
<1>2. T \subseteq Turns /\ IsFiniteSet(T)
  BY FS_Subset, ItemsAssumption
<1>3. PICK a, b, c \in T : a # b /\ b # c /\ a # c /\ T = {a, b, c}
  BY <1>1, <1>2, ExactlyThree
<1>4. \A t \in T : IsFiniteSet(EvidenceKeys[t])
  BY <1>2, ItemsAssumption
<1> DEFINE A == EvidenceKeys[a]
           B == EvidenceKeys[b]
           C == EvidenceKeys[c]
<1>5. IsFiniteSet(A) /\ IsFiniteSet(B) /\ IsFiniteSet(C)
  BY <1>3, <1>4
<1>6. A # {} /\ B # {} /\ C # {}
  BY <1>1, <1>3
<1>7. /\ Cardinality(A \cup B) >= 2 /\ Cardinality(B \cup C) >= 2 /\ Cardinality(A \cup C) >= 2
  BY <1>1, <1>3
<1>8. Cardinality(A \cup B \cup C) >= 3
  <2>1. UNION {EvidenceKeys[t] : t \in T} = A \cup B \cup C
    BY <1>3
  <2> QED
    BY <1>1, <2>1
<1> HIDE DEF A, B, C
<1>9. IsFiniteSet(A \cup B) /\ IsFiniteSet(B \cup C) /\ IsFiniteSet(A \cup C)
  BY <1>5, FS_Union
<1>10. IsFiniteSet(A \cup B \cup C)
  BY <1>5, <1>9, FS_Union
<1>11. PICK key1 \in A, key2 \in B, key3 \in C : key1 # key2 /\ key2 # key3 /\ key1 # key3
  <2>1. /\ \E x, y \in A \cup B : x # y
        /\ \E x, y \in B \cup C : x # y
        /\ \E x, y \in A \cup C : x # y
    BY <1>7, <1>9, TwoOf
  <2>2. \E x, y, z \in A \cup B \cup C : x # y /\ y # z /\ x # z
    BY <1>8, <1>10, ThreeOf
  <2> QED
    BY <1>6, <2>1, <2>2, OneEach
<1> DEFINE f == [n \in 1..3 |-> IF n = 1 THEN a ELSE IF n = 2 THEN b ELSE c]
<1>12. f \in [1..3 -> cited] /\ f[1] = a /\ f[2] = b /\ f[3] = c
  BY <1>3
<1>13. {f[n] : n \in 1..3} = T
  BY <1>3
<1>14. {ScopePaths[f[n]] : n \in 1..3} = {ScopePaths[t] : t \in T}
  BY <1>3
<1>15. Cardinality({key1, key2, key3}) = 3
  BY <1>11, CountThree
<1> HIDE DEF f
<1> QED
  BY <1>1, <1>11, <1>12, <1>13, <1>14, <1>15 DEF A, B, C

(* The rule by which an inferred preference is let in (pairs of turns with *)
(* two findings, three turns with three) is the one it stands for: of its  *)
(* turns, three are about a finding of their own each                      *)
(* (_is_supported_repetition).                                          *)
THEOREM InferencesAreRepeated == ItemsSpec => []InferredIsRepeated
<1>1. IInv => InferredIsRepeated
  <2> SUFFICES ASSUME IInv, NEW k \in DOMAIN cands, cands[k].origin = "inferred"
               PROVE  \E f \in [1..3 -> cands[k].cited] :
                        /\ Cardinality({f[n] : n \in 1..3}) = 3
                        /\ Cardinality(UNION {ScopePaths[f[n]] : n \in 1..3}) >= 2
                        /\ \E key1 \in EvidenceKeys[f[1]], key2 \in EvidenceKeys[f[2]],
                              key3 \in EvidenceKeys[f[3]] : Cardinality({key1, key2, key3}) = 3
    BY DEF InferredIsRepeated
  <2>1. SupportedRepetition(cands[k].cited)
    BY DEF IInv, Repeated
  <2>2. cands[k] \in Candidate
    BY DEF IInv, Types
  <2>3. cands[k].cited # {}
    <3>1. \E T \in SUBSET cands[k].cited : Cardinality(T) = 3
      BY <2>1 DEF SupportedRepetition
    <3> QED
      BY <3>1, FS_EmptySet
  <2>4. cands[k].cited \in Citations
    BY <2>2, <2>3 DEF Candidate
  <2> QED
    BY <2>1, <2>4, RepeatedIsOneEach
<1> QED
  BY <1>1, Invariance, PTL


-----------------------------------------------------------------------------
(* The request and its pool.                                               *)

Requests ==
  [kind : {"none", "ordinary", "repair"}, thread : {Project} \cup Threads,
   words : Words \cup {{}}, paths : RequestPaths \cup {{}}, map : SUBSET Nat,
   remaining : Nat, readable : SUBSET Nat, queries : SUBSET Subjects,
   cache : UNION {[Q -> SUBSET Nat] : Q \in SUBSET Subjects}, read : SUBSET Nat]

(* What a request shows and remembers are rows of the memory, and its pool *)
(* is divided between its map, its answers and what is left.               *)
PoolInv ==
  /\ req \in Requests /\ spent \in Nat
  /\ req.map \subseteq DOMAIN items
  /\ \A query \in DOMAIN req.cache : req.cache[query] \subseteq DOMAIN items
  /\ req # NoRequest => MapTokens(req.map) + spent + req.remaining = DurableTokens

(* Items are never removed, and are about what they were about.            *)
LEMMA ItemsStay ==
  ASSUME IInv, [ItemsNext]_itemVars
  PROVE  /\ items' \in Seq(Item)
         /\ DOMAIN items \subseteq DOMAIN items'
         /\ \A i \in DOMAIN items : items'[i].subject = items[i].subject
<1>1. items \in Seq(Item) /\ items' \in Seq(Item)
  BY StepInv DEF IInv, Types
<1>2. CASE Commit
  <2>1. items' = txn.items /\ Continues(items, txn.items, jobs[txn.job].cands)
    BY <1>2 DEF Commit, IInv, UnderWay
  <2> QED
    BY <1>1, <2>1 DEF Continues
<1>3. ASSUME NEW l \in DOMAIN items, Forget(l)
      PROVE  /\ DOMAIN items' = DOMAIN items
             /\ \A i \in DOMAIN items : items'[i].subject = items[i].subject
  BY <1>1, <1>3, StatusChanged DEF Forget
<1>4. CASE UNCHANGED items
  BY <1>1, <1>4
<1>5. Commit \/ (\E l \in DOMAIN items : Forget(l)) \/ UNCHANGED items
  BY DEF ItemsNext, CompleteExtraction, Offer, Begin, GiveBack, GiveUp, Operate,
         Reject, Create, Revise, itemVars
<1> QED
  BY <1>1, <1>2, <1>3, <1>4, <1>5

(* The entries of some items come to a number of tokens.                   *)
LEMMA EntriesType ==
  ASSUME items \in Seq(Item), NEW S, S \subseteq DOMAIN items
  PROVE  Entries(S) \in Nat /\ MapTokens(S) \in Nat /\ HitTokens(S) \in Nat
<1> DEFINE f == [i \in DOMAIN items |-> EntryTokens[items[i].subject]]
<1>1. IsFiniteSet(S)
  BY PositionsCount
<1>2. ASSUME NEW i \in S PROVE f[i] \in Nat
  <2>1. i \in DOMAIN items /\ items[i] \in Item
    OBVIOUS
  <2>2. items[i].subject \in Subjects
    BY <2>1 DEF Item
  <2> QED
    BY <2>1, <2>2, RecallAssumption
<1> HIDE DEF f
<1>3. SumFunctionOnSet(f, S) \in Nat
  BY <1>1, <1>2, SumType
<1>4. Entries(S) \in Nat
  BY <1>3 DEF Entries, f
<1> QED
  BY <1>4, RecallAssumption DEF MapTokens, HitTokens

(* And to the same number, whatever becomes of the items.                  *)
LEMMA EntriesSame ==
  ASSUME IInv, [ItemsNext]_itemVars, NEW S, S \subseteq DOMAIN items
  PROVE  MapTokens(S)' = MapTokens(S)
<1> DEFINE f == [i \in DOMAIN items |-> EntryTokens[items[i].subject]]
           g == [i \in DOMAIN items' |-> EntryTokens[items'[i].subject]]
<1>1. items \in Seq(Item)
  BY DEF IInv, Types
<1>2. IsFiniteSet(S)
  BY <1>1, PositionsCount
<1>3. ASSUME NEW i \in S PROVE f[i] \in Nat /\ g[i] = f[i]
  <2>1. i \in DOMAIN items /\ items[i] \in Item
    BY <1>1
  <2>2. items[i].subject \in Subjects
    BY <2>1 DEF Item
  <2>3. i \in DOMAIN items' /\ items'[i].subject = items[i].subject
    BY <2>1, ItemsStay
  <2> QED
    BY <2>1, <2>2, <2>3, RecallAssumption
<1> HIDE DEF f, g
<1>4. SumFunctionOnSet(g, S) = SumFunctionOnSet(f, S)
  BY <1>2, <1>3, SumSame
<1>5. Entries(S)' = Entries(S)
  BY <1>4 DEF Entries, f, g
<1> QED
  BY <1>5 DEF MapTokens

(* A choice that fills a budget is in it.                                  *)
LEMMA FillFits ==
  ASSUME items \in Seq(Item), NEW S, S \subseteq DOMAIN items, NEW budget \in Nat,
         NEW F \in Fill(S, budget)
  PROVE  /\ F \subseteq DOMAIN items
         /\ MapTokens(F) \in 0..budget
<1>1. F \subseteq DOMAIN items /\ (F # {} => HitTokens(F) <= budget)
  BY DEF Fill
<1>2. MapTokens(F) \in Nat /\ HitTokens(F) \in Nat
  BY <1>1, EntriesType
<1> QED
  BY <1>1, <1>2 DEF MapTokens, HitTokens

(* Rows are numbered.                                                     *)
LEMMA RowsAreNumbers ==
  ASSUME items \in Seq(Item)
  PROVE  DOMAIN items \subseteq Nat
OBVIOUS

(* Where there is no request there is an empty one.                        *)
LEMMA NoRequestType ==
  NoRequest \in Requests /\ NoRequest.map = {} /\ NoRequest.cache = <<>>
<1>1. NoRequest.cache \in UNION {[Q -> SUBSET Nat] : Q \in SUBSET Subjects}
  <2>1. <<>> \in [{} -> SUBSET Nat] /\ {} \in SUBSET Subjects
    OBVIOUS
  <2>2. [{} -> SUBSET Nat] \in {[Q -> SUBSET Nat] : Q \in SUBSET Subjects}
    BY <2>1
  <2> QED
    BY <2>1, <2>2 DEF NoRequest
<1> QED
  BY <1>1 DEF NoRequest, Requests

(* A request begins with its map.                                          *)
LEMMA OpenStep ==
  ASSUME IInv, PoolInv, NEW kind \in {"ordinary", "repair"}, NEW thread \in Threads,
         NEW words \in Words, NEW paths \in RequestPaths,
         Open(kind, thread, words, paths), UNCHANGED itemVars
  PROVE  PoolInv'
<1> DEFINE r == [NoRequest EXCEPT !.kind = kind, !.thread = thread,
                                  !.words = words, !.paths = paths]
<1>1. items \in Seq(Item) /\ items' = items
  BY DEF IInv, Types, itemVars
<1>2. PICK map \in Fill(MapMatches(r), MapBudget) :
        req' = [r EXCEPT !.map = map, !.readable = map,
                         !.remaining = Most(0, DurableTokens - MapTokens(map))]
  BY DEF Open
<1>3. MapMatches(r) \subseteq DOMAIN items
  BY DEF MapMatches
<1> HIDE DEF r
<1>4. map \subseteq DOMAIN items /\ MapTokens(map) \in 0..MapBudget
  BY <1>1, <1>2, <1>3, FillFits, RecallAssumption
<1>5. Most(0, DurableTokens - MapTokens(map)) \in Nat
      /\ MapTokens(map) + Most(0, DurableTokens - MapTokens(map)) = DurableTokens
  BY <1>4, RecallAssumption DEF Most
<1>6. /\ r \in Requests /\ r.cache = <<>> /\ map \in SUBSET Nat
  BY <1>1, <1>4, NoRequestType, RowsAreNumbers DEF r, Requests
<1>7. /\ req' \in Requests /\ req'.map = map /\ req'.cache = <<>>
      /\ req'.remaining = Most(0, DurableTokens - MapTokens(map))
  BY <1>2, <1>5, <1>6 DEF Requests
<1>8. MapTokens(req.map)' = MapTokens(map)
  BY <1>1, <1>7 DEF MapTokens, Entries
<1>9. spent' = 0
  BY DEF Open
<1> QED
  BY <1>1, <1>4, <1>5, <1>7, <1>8, <1>9 DEF PoolInv

(* What is consumed is what was answered.                                  *)
LEMMA ConsumedIsSpent ==
  ASSUME IInv, PoolInv, req # NoRequest
  PROVE  Consumed = spent /\ DurableTokens - Consumed \in Nat
<1>1. MapTokens(req.map) \in Nat
  BY EntriesType DEF IInv, Types, PoolInv
<1> QED
  BY <1>1, RecallAssumption DEF Consumed, Most, PoolInv, Requests

(* A map takes the place of a map.                                         *)
LEMMA RefreshStep ==
  ASSUME IInv, PoolInv, req # NoRequest, NEW hard \in BOOLEAN, Refresh(hard), UNCHANGED itemVars
  PROVE  PoolInv'
<1> DEFINE budget == Least(IF hard THEN MapBudget \div 2 ELSE MapBudget, DurableTokens - Consumed)
<1>1. items \in Seq(Item) /\ items' = items
  BY DEF IInv, Types, itemVars
<1>2. PICK map \in Fill(MapMatches(req), budget) :
        /\ req' = [req EXCEPT !.map = map, !.readable = @ \cup map,
                              !.remaining = Most(0, DurableTokens - Consumed - MapTokens(map))]
        /\ UNCHANGED spent
  BY DEF Refresh
<1>3. MapMatches(req) \subseteq DOMAIN items
  BY DEF MapMatches
<1>4. Consumed = spent /\ spent \in Nat /\ DurableTokens \in Nat /\ DurableTokens - spent \in Nat
  BY ConsumedIsSpent, RecallAssumption DEF PoolInv
<1>5. budget \in Nat /\ budget <= DurableTokens - spent
  BY <1>4, RecallAssumption DEF Least
<1> HIDE DEF budget
<1>6. map \subseteq DOMAIN items /\ MapTokens(map) \in 0..budget
  BY <1>1, <1>2, <1>3, <1>5, FillFits
<1> DEFINE left == Most(0, DurableTokens - Consumed - MapTokens(map))
<1>7. left \in Nat /\ MapTokens(map) + spent + left = DurableTokens
  BY <1>4, <1>5, <1>6 DEF Most
<1>8. map \in SUBSET Nat /\ req \in Requests
  BY <1>1, <1>6, RowsAreNumbers DEF PoolInv
<1> HIDE DEF left
<1>9. /\ req' \in Requests /\ req'.map = map /\ req'.cache = req.cache /\ req'.remaining = left
  BY <1>2, <1>7, <1>8 DEF Requests, left
<1>10. MapTokens(req.map)' = MapTokens(map)
  BY <1>1, <1>9 DEF MapTokens, Entries
<1> QED
  BY <1>1, <1>2, <1>6, <1>7, <1>9, <1>10 DEF PoolInv

(* An answer is paid for from what is left.                                *)
LEMMA AnswerPaid ==
  ASSUME IInv, PoolInv, req # NoRequest, UNCHANGED itemVars,
         NEW cost \in Nat, cost <= req.remaining, spent' = spent + cost,
         req' \in Requests, req'.map = req.map, req'.remaining = req.remaining - cost,
         \A query \in DOMAIN req'.cache : req'.cache[query] \subseteq DOMAIN items
  PROVE  PoolInv'
<1>1. items' = items /\ MapTokens(req.map) \in Nat
  BY EntriesType DEF itemVars, PoolInv, IInv, Types
<1>2. MapTokens(req.map)' = MapTokens(req.map)
  BY <1>1 DEF MapTokens, Entries
<1> QED
  BY <1>1, <1>2 DEF PoolInv, Requests

(* The answer of a query that is remembered.                              *)
LEMMA SearchAgainStep ==
  ASSUME IInv, PoolInv, req # NoRequest, NEW query \in Subjects, SearchAgain(query),
         UNCHANGED itemVars
  PROVE  PoolInv'
<1> DEFINE cost == HitTokens(req.cache[query])
<1>1. req \in Requests /\ query \in DOMAIN req.cache /\ cost <= req.remaining
      /\ req' = [req EXCEPT !.remaining = @ - cost] /\ spent' = spent + cost
  BY DEF SearchAgain, Spend, PoolInv
<1>2. cost \in Nat
  BY <1>1, EntriesType DEF IInv, Types, PoolInv
<1> HIDE DEF cost
<1>3. /\ req' \in Requests /\ req'.map = req.map /\ req'.remaining = req.remaining - cost
      /\ req'.cache = req.cache
  BY <1>1, <1>2 DEF Requests
<1> QED
  BY <1>1, <1>2, <1>3, AnswerPaid DEF PoolInv

(* The answer of a new one, if the pool can pay for it.                    *)
LEMMA SearchStep ==
  ASSUME IInv, PoolInv, req # NoRequest, NEW query \in Subjects, Search(query),
         UNCHANGED itemVars
  PROVE  PoolInv'
<1> DEFINE Matches == SearchMatches(req, query)
           r == [req EXCEPT !.queries = @ \cup {query}]
<1>1. PICK best \in kSubset(Least(MaxHits, Cardinality(Matches)), Matches) :
        \E hits \in Fill(best, req.remaining) :
          IF HitTokens(hits) <= req.remaining
          THEN /\ req' = [r EXCEPT !.remaining = @ - HitTokens(hits),
                                   !.readable = @ \cup hits,
                                   !.cache = [q \in {query} \cup DOMAIN @ |->
                                                IF q = query THEN hits ELSE @[q]]]
               /\ Spend(HitTokens(hits))
          ELSE req' = r /\ UNCHANGED spent
  BY DEF Search
<1>2. PICK hits \in Fill(best, req.remaining) :
        IF HitTokens(hits) <= req.remaining
        THEN /\ req' = [r EXCEPT !.remaining = @ - HitTokens(hits),
                                 !.readable = @ \cup hits,
                                 !.cache = [q \in {query} \cup DOMAIN @ |->
                                              IF q = query THEN hits ELSE @[q]]]
             /\ Spend(HitTokens(hits))
        ELSE req' = r /\ UNCHANGED spent
  BY <1>1
<1>3. best \subseteq DOMAIN items
  BY DEF kSubset, SearchMatches
<1>4. hits \subseteq DOMAIN items /\ items \in Seq(Item)
  BY <1>3 DEF Fill, IInv, Types
<1>5. hits \in SUBSET Nat /\ HitTokens(hits) \in Nat
  BY <1>4, RowsAreNumbers, EntriesType
<1>6. /\ req \in Requests /\ r \in Requests /\ r.map = req.map /\ r.cache = req.cache
      /\ r.remaining = req.remaining /\ r.readable = req.readable
  BY DEF PoolInv, Requests
<1> HIDE DEF r, Matches
<1>7. CASE HitTokens(hits) <= req.remaining
  <2> DEFINE cost == HitTokens(hits)
             cache == [q \in {query} \cup DOMAIN r.cache |->
                         IF q = query THEN hits ELSE r.cache[q]]
  <2>1. /\ req' = [r EXCEPT !.remaining = @ - cost, !.readable = @ \cup hits, !.cache = cache]
        /\ spent' = spent + cost
    BY <1>2, <1>7 DEF Spend
  <2>2. /\ cache \in UNION {[Q -> SUBSET Nat] : Q \in SUBSET Subjects}
        /\ \A q \in DOMAIN cache : cache[q] \subseteq DOMAIN items
    <3>1. PICK Q \in SUBSET Subjects : req.cache \in [Q -> SUBSET Nat]
      BY <1>6 DEF Requests
    <3>2. cache = [q \in Q \cup {query} |-> IF q = query THEN hits ELSE req.cache[q]]
      BY <1>6, <3>1
    <3>3. Q \cup {query} \in SUBSET Subjects
      BY <3>1
    <3> HIDE DEF cache
    <3>4. cache \in [Q \cup {query} -> SUBSET Nat]
      BY <1>5, <3>1, <3>2
    <3>5. ASSUME NEW q \in Q \cup {query} PROVE cache[q] \subseteq DOMAIN items
      BY <1>4, <3>1, <3>2 DEF PoolInv
    <3> QED
      BY <3>2, <3>3, <3>4, <3>5
  <2>3. r.remaining - cost \in Nat /\ r.readable \cup hits \in SUBSET Nat
    <3>1. r.remaining \in Nat /\ r.readable \in SUBSET Nat
      BY <1>6 DEF Requests
    <3>2. cost \in Nat /\ cost <= r.remaining
      BY <1>5, <1>6, <1>7
    <3>3. hits \subseteq Nat
      BY <1>5
    <3> HIDE DEF cost
    <3>4. r.remaining - cost \in Nat
      BY <3>1, <3>2
    <3> QED
      BY <3>1, <3>3, <3>4
  <2> HIDE DEF cost, cache
  <2>4. /\ req' \in Requests /\ req'.map = r.map /\ req'.remaining = r.remaining - cost
        /\ req'.cache = cache
    BY <1>6, <2>1, <2>2, <2>3 DEF Requests
  <2>5. cost \in Nat /\ cost <= req.remaining
    BY <1>5, <1>7 DEF cost
  <2> QED
    BY <1>6, <2>1, <2>2, <2>4, <2>5, AnswerPaid
<1>8. CASE ~(HitTokens(hits) <= req.remaining)
  <2>1. req' = r /\ spent' = spent + 0 /\ spent \in Nat /\ req.remaining - 0 = req.remaining
    BY <1>2, <1>6, <1>8 DEF PoolInv, Requests
  <2> QED
    BY <1>6, <2>1, AnswerPaid DEF PoolInv, Requests
<1> QED
  BY <1>7, <1>8

(* A query that failed costs nothing.                                      *)
LEMMA SearchFailsStep ==
  ASSUME IInv, PoolInv, req # NoRequest, NEW query \in Subjects, SearchFails(query),
         UNCHANGED itemVars
  PROVE  PoolInv'
<1>1. /\ req' \in Requests /\ req'.map = req.map /\ req'.remaining = req.remaining - 0
      /\ req'.cache = req.cache
  BY DEF PoolInv, Requests, SearchFails
<1>2. spent' = spent + 0 /\ 0 <= req.remaining
  BY DEF SearchFails, PoolInv, Requests
<1> QED
  BY <1>1, <1>2, AnswerPaid DEF PoolInv

(* An item that is read, in full or clipped to what is left.               *)
LEMMA ReadStep ==
  ASSUME IInv, PoolInv, req # NoRequest, NEW i \in DOMAIN items, Read(i), UNCHANGED itemVars
  PROVE  PoolInv'
<1>1. PICK cost \in IF FullTokens <= req.remaining THEN {FullTokens}
                    ELSE ReadTokens..req.remaining :
        /\ req' = [req EXCEPT !.remaining = @ - cost, !.read = @ \cup {i}]
        /\ spent' = spent + cost
  BY DEF Read, Spend
<1>2. req \in Requests /\ req.remaining \in Nat /\ i \in Nat
  BY SMTT(30) DEF PoolInv, Requests, IInv, Types
<1>3. cost \in Nat /\ cost <= req.remaining
  BY <1>2, RecallAssumption
<1>4. req.remaining - cost \in Nat /\ req.read \cup {i} \in SUBSET Nat
  BY <1>2, <1>3 DEF Requests
<1>5. /\ req' \in Requests /\ req'.map = req.map /\ req'.remaining = req.remaining - cost
      /\ req'.cache = req.cache
  BY <1>1, <1>2, <1>4 DEF Requests
<1> QED
  BY <1>1, <1>3, <1>5, AnswerPaid DEF PoolInv

(* The pool stays divided, whether the request or the items change.        *)
LEMMA PoolStep == IInv /\ PoolInv /\ [Next]_vars => PoolInv'
<1> SUFFICES ASSUME IInv, PoolInv, [Next]_vars PROVE PoolInv'
  OBVIOUS
<1>1. CASE [ItemsNext]_itemVars /\ UNCHANGED <<req, spent>>
  <2>1. DOMAIN items \subseteq DOMAIN items'
    BY <1>1, ItemsStay
  <2>2. MapTokens(req.map)' = MapTokens(req.map)
    <3>1. req.map \subseteq DOMAIN items
      BY DEF PoolInv
    <3>2. req' = req
      BY <1>1
    <3> DEFINE map == req.map
    <3>3. MapTokens(map)' = MapTokens(map)
      BY <1>1, <3>1, <3>2, EntriesSame
    <3> QED
      BY <3>3
  <2> QED
    BY <1>1, <2>1, <2>2 DEF PoolInv
<1>2. CASE RequestStep /\ UNCHANGED itemVars
  <2>1. CASE \E kind \in {"ordinary", "repair"}, thread \in Threads,
               words \in Words, paths \in RequestPaths : Open(kind, thread, words, paths)
    BY <1>2, <2>1, OpenStep
  <2>2. CASE req # NoRequest /\ \E hard \in BOOLEAN : Refresh(hard)
    BY <1>2, <2>2, RefreshStep
  <2>3. CASE req # NoRequest /\ \E query \in Subjects : SearchAgain(query) \/ Search(query)
                                                         \/ SearchFails(query)
    BY <1>2, <2>3, SearchAgainStep, SearchStep, SearchFailsStep
  <2>4. CASE req # NoRequest /\ \E i \in DOMAIN items : Read(i)
    BY <1>2, <2>4, ReadStep
  <2>5. CASE Close
    <3>1. req' = NoRequest /\ spent' = 0 /\ items' = items
      BY <1>2, <2>5 DEF Close, itemVars
    <3> QED
      BY <3>1, NoRequestType DEF PoolInv
  <2> QED
    BY <1>2, <2>1, <2>2, <2>3, <2>4, <2>5 DEF RequestStep
<1> QED
  BY <1>1, <1>2 DEF Next, vars

(* The steps of the memory are those of its items; a request only reads.   *)
THEOREM MemoryImplementsItems == Spec => ItemsSpec
<1>1. Init => ItemsInit
  BY DEF Init
<1>2. [Next]_vars => [ItemsNext]_itemVars
  BY DEF Next, vars
<1> QED
  BY <1>1, <1>2, PTL DEF Spec, ItemsSpec

(* The map that a request carries, all that it was answered and what it    *)
(* believes is left are its pool, however the items change between two of  *)
(* its calls (open_memory_request, refresh_memory_request, search and read *)
(* of MemoryManager).                                                      *)
THEOREM RequestsStayInTheirPool == Spec => []RequestStaysInItsPool
<1>1. Init => PoolInv
  BY NoRequestType DEF Init, PoolInv
<1>2. PoolInv => RequestStaysInItsPool
  BY DEF PoolInv, RequestStaysInItsPool, Requests
<1>3. Spec => []IInv
  BY MemoryImplementsItems, Invariance
<1> QED
  BY <1>1, <1>2, <1>3, PoolStep, PTL DEF Spec
=============================================================================
