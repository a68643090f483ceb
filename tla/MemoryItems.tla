----------------------------- MODULE MemoryItems -----------------------------
(***************************************************************************)
(* What the memory knows: the candidates that extraction draws from the    *)
(* turns of a conversation, and the items that consolidation makes of them *)
(* (tables memory_candidates and memory_items of core/memory/store.py).    *)
(* A consolidation shows the model its candidates with the active items    *)
(* they may touch, and minutes later applies the answer, operation by      *)
(* operation in one transaction, to items that the user and the other      *)
(* processes have gone on changing.  Leases, retries and the order of jobs *)
(* are those of MemoryJobs; here a job may be given back at any time.      *)
(*                                                                         *)
(* Texts are reduced to a subject, that of an item; whether an item shares *)
(* a term with a candidate is left open.                                   *)
(***************************************************************************)
EXTENDS Integers, FiniteSets, Sequences

CONSTANTS
  Threads,       \* conversation threads, the scopes of discussion_context
  Project,       \* the scope of user_preference and project_decision
  Subjects,      \* normalized subjects
  Files,         \* the files of the project
  Paths,         \* sets of files that an item may apply to, {} for any
  Origins,       \* origins, of "inferred", "adopted" and "explicit"
  Modes,         \* "soft", "hard", and "always" for what is hard and always recalled
  Turns,         \* repair turns,
  Citations,     \* the sets of them that an answer of the model cites,
  EvidenceKeys,  \* of each, the keys of the findings it was about,
  ScopePaths,    \* and the files it was about
  RelatedItems,  \* MAX_RELATED_ITEMS
  MaxCandidates, \* bound: candidates
  MaxItems       \* bound: items

ASSUME ItemsAssumption ==
  /\ Project \notin Threads
  /\ Origins \subseteq {"inferred", "adopted", "explicit"}
  /\ Modes \subseteq {"soft", "hard", "always"}
  /\ EvidenceKeys \in [Turns -> SUBSET UNION {EvidenceKeys[t] : t \in Turns}]
  /\ \A t \in Turns : IsFiniteSet(EvidenceKeys[t])
  /\ Paths \subseteq SUBSET Files
  /\ Citations \subseteq SUBSET Turns /\ \A cited \in Citations : IsFiniteSet(cited)
  /\ ScopePaths \in [Turns -> SUBSET Files]
  /\ {RelatedItems, MaxCandidates, MaxItems} \subseteq Nat

VARIABLES
  cands,  \* the rows of memory_candidates, by creation
  jobs,   \* the consolidation jobs: [cands, at, offered], by creation
  items,  \* the rows of memory_items, by creation, as committed
  txn     \* the transaction of apply_consolidation, or NoTxn

itemVars == <<cands, jobs, items, txn>>

NoTxn == [job |-> 0, left |-> {}, items |-> <<>>]

ItemsInit == cands = <<>> /\ jobs = <<>> /\ items = <<>> /\ txn = NoTxn

-----------------------------------------------------------------------------
(* Extraction *)

\* Three of the cited turns are about three findings, one each.  Three sets
\* with three members may still have two that share their only one.
SupportedByUnion(cited) ==
  \E T \in SUBSET cited :
    /\ Cardinality(T) = 3
    /\ \A t \in T : EvidenceKeys[t] # {}
    /\ Cardinality(UNION {EvidenceKeys[t] : t \in T}) >= 3
    /\ Cardinality(UNION {ScopePaths[t] : t \in T}) >= 2

SupportedRepetition(cited) ==
  \E T \in SUBSET cited :
    /\ Cardinality(T) = 3
    /\ \A t \in T : EvidenceKeys[t] # {}
    /\ Cardinality(UNION {EvidenceKeys[t] : t \in T}) >= 3
    /\ \A t, u \in T : t # u => Cardinality(EvidenceKeys[t] \cup EvidenceKeys[u]) >= 2
    /\ Cardinality(UNION {ScopePaths[t] : t \in T}) >= 2

\* What _validate_extraction_result keeps of an answer.  An inferred candidate
\* cites turns that support it; the others quote the turns of their job.
ValidSemantics(c) ==
  /\ c.mode = "always" => c.origin # "inferred" /\ c.scope = Project
  /\ c.scope # Project => c.origin = "explicit" /\ c.mode = "soft"
  /\ c.origin = "inferred" <=> c.cited # {}
  /\ c.origin = "inferred" =>
       /\ c.mode = "soft" /\ c.paths \subseteq UNION {ScopePaths[t] : t \in c.cited}
       /\ SupportedRepetition(c.cited)

Extracted(thread) ==
  {c \in [scope : {Project, thread}, paths : Paths, origin : Origins,
          mode : Modes, cited : {{}} \cup Citations, status : {"pending"}] :
     ValidSemantics(c)}

\* complete_extraction: its candidates and the job that consolidates them.
CompleteExtraction(thread) ==
  \E n \in 1..2 : \E new \in [1..n -> Extracted(thread)] :
    /\ txn = NoTxn
    /\ Len(cands) + n <= MaxCandidates
    /\ cands' = cands \o new
    /\ jobs' = Append(jobs, [cands |-> (Len(cands) + 1)..(Len(cands) + n),
                             at |-> "waiting", offered |-> {}])
    /\ UNCHANGED <<items, txn>>

-----------------------------------------------------------------------------
(* Consolidation *)

Active(its) == {i \in DOMAIN its : its[i].status = "active"}

\* _related_active_items: of the items with the scope and the paths of a
\* candidate, those that share a term with it, and not too many.
Related(its, S) ==
  {R \in SUBSET {i \in Active(its) : \E c \in S : /\ its[i].scope = cands[c].scope
                                                  /\ its[i].paths = cands[c].paths} :
     Cardinality(R) <= RelatedItems}

\* consolidation_payload: what the model is shown.
Offer(j) ==
  /\ jobs[j].at = "waiting"
  /\ \E R \in Related(items, jobs[j].cands) :
       jobs' = [jobs EXCEPT ![j].at = "asked", ![j].offered = R]
  /\ UNCHANGED <<cands, items, txn>>

\* apply_consolidation: the other writers wait until it is over.
Begin(j) ==
  /\ txn = NoTxn /\ jobs[j].at = "asked"
  /\ txn' = [job |-> j, left |-> jobs[j].cands, items |-> items]
  /\ UNCHANGED <<cands, jobs, items>>

\* The operation is done with the candidates S.
Handle(S) == S # {} /\ S \subseteq txn.left

Reject(S) ==
  /\ Handle(S)
  /\ txn' = [txn EXCEPT !.left = @ \ S]
  /\ UNCHANGED <<cands, jobs, items>>

\* _validate_candidate_group
IsGroup(S) == \A c, d \in S : cands[c].scope = cands[d].scope /\ cands[c].paths = cands[d].paths

\* _candidate_precedence: the candidate whose signals the item takes.
Precedence(c) ==
  <<CASE cands[c].origin = "explicit" -> 2 [] cands[c].origin = "adopted" -> 1 [] OTHER -> 0,
    IF cands[c].mode = "soft" THEN 0 ELSE 1>>
Below(p, q) == p[1] < q[1] \/ (p[1] = q[1] /\ p[2] < q[2])
IsDominant(c, S) == c \in S /\ \A d \in S : ~Below(Precedence(c), Precedence(d))

Made(S, c, subject, line) ==
  [line |-> line, scope |-> cands[c].scope, subject |-> subject, paths |-> cands[c].paths,
   origin |-> cands[c].origin, mode |-> cands[c].mode, status |-> "active", from |-> S]

Identity(item) == <<item.scope, item.paths, item.subject>>

IsTakenInPayload(item, exceptId) ==
  \E i \in (Active(txn.items) \ exceptId) \cap jobs[txn.job].offered :
    Identity(txn.items[i]) = Identity(item)
\* _has_exact_active_identity: over all the items, the related ones or not.
IsTaken(item, exceptId) ==
  \E i \in Active(txn.items) \ exceptId : Identity(txn.items[i]) = Identity(item)
Create(S, c, subject) ==
  LET line == Len(txn.items) + 1
      item == Made(S, c, subject, line)
  IN  /\ Handle(S) /\ IsGroup(S) /\ IsDominant(c, S)
      /\ line <= MaxItems
      /\ ~IsTaken(item, {})
      /\ txn' = [txn EXCEPT !.left = @ \ S, !.items = Append(@, item)]
      /\ UNCHANGED <<cands, jobs, items>>

\* Item i was among the related ones for the payload, is again as the
\* transaction begins, and has not been replaced by it.
WasShown(i, c) ==
  /\ i \in jobs[txn.job].offered
  /\ txn.items[i].scope = cands[c].scope /\ txn.items[i].paths = cands[c].paths
  /\ cands[c].origin = "inferred" => txn.items[i].origin = "inferred"

MayReplace(i, c) ==
  /\ i \in jobs[txn.job].offered /\ i \in Active(items) /\ i \in Active(txn.items)
  /\ txn.items[i].scope = cands[c].scope /\ txn.items[i].paths = cands[c].paths
  /\ cands[c].origin = "inferred" => txn.items[i].origin = "inferred"

\* revise and supersede
Revise(S, c, subject, i) ==
  LET item == Made(S, c, subject, txn.items[i].line)
  IN  /\ Handle(S) /\ IsGroup(S) /\ IsDominant(c, S)
      /\ MayReplace(i, c)
      /\ Len(txn.items) < MaxItems
      /\ ~IsTaken(item, {i})
      /\ txn' = [txn EXCEPT !.left = @ \ S,
                            !.items = Append([@ EXCEPT ![i].status = "superseded"], item)]
      /\ UNCHANGED <<cands, jobs, items>>

Commit ==
  /\ txn # NoTxn /\ txn.left = {}
  /\ items' = txn.items
  /\ cands' = [c \in DOMAIN cands |->
       IF c \notin jobs[txn.job].cands THEN cands[c]
       ELSE [cands[c] EXCEPT !.status =
         IF \E i \in DOMAIN txn.items : c \in txn.items[i].from
         THEN "consolidated" ELSE "rejected"]]
  /\ jobs' = [jobs EXCEPT ![txn.job].at = "done", ![txn.job].offered = {}]
  /\ txn' = NoTxn

Suppress(S) == cands' = [c \in DOMAIN cands |->
  IF c \in S THEN [cands[c] EXCEPT !.status = "suppressed"] ELSE cands[c]]

\* The answer is refused, by the pipeline or by the store, or does not come,
\* or the process ends: nothing of it is kept, and the job waits for another.
GiveBack(j) ==
  /\ jobs[j].at = "asked" /\ txn.job \in {0, j}
  /\ jobs' = [jobs EXCEPT ![j].at = "waiting", ![j].offered = {}]
  /\ txn' = NoTxn
  /\ UNCHANGED <<cands, items>>

\* The same at the last attempt: the job has failed, or is done without output.
GiveUp(j) ==
  /\ jobs[j].at = "asked" /\ txn = NoTxn
  /\ jobs' = [jobs EXCEPT ![j].at = "done", ![j].offered = {}]
  /\ Suppress(jobs[j].cands)
  /\ UNCHANGED <<items, txn>>

\* /memory forget
Forget(i) ==
  /\ txn = NoTxn /\ items[i].status # "forgotten"
  /\ items' = [items EXCEPT ![i].status = "forgotten"]
  /\ Suppress(items[i].from)
  /\ UNCHANGED <<jobs, txn>>

Operate ==
  /\ txn # NoTxn
  /\ \E S \in SUBSET txn.left :
       \/ Reject(S)
       \/ \E c \in S, subject \in Subjects :
            \/ Create(S, c, subject)
            \/ \E i \in DOMAIN txn.items : Revise(S, c, subject, i)

ItemsNext ==
  \/ \E thread \in Threads : CompleteExtraction(thread)
  \/ \E j \in DOMAIN jobs : Offer(j) \/ Begin(j) \/ GiveBack(j) \/ GiveUp(j)
  \/ Operate
  \/ Commit
  \/ \E i \in DOMAIN items : Forget(i)

ItemsSpec == ItemsInit /\ [][ItemsNext]_itemVars

-----------------------------------------------------------------------------
\* No two active items say what the same subject is in the same scope and for
\* the same paths, and none is active beside a revision of itself: whichever
\* consolidations overlap, however few of the items the model was shown.
OneActiveItem ==
  \A i, k \in Active(items) :
    Identity(items[i]) = Identity(items[k]) \/ items[i].line = items[k].line => i = k

\* What the user has forgotten stays forgotten: a consolidation that was under
\* way neither continues it with a revision nor draws on its candidates again.
ForgottenIsFinal ==
  [][\A i \in DOMAIN items : items[i].status = "forgotten" =>
       /\ items'[i].status = "forgotten"
       /\ \A k \in DOMAIN items' \ DOMAIN items :
            /\ items'[k].from \cap items[i].from = {}
            /\ items'[k].line = items[i].line =>
                 \E m \in DOMAIN items : m > i /\ items[m].line = items[i].line
    ]_items

\* An inferred preference rests on three turns about three findings, one each,
\* in two files at least.
InferredIsRepeated ==
  \A k \in DOMAIN cands : cands[k].origin = "inferred" =>
    \E f \in [1..3 -> cands[k].cited] :
      /\ Cardinality({f[n] : n \in 1..3}) = 3
      /\ Cardinality(UNION {ScopePaths[f[n]] : n \in 1..3}) >= 2
      /\ \E key1 \in EvidenceKeys[f[1]], key2 \in EvidenceKeys[f[2]],
            key3 \in EvidenceKeys[f[3]] : Cardinality({key1, key2, key3}) = 3
==============================================================================
