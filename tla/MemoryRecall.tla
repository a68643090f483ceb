---------------------------- MODULE MemoryRecall ----------------------------
(***************************************************************************)
(* What a request recalls of the memory (MemoryRequestState and its        *)
(* methods in core/memory/manager.py, match_recall and read_recall of the  *)
(* store), while the items change under it.  The request carries a map of  *)
(* items, renewed before every call of the model, and answers memory_search*)
(* and memory_read out of one pool of tokens.                              *)
(*                                                                         *)
(* A request's words are the subjects they match, its paths the files it   *)
(* is about.  The order of matches decides which of them a budget takes:   *)
(* here any choice is taken to which nothing more could be added.          *)
(***************************************************************************)
EXTENDS MemoryItems, FiniteSetsExt

CONSTANTS
  Words,          \* the subjects that a request may be about
  RequestPaths,   \* and its paths
  DurableTokens,  \* durable_token_budget, the pool
  MapBudget,      \* map_token_budget
  HeaderTokens,   \* of a map, or of the answer of a search, without its entries
  EntryTokens,    \* of an entry, by its subject
  ReadTokens,     \* of an item that is read, without content and sources
  FullTokens,     \* of an item that is read, with them
  MaxSearchCalls, \* max_search_calls
  MaxHits,        \* max_search_results
  MaxReadIds      \* max_read_ids

ASSUME RecallAssumption ==
  /\ {DurableTokens, MapBudget, HeaderTokens, ReadTokens, FullTokens,
      MaxSearchCalls, MaxHits, MaxReadIds} \subseteq Nat
  /\ MapBudget <= DurableTokens
  /\ EntryTokens \in [Subjects -> Nat]

VARIABLES
  req,   \* the MemoryRequestState of the request under way, or NoRequest
  spent  \* the tokens of all its answers to memory_search and memory_read

vars == <<itemVars, req, spent>>

Least(m, n) == IF m < n THEN m ELSE n
Most(m, n) == IF m > n THEN m ELSE n

NoRequest == [kind |-> "none", thread |-> Project, words |-> {}, paths |-> {}, map |-> {},
              remaining |-> 0, readable |-> {}, queries |-> {}, cache |-> <<>>, read |-> {}]

Init == ItemsInit /\ req = NoRequest /\ spent = 0

-----------------------------------------------------------------------------
(* What the store lets a request see *)

\* Discussions are of one thread, and no matter of a repair.  An item about
\* certain files is for the requests about one of them.
InScope(r, i) ==
  /\ items[i].scope = Project \/ (r.kind = "ordinary" /\ items[i].scope = r.thread)
  /\ items[i].paths = {} \/ items[i].paths \cap r.paths # {}

\* match_recall
MayRecall(r, i) == items[i].status = "active" /\ InScope(r, i)

MapMatches(r) == {i \in DOMAIN items : MayRecall(r, i) /\
                    (items[i].mode = "always" \/ items[i].subject \in r.words)}
SearchMatches(r, query) == {i \in DOMAIN items : MayRecall(r, i) /\
                              items[i].subject \in r.words \cup {query}}

Entries(S) == SumFunctionOnSet([i \in DOMAIN items |-> EntryTokens[items[i].subject]], S)
MapTokens(S) == IF S = {} THEN 0 ELSE HeaderTokens + Entries(S)
HitTokens(S) == HeaderTokens + Entries(S)

\* The choices from S that fill a budget.
Fill(S, budget) ==
  {F \in SUBSET S : /\ F # {} => HitTokens(F) <= budget
                    /\ \A i \in S \ F : HitTokens(F \cup {i}) > budget}

-----------------------------------------------------------------------------
(* open_memory_request and refresh_memory_request *)

Open(kind, thread, words, paths) ==
  /\ req = NoRequest
  /\ LET r == [NoRequest EXCEPT !.kind = kind, !.thread = thread,
                                !.words = words, !.paths = paths]
     IN  \E map \in Fill(MapMatches(r), MapBudget) :
           req' = [r EXCEPT !.map = map, !.readable = map,
                            !.remaining = Most(0, DurableTokens - MapTokens(map))]
  /\ spent' = 0

Consumed == Most(0, DurableTokens - MapTokens(req.map) - req.remaining)

\* The map before a call of the model, or half of it after an overflow.
RefreshAfresh(hard) ==
  LET budget == IF hard THEN MapBudget \div 2 ELSE MapBudget
  IN  \E map \in Fill(MapMatches(req), Least(budget, DurableTokens - Consumed)) :
        /\ req' = [req EXCEPT !.map = map, !.readable = @ \cup map,
                              !.remaining = Most(0, DurableTokens - MapTokens(map))]
        /\ UNCHANGED spent

Refresh(hard) ==
  LET budget == IF hard THEN MapBudget \div 2 ELSE MapBudget
  IN  \E map \in Fill(MapMatches(req), Least(budget, DurableTokens - Consumed)) :
        /\ req' = [req EXCEPT !.map = map, !.readable = @ \cup map,
                              !.remaining = Most(0, DurableTokens - Consumed - MapTokens(map))]
        /\ UNCHANGED spent

-----------------------------------------------------------------------------
(* search_memory_request and read_memory_request *)

Spend(n) == spent' = spent + n

\* The same query again: the same hits, and paid for again.
SearchAgain(query) ==
  LET cost == HitTokens(req.cache[query])
  IN  /\ query \in DOMAIN req.cache
      /\ cost <= req.remaining
      /\ req' = [req EXCEPT !.remaining = @ - cost]
      /\ Spend(cost)

Search(query) ==
  LET Matches == SearchMatches(req, query)
      r == [req EXCEPT !.queries = @ \cup {query}]
  IN  /\ query \notin DOMAIN req.cache
      /\ Cardinality(req.queries) < MaxSearchCalls
      /\ \E best \in kSubset(Least(MaxHits, Cardinality(Matches)), Matches) :
           \E hits \in Fill(best, req.remaining) :
             IF HitTokens(hits) <= req.remaining
             THEN /\ req' = [r EXCEPT !.remaining = @ - HitTokens(hits),
                                      !.readable = @ \cup hits,
                                      !.cache = [q \in {query} \cup DOMAIN @ |->
                                                   IF q = query THEN hits ELSE @[q]]]
                  /\ Spend(HitTokens(hits))
             ELSE req' = r /\ UNCHANGED spent

\* The database fails in the middle of a search: the query counts.
SearchFails(query) ==
  /\ query \notin DOMAIN req.cache
  /\ Cardinality(req.queries) < MaxSearchCalls
  /\ req' = [req EXCEPT !.queries = @ \cup {query}]
  /\ UNCHANGED spent

\* read_recall: an id that the request was shown may have been forgotten or
\* replaced since.  _bound_detail clips what the pool cannot pay in full.
Read(i) ==
  /\ i \in req.readable \ req.read
  /\ Cardinality(req.read) < MaxReadIds
  /\ MayRecall(req, i)
  /\ \E cost \in IF FullTokens <= req.remaining THEN {FullTokens} ELSE ReadTokens..req.remaining :
       /\ req' = [req EXCEPT !.remaining = @ - cost, !.read = @ \cup {i}]
       /\ Spend(cost)

Close == req # NoRequest /\ req' = NoRequest /\ spent' = 0

RequestStep ==
  \/ \E kind \in {"ordinary", "repair"}, thread \in Threads,
        words \in Words, paths \in RequestPaths : Open(kind, thread, words, paths)
  \/ /\ req # NoRequest
     /\ \/ \E hard \in BOOLEAN : Refresh(hard)
        \/ \E query \in Subjects : SearchAgain(query) \/ Search(query) \/ SearchFails(query)
        \/ \E i \in DOMAIN items : Read(i)
  \/ Close

Next ==
  \/ ItemsNext /\ UNCHANGED <<req, spent>>
  \/ RequestStep /\ UNCHANGED itemVars

Spec == Init /\ [][Next]_vars

-----------------------------------------------------------------------------
\* The map that a request carries and all that it was answered came out of one
\* pool, and what it believes is left is left: whatever the map was replaced
\* by, however often and with which budget, between two answers.
RequestStaysInItsPool ==
  req # NoRequest => /\ req.remaining >= 0
                     /\ MapTokens(req.map) + spent + req.remaining = DurableTokens
==============================================================================
