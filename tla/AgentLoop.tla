------------------------------ MODULE AgentLoop ------------------------------
(***************************************************************************)
(* One request of the agent: the ReAct loop (agent/react_runner.py), the   *)
(* projection of its messages into a request that fits the model           *)
(* (agent/context_manager.py, message_adapter.py) and the guard that stops *)
(* a loop without progress (agent/progress_guard.py).                      *)
(*                                                                         *)
(* The messages are only ever appended to.  What is sent is computed from  *)
(* them before each call: whole, with the bodies of old results left out,  *)
(* or with a checkpoint, itself the answer of the model, for an older part *)
(* of them.  A message is its length in tokens and what it calls or        *)
(* answers; the indices of messages start at 1.                            *)
(***************************************************************************)
EXTENDS Integers, Sequences, FiniteSetsExt, Functions

CONSTANTS
  Capacity,         \* input_capacity of the model
  Kibi,             \* what the budgets count in
  SystemTokens,     \* the system prompt and the tools
  Histories,        \* lengths of what the thread said before
  UserTokens,       \* lengths of the user's input
  AnswerTokens,     \* length of an answer of the model
  MapTokens,        \* length of the memory map
  ThreadTokens,     \* lengths of the thread's checkpoint
  WrapperTokens,    \* the prompt of a compaction without its fragment
  Results,          \* what a tool call may do: [trace, ok, size, replayable]
  MaxCalls,         \* bound: calls in one answer
  MaxSteps          \* max_steps

ASSUME AgentLoopAssumption ==
  /\ {Capacity, Kibi} \subseteq Nat \ {0}
  /\ {SystemTokens, AnswerTokens, MapTokens, WrapperTokens, MaxCalls} \subseteq Nat
  /\ UserTokens \subseteq Nat /\ ThreadTokens \subseteq Nat /\ Histories \subseteq Seq(Nat)
  /\ MaxSteps \in Nat \ {0}
  /\ \A r \in Results : r.ok \in BOOLEAN /\ r.size \in Nat /\ r.replayable \in BOOLEAN

VARIABLES
  messages,      \* the trace of the request, after the history of the thread
  history,       \* how many of them are history
  thread,        \* length of the thread's checkpoint, 0 without one
  checkpoint,    \* length of the runtime checkpoint, 0 without one
  through,       \* how many messages the checkpoint stands for
  summarised,    \* the messages that were given to its builder
  pc,
  mode,          \* the rebuild: "plain", "hard", "again" (after an overflow)
  hardRecall,    \* does the memory map get half its tokens?
  step,          \* of MaxSteps
  compaction,    \* the builder: tokens left, second try?, its checkpoint so far
  request,       \* what is sent: the messages, those without body, and its length
  calls,         \* calls of the last answer that have not run
  seen           \* the history of the guard

contextVars == <<checkpoint, through, summarised>>
loopVars == <<hardRecall, step, calls, seen>>
vars == <<messages, history, thread, contextVars, pc, mode, loopVars, compaction, request>>

-----------------------------------------------------------------------------
(* Budgets.                                                                *)

Least(m, n) == IF m < n THEN m ELSE n
Most(m, n) == IF m > n THEN m ELSE n

SoftPressure == (Capacity * 80) \div 100
CompactionPressure == (Capacity * 85) \div 100
RecentHistoryTokens == Least((Capacity * 40) \div 100, 384 * Kibi)
RecentTailTokens == Least((Capacity * 20) \div 100, 128 * Kibi)
CheckpointTokens == Least((Capacity * 4) \div 100, 16 * Kibi)
RequiredReclaim(before) ==
  Most(Least(32 * Kibi, Most(1, Capacity \div 10)), before \div 10)

HardTailTokens == Least(RecentTailTokens \div 2, 64 * Kibi)

(* RECENT_TOOL_MESSAGE_COUNT and repeat_threshold; a pruned body is short. *)
RecentMessages == 5
PrunedTokens == 1
RepeatThreshold == 3
GuardHistory == 8

-----------------------------------------------------------------------------
(* Messages.                                                               *)

Plain(role, size) ==
  [role |-> role, size |-> size, calls |-> {}, answers |-> 0, result |-> "none"]

(* A call is named for the place of its result.                            *)
Asking(n) == [Plain("assistant", AnswerTokens)
                EXCEPT !.calls = (Len(messages) + 2)..(Len(messages) + 1 + n)]

Answering(call, r) ==
  [Plain("tool", r.size) EXCEPT !.answers = call, !.result = r]

Current == history + 1

Size(S) == SumFunctionOnSet([i \in DOMAIN messages |-> messages[i].size], S)

(* An answer with calls and the results that follow it are one unit.       *)
AsksFor(a, i) ==
  /\ messages[a].calls # {}
  /\ \A k \in (a + 1)..i : messages[k].role = "tool" /\ messages[k].answers \in messages[a].calls

UnitStarts(from) ==
  {i \in from..Len(messages) : ~ \E a \in from..(i - 1) : AsksFor(a, i)}

(* The last unit, and before it as many as the budget takes.               *)
RecentTailStart(budget) ==
  LET starts == UnitStarts(through + 1)
      fits(s) == Size(s..Len(messages)) <= budget
  IN IF starts = {} THEN Len(messages) + 1
     ELSE Min({s \in starts : s = Max(starts) \/ fits(s)})

(* Fault: the input of the user is compacted like any other message. *)
ActiveWithoutInput(from) == from..Len(messages)

(* The messages from an index on; the input of the user is always one.     *)
Active(from) == (from..Len(messages)) \cup {Current}

(* Old results whose call can be repeated lose their body; a hard rebuild  *)
(* takes it from the recent ones, too.                                     *)
Prunable(active, aggressive) ==
  {i \in active :
     /\ messages[i].role = "tool" /\ messages[i].result.replayable
     /\ \E a \in active : messages[i].answers \in messages[a].calls
     /\ aggressive \/ i <= Len(messages) - RecentMessages}

MapSize == IF hardRecall THEN MapTokens \div 2 ELSE MapTokens

Project(active, pruned, runtime) ==
  [messages |-> active, pruned |-> pruned,
   tokens |-> SystemTokens + runtime + thread + MapSize
              + Size(active \ pruned) + PrunedTokens * Cardinality(pruned)]

-----------------------------------------------------------------------------
NoCompaction == [tail |-> 0, before |-> 0, left |-> 0, retried |-> FALSE, text |-> 0]
NoRequest == [messages |-> {}, pruned |-> {}, tokens |-> 0]

Said(h) == [i \in DOMAIN h |-> Plain(IF i % 2 = 1 THEN "user" ELSE "assistant", h[i])]

Init ==
  /\ \E h \in Histories, u \in UserTokens :
       /\ messages = Append(Said(h), Plain("user", u))
       /\ history = Len(h)
       /\ Size(1..history) <= RecentHistoryTokens
  /\ thread \in ThreadTokens
  /\ checkpoint = 0 /\ through = 0 /\ summarised = {}
  /\ pc = "prepare" /\ mode = "plain" /\ hardRecall = FALSE /\ step = 1
  /\ compaction = NoCompaction /\ request = NoRequest
  /\ calls = 0 /\ seen = << >>

Send(r) == request' = r /\ pc' = "send"

Fails == pc' = "failed" /\ UNCHANGED <<mode, hardRecall>>

(* A request without room is rebuilt once, harder; then the run fails.     *)
NoCapacity ==
  IF mode = "plain"
  THEN mode' = "hard" /\ hardRecall' = TRUE /\ pc' = "prepare"
  ELSE Fails

-----------------------------------------------------------------------------
(* RequestContextManager.prepare.                                          *)

Forced == mode # "plain"

Older(tail) == ((through + 1)..(tail - 1)) \ {Current}

(* The builder gets the older messages as a text, which is never empty.    *)
StartCompaction(tail, before) ==
  LET older == Older(tail)
      bare == Prunable(older, TRUE)
  IN /\ compaction' = [tail |-> tail, before |-> before, retried |-> FALSE,
                       left |-> Most(1, Size(older \ bare) + PrunedTokens * Cardinality(bare)),
                       text |-> checkpoint]
     /\ pc' = "compact"

Prepare ==
  LET active == Active(through + 1)
      whole == Project(active, {}, checkpoint)
      pruned == Project(active, Prunable(active, Forced), checkpoint)
      tail == RecentTailStart(IF Forced THEN HardTailTokens ELSE RecentTailTokens)
      enough == ~Forced /\ (whole.tokens <= SoftPressure \/ pruned.tokens <= CompactionPressure)
  IN
  /\ pc = "prepare"
  /\ \/ /\ enough
        /\ Send(IF whole.tokens <= SoftPressure THEN whole ELSE pruned)
        /\ UNCHANGED <<mode, hardRecall, compaction>>
     \/ /\ ~enough /\ tail <= through + 1 /\ pruned.tokens <= Capacity
        /\ Send(pruned)
        /\ UNCHANGED <<mode, hardRecall, compaction>>
     \/ /\ ~enough /\ tail <= through + 1 /\ pruned.tokens > Capacity
        /\ NoCapacity
        /\ UNCHANGED <<compaction, request>>
     \/ /\ ~enough /\ tail > through + 1
        /\ StartCompaction(tail, pruned.tokens)
        /\ UNCHANGED <<mode, hardRecall, request>>
  /\ UNCHANGED <<messages, history, thread, contextVars, step, calls, seen>>

(* _build_runtime_checkpoint: the older messages go to the model piece by  *)
(* piece, each with the checkpoint so far.  An overflow halves the piece,  *)
(* once; any other error of the model, or a second one, ends the run.      *)
FragmentBudget ==
  LET budget == Least((Capacity * 60) \div 100, Capacity - WrapperTokens - compaction.text)
  IN IF compaction.retried THEN Most(1, budget \div 2) ELSE budget

FragmentSize == Least(compaction.left, FragmentBudget)

CompactFragment ==
  /\ pc = "compact" /\ FragmentBudget > 0
  /\ \/ \E text \in 1..CheckpointTokens :
          /\ compaction' = [compaction EXCEPT !.left = @ - FragmentSize, !.retried = FALSE, !.text = text]
          /\ pc' = IF compaction'.left = 0 THEN "rebuild" ELSE "compact"
          /\ UNCHANGED <<mode, hardRecall>>
     \/ ~compaction.retried /\ compaction' = [compaction EXCEPT !.retried = TRUE]
        /\ UNCHANGED <<pc, mode, hardRecall>>
     \/ Fails /\ UNCHANGED compaction
  /\ UNCHANGED <<messages, history, thread, contextVars, step, calls, seen, request>>

(* The model answers nothing, or there is no room for a piece.             *)
CompactNothing ==
  /\ pc = "compact"
  /\ NoCapacity
  /\ UNCHANGED <<messages, history, thread, contextVars, step, calls, seen, compaction, request>>

(* Fault: what was rebuilt is sent whatever its length. *)
RebuildUnchecked ==
  LET active == Active(compaction.tail)
      rebuilt == Project(active, Prunable(active, Forced), compaction.text)
  IN
  /\ pc = "rebuild"
  /\ checkpoint' = compaction.text
  /\ summarised' = summarised \cup Older(compaction.tail)
  /\ through' = compaction.tail - 1
  /\ Send(rebuilt)
  /\ UNCHANGED <<mode, hardRecall, messages, history, thread, step, calls, seen, compaction>>

Rebuild ==
  LET active == Active(compaction.tail)
      rebuilt == Project(active, Prunable(active, Forced), compaction.text)
      reclaims == compaction.before - rebuilt.tokens >= RequiredReclaim(compaction.before)
  IN
  /\ pc = "rebuild"
  /\ IF (reclaims \/ checkpoint # 0) /\ rebuilt.tokens <= Capacity
     THEN /\ checkpoint' = compaction.text
          /\ summarised' = summarised \cup Older(compaction.tail)
          /\ through' = compaction.tail - 1
          /\ Send(rebuilt)
          /\ UNCHANGED <<mode, hardRecall>>
     ELSE NoCapacity /\ UNCHANGED <<contextVars, request>>
  /\ UNCHANGED <<messages, history, thread, step, calls, seen, compaction>>

-----------------------------------------------------------------------------
(* ReActRunner.run.                                                        *)

Answer ==
  /\ pc = "send"
  /\ \E n \in 0..MaxCalls :
       /\ messages' = Append(messages, Asking(n))
       /\ calls' = n
       /\ pc' = IF n = 0 THEN "done" ELSE "tools"
  /\ UNCHANGED <<history, thread, contextVars, mode, hardRecall, step, compaction, request, seen>>

(* Fault: an overflow is rebuilt as often as it comes. *)
OverflowAgain ==
  /\ pc = "send"
  /\ mode' = "hard" /\ hardRecall' = TRUE /\ pc' = "prepare"
  /\ UNCHANGED <<messages, history, thread, contextVars, step, calls, seen, compaction, request>>

(* The provider says that the request is too long: it is rebuilt and sent  *)
(* once more.                                                              *)
Overflow ==
  /\ pc = "send"
  /\ IF mode = "again" THEN Fails ELSE mode' = "again" /\ hardRecall' = TRUE /\ pc' = "prepare"
  /\ UNCHANGED <<messages, history, thread, contextVars, step, calls, seen, compaction, request>>

ProviderFails ==
  /\ pc = "send"
  /\ Fails
  /\ UNCHANGED <<messages, history, thread, contextVars, step, calls, seen, compaction, request>>

(* The guard: three equal traces, or two failed ones in turn.              *)
Last(s, n) == SubSeq(s, Most(1, Len(s) - n + 1), Len(s))

Repeats(s) == Len(s) >= RepeatThreshold /\ \A r \in Range(Last(s, RepeatThreshold)) : r = s[Len(s)]

FailsInTurn(s) ==
  LET w == Last(s, 4)
  IN Len(w) = 4 /\ w[1] = w[3] /\ w[2] = w[4] /\ w[1] # w[2] /\ \A i \in 1..4 : ~w[i].ok

(* Fault: the guard keeps no more than it needs for a repetition. *)
RecordThree(r) == Last(Append(seen, r), 3)

Record(r) == Last(Append(seen, r), GuardHistory)

Notice == Plain("assistant", 1)

RunTool ==
  /\ pc = "tools"
  /\ \E r \in Results :
       LET told == Append(messages, Answering(Len(messages) + 1, r))
           blocked == Repeats(Record(r)) \/ FailsInTurn(Record(r))
           over == calls = 1 /\ step = MaxSteps
       IN /\ seen' = Record(r)
          /\ messages' = IF blocked \/ over THEN Append(told, Notice) ELSE told
          /\ pc' = IF blocked \/ over THEN "done" ELSE IF calls > 1 THEN "tools" ELSE "prepare"
          /\ step' = IF pc' = "prepare" THEN step + 1 ELSE step
  /\ mode' = IF calls = 1 THEN "plain" ELSE mode
  /\ calls' = calls - 1
  /\ UNCHANGED <<history, thread, contextVars, hardRecall, compaction, request>>

Finished == pc \in {"done", "failed"} /\ UNCHANGED vars

Next ==
  Prepare \/ CompactFragment \/ CompactNothing \/ Rebuild
  \/ Answer \/ Overflow \/ ProviderFails \/ RunTool \/ Finished

Spec == Init /\ [][Next]_vars /\ WF_vars(Next)

-----------------------------------------------------------------------------
(* No call of the model, nor of the builder of a checkpoint, asks for more *)
(* than the model takes.                                                   *)
RequestFits ==
  /\ pc = "send" => request.tokens <= Capacity
  /\ pc = "compact" /\ FragmentBudget > 0 => WrapperTokens + compaction.text + FragmentSize <= Capacity

(* However often it was compacted, a request has the input of the user,    *)
(* word for word, and every other message is either in it or in the        *)
(* checkpoint; a result never goes without its call nor a call without its *)
(* results, and the body that is left out is one that can be read again.   *)
RequestIsWhole ==
  pc = "send" =>
    /\ request.messages \cup summarised = 1..Len(messages)
    /\ request.messages \cap summarised = {}
    /\ Current \in request.messages \ request.pruned
    /\ \A i \in DOMAIN messages : \A c \in messages[i].calls :
         i \in request.messages <=> c \in request.messages
    /\ \A i \in request.pruned : messages[i].result.replayable

(* A run that goes on has nowhere in its trace three equal calls in a row, *)
(* nor two failing ones in turn: the window of the guard misses none.      *)
NoProgressIsStopped ==
  LET ran == {i \in DOMAIN messages : messages[i].role = "tool"}
      InARow(i, j) == i < j /\ \A k \in ran : ~(i < k /\ k < j)
      result(i) == messages[i].result
  IN pc # "done" =>
       /\ \A i, j, k \in ran :
            InARow(i, j) /\ InARow(j, k) => ~(result(i) = result(j) /\ result(j) = result(k))
       /\ \A i, j, k, l \in ran :
            /\ InARow(i, j) /\ InARow(j, k) /\ InARow(k, l)
            /\ result(i) = result(k) /\ result(j) = result(l) /\ ~result(i).ok /\ ~result(j).ok
            => result(i) = result(j)

(* Every request ends, whatever the model and its provider answer.         *)
RunEnds == <>(pc \in {"done", "failed"})
=============================================================================
