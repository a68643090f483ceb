--------------------------- MODULE AgentLoopProofs ---------------------------
(***************************************************************************)
(* The safety properties of AgentLoop hold for any capacity of the model,  *)
(* any sizes of inputs, answers and results, and any number of steps and   *)
(* compactions.                                                            *)
(*                                                                         *)
(* What they need beside the types: the messages are units of an answer    *)
(* and the results of its calls (Units), a checkpoint stands for whole     *)
(* units, and will when a compaction is done (Summary, Building), what is  *)
(* sent is all that it does not stand for (Sent), and the window of the    *)
(* guard is the end of the trace (Window).                                 *)
(***************************************************************************)
EXTENDS AgentLoop, DataLemmas

-----------------------------------------------------------------------------
(* The inductive invariant.                                                *)

Message ==
  [role : {"user", "assistant", "tool"}, size : Nat, calls : SUBSET Nat,
   answers : Nat, result : Results \cup {"none"}]

Compaction == [tail : Nat, before : Int, left : Int, retried : BOOLEAN, text : Nat]

Types ==
  /\ messages \in Seq(Message) /\ history \in Nat /\ thread \in Nat
  /\ checkpoint \in Nat /\ through \in 0..Len(messages)
  /\ pc \in {"prepare", "compact", "rebuild", "send", "tools", "done", "failed"}
  /\ hardRecall \in BOOLEAN /\ step \in Nat
  /\ compaction \in Compaction
  /\ calls \in Nat /\ seen \in Seq(Results)

Tools == {i \in DOMAIN messages : messages[i].role = "tool"}

(* A call and its results stand together, those that have not run come     *)
(* next, and the input of the user is neither.                             *)
Units ==
  /\ Current \in DOMAIN messages
  /\ messages[Current].role = "user" /\ messages[Current].calls = {}
  /\ \A i \in Tools : messages[i].answers = i /\ messages[i].result \in Results
  /\ \A i \in DOMAIN messages : \A c \in messages[i].calls :
       /\ i < c /\ c <= Len(messages) + calls
       /\ (i + 1)..c \subseteq messages[i].calls
       /\ ((i + 1)..c) \cap DOMAIN messages \subseteq Tools
  /\ IF pc = "tools" THEN calls > 0 ELSE calls = 0

(* No call before an index has a result from there on.                     *)
Between(from) ==
  \A i \in DOMAIN messages : i < from => \A c \in messages[i].calls : c < from

Summary ==
  /\ summarised = (1..through) \ {Current}
  /\ Between(through + 1)

(* A second try of a piece is one of a piece that there was room for.      *)
Building ==
  /\ pc \in {"compact", "rebuild"} =>
       compaction.tail \in (through + 2)..Len(messages) /\ Between(compaction.tail)
  /\ pc = "compact" /\ compaction.retried =>
       0 < Least((Capacity * 60) \div 100, Capacity - WrapperTokens - compaction.text)

Replayable(S) == \A i \in S : i \in Tools /\ messages[i].result.replayable

Sent ==
  pc = "send" =>
    /\ request.messages = Active(through + 1)
    /\ request.pruned \subseteq request.messages /\ Replayable(request.pruned)
    /\ request.tokens \in Int /\ request.tokens <= Capacity

(* The results from one on: the guard has seen the last eight.             *)
Count(T, i) == Cardinality({j \in T : i <= j})
Rank(i) == Count(Tools, i)

Window ==
  /\ Len(seen) <= GuardHistory
  /\ \A i \in Tools :
       IF Rank(i) <= Len(seen) THEN seen[Len(seen) + 1 - Rank(i)] = messages[i].result
       ELSE Len(seen) = GuardHistory

IInv ==
  /\ Types
  /\ pc # "done" => Units /\ Summary /\ Building /\ Sent /\ Window /\ NoProgressIsStopped

-----------------------------------------------------------------------------
(* Messages and their sizes.                                               *)

(* One message more.                                                       *)
LEMMA Appended ==
  ASSUME messages \in Seq(Message), NEW m \in Message
  PROVE  /\ Append(messages, m) \in Seq(Message)
         /\ Len(messages) \in Nat /\ DOMAIN messages = 1..Len(messages)
         /\ Len(Append(messages, m)) = Len(messages) + 1
         /\ DOMAIN Append(messages, m) = 1..(Len(messages) + 1)
         /\ \A i \in 1..Len(messages) : Append(messages, m)[i] = messages[i]
         /\ Append(messages, m)[Len(messages) + 1] = m
OBVIOUS

(* What a message is made of.                                              *)
LEMMA MessageType ==
  ASSUME messages \in Seq(Message), NEW i \in DOMAIN messages
  PROVE  /\ Len(messages) \in Nat /\ DOMAIN messages = 1..Len(messages) /\ i \in Nat
         /\ messages[i].size \in Nat /\ messages[i].calls \subseteq Nat
<1>1. messages[i] \in Message
  OBVIOUS
<1> QED
  BY <1>1 DEF Message

(* The messages of a set have a size.                                      *)
LEMMA SizeType ==
  ASSUME messages \in Seq(Message), NEW S, S \subseteq DOMAIN messages
  PROVE  Size(S) \in Nat
<1> DEFINE f == [i \in DOMAIN messages |-> messages[i].size]
<1>1. IsFiniteSet(S)
  BY PositionsCount
<1>2. ASSUME NEW i \in S PROVE f[i] \in Nat
  BY MessageType
<1> HIDE DEF f
<1>3. SumFunctionOnSet(f, S) \in Nat
  BY <1>1, <1>2, SumType
<1> QED
  BY <1>3 DEF Size, f

(* Positions have a least one and a greatest one.                          *)
LEMMA LeastPosition ==
  ASSUME NEW n \in Nat, NEW S, S \subseteq 1..n, S # {}
  PROVE  Min(S) \in S
<1>1. S \subseteq Nat
  OBVIOUS
<1>2. \E x \in S : \A y \in S : x <= y
  BY <1>1, LeastNatural
<1> QED
  BY <1>2 DEF Min

(* The greatest one is the least one from the other end.                   *)
LEMMA GreatestPosition ==
  ASSUME NEW n \in Nat, NEW S, S \subseteq 1..n, S # {}
  PROVE  Max(S) \in S
<1> DEFINE T == {n - x : x \in S}
<1>1. T \subseteq Nat /\ T # {}
  <2>1. \A x \in S : n - x \in Nat
    OBVIOUS
  <2> QED
    BY <2>1
<1> HIDE DEF T
<1>2. PICK t \in T : \A u \in T : t <= u
  BY <1>1, LeastNatural
<1>3. PICK x \in S : t = n - x
  BY DEF T
<1>4. ASSUME NEW y \in S PROVE x >= y
  <2>1. n - y \in T
    BY DEF T
  <2> QED
    BY <1>2, <1>3, <2>1
<1> QED
  BY <1>4 DEF Max

(* What is sent: the active messages, some of them without a body, and a   *)
(* number of tokens.                                                       *)
LEMMA ProjectType ==
  ASSUME Types, NEW active, active \subseteq DOMAIN messages,
         NEW pruned, pruned \subseteq active, NEW runtime \in Nat
  PROVE  /\ Project(active, pruned, runtime).messages = active
         /\ Project(active, pruned, runtime).pruned = pruned
         /\ Project(active, pruned, runtime).tokens \in Nat
<1>1. messages \in Seq(Message) /\ thread \in Nat
  BY DEF Types
<1>2. Size(active \ pruned) \in Nat
  BY <1>1, SizeType
<1>3. Cardinality(pruned) \in Nat
  BY <1>1, PositionsCount
<1>4. MapSize \in Nat /\ SystemTokens \in Nat
  BY AgentLoopAssumption DEF MapSize
<1>5. SystemTokens + runtime + thread + MapSize
        + Size(active \ pruned) + PrunedTokens * Cardinality(pruned) \in Nat
  BY <1>1, <1>2, <1>3, <1>4 DEF PrunedTokens
<1> QED
  BY <1>5 DEF Project

(* What loses its body is a result of a call that can be repeated.         *)
LEMMA PrunableType ==
  ASSUME NEW active, active \subseteq DOMAIN messages, NEW aggressive \in BOOLEAN
  PROVE  Prunable(active, aggressive) \subseteq active /\ Replayable(Prunable(active, aggressive))
BY DEF Prunable, Replayable, Tools

(* The active messages are messages.                                       *)
LEMMA ActiveType ==
  ASSUME Types, Units, NEW from \in Nat \ {0}
  PROVE  Active(from) \subseteq DOMAIN messages
<1>1. messages \in Seq(Message) /\ Current \in DOMAIN messages
  BY DEF Types, Units
<1> QED
  BY <1>1 DEF Active

-----------------------------------------------------------------------------
(* Where the older part of the messages ends.                              *)

(* It ends where a unit ends: a result is in the tail if its call is.      *)
LEMMA TailStartsAUnit ==
  ASSUME Types, Units, Between(through + 1), calls = 0, NEW budget \in Nat,
         NEW tail, tail = RecentTailStart(budget), tail > through + 1
  PROVE  tail \in (through + 2)..Len(messages) /\ Between(tail)
<1>1. messages \in Seq(Message) /\ through \in 0..Len(messages) /\ Len(messages) \in Nat
      /\ DOMAIN messages = 1..Len(messages)
  BY DEF Types
<1> DEFINE starts == UnitStarts(through + 1)
           fits(s) == Size(s..Len(messages)) <= budget
           tails == {s \in starts : s = Max(starts) \/ fits(s)}
<1>2. starts \subseteq (through + 1)..Len(messages)
  BY DEF UnitStarts
<1>3. starts # {}
  <2>1. CASE through = Len(messages)
    <3>1. starts = {}
      BY <1>1, <1>2, <2>1
    <3>2. tail = Len(messages) + 1
      BY <3>1 DEF RecentTailStart
    <3> QED
      BY <1>1, <2>1, <3>2
  <2>2. CASE through # Len(messages)
    <3>1. through + 1 \in (through + 1)..Len(messages)
      BY <2>2 DEF Types
    <3>2. \A a \in (through + 1)..(through + 1 - 1) : FALSE
      BY <1>1
    <3>3. through + 1 \in starts
      BY <3>1, <3>2 DEF UnitStarts
    <3> QED
      BY <3>3
  <2> QED
    BY <2>1, <2>2
<1>4. tail = Min(tails)
  BY <1>3 DEF RecentTailStart
<1>5. tail \in starts
  <2>1. starts \subseteq 1..Len(messages)
    BY <1>1, <1>2
  <2> HIDE DEF starts
  <2>2. Max(starts) \in starts
    BY <1>1, <1>3, <2>1, GreatestPosition
  <2>3. tails \subseteq 1..Len(messages) /\ tails # {} /\ tails \subseteq starts
    BY <2>1, <2>2
  <2> HIDE DEF tails
  <2>4. Min(tails) \in tails
    BY <1>1, <2>3, LeastPosition
  <2> QED
    BY <1>4, <2>3, <2>4
<1>6. tail \in (through + 1)..Len(messages)
      /\ ~ \E a \in (through + 1)..(tail - 1) : AsksFor(a, tail)
  BY <1>5 DEF UnitStarts
<1>7. ASSUME NEW i \in DOMAIN messages, i < tail, NEW c \in messages[i].calls
      PROVE  c < tail
  <2>1. messages[i].calls \subseteq Nat /\ c \in Nat /\ i \in Nat
    BY <1>1, MessageType
  <2> SUFFICES ASSUME c >= tail PROVE FALSE
    BY <1>6, <2>1
  <2>2. i >= through + 1
    BY <1>1, <1>6, <1>7, <2>1 DEF Between
  <2>3. (i + 1)..c \subseteq messages[i].calls /\ ((i + 1)..c) \cap DOMAIN messages \subseteq Tools
    BY <1>7 DEF Units
  <2>4. ASSUME NEW k \in (i + 1)..tail
        PROVE  messages[k].role = "tool" /\ messages[k].answers \in messages[i].calls
    <3>1. k \in (i + 1)..c /\ k \in DOMAIN messages
      BY <1>1, <1>6, <2>1, <2>4
    <3>2. k \in Tools /\ k \in messages[i].calls
      BY <2>3, <3>1
    <3>3. messages[k].answers = k
      BY <3>2 DEF Units
    <3> QED
      BY <3>2, <3>3 DEF Tools
  <2>5. AsksFor(i, tail)
    BY <1>7, <2>4 DEF AsksFor
  <2>6. i \in (through + 1)..(tail - 1)
    BY <1>1, <1>6, <1>7, <2>1, <2>2
  <2> QED
    BY <1>6, <2>5, <2>6
<1> QED
  BY <1>1, <1>6, <1>7 DEF Between

-----------------------------------------------------------------------------
(* The guard.                                                              *)

(* Three equal calls at the end are a repetition.                          *)
LEMMA RepetitionSeen ==
  ASSUME NEW s \in Seq(Results), Len(s) >= 3,
         s[Len(s)] = s[Len(s) - 1], s[Len(s) - 1] = s[Len(s) - 2]
  PROVE  Repeats(s)
<1> DEFINE w == Last(s, RepeatThreshold)
<1>1. Len(s) \in Nat /\ Most(1, Len(s) - RepeatThreshold + 1) = Len(s) - 2
  BY DEF Most, RepeatThreshold
<1>2. w = SubSeq(s, Len(s) - 2, Len(s))
  BY <1>1 DEF Last
<1>3. Len(w) = 3 /\ \A i \in 1..3 : w[i] = s[Len(s) - 2 + i - 1]
  BY <1>1, <1>2, SubSeqType
<1>4. w \in Seq(Results)
  BY <1>1, <1>2, SubSeqType
<1> HIDE DEF w
<1>5. \A r \in Range(w) : r = s[Len(s)]
  <2> SUFFICES ASSUME NEW i \in 1..3 PROVE w[i] = s[Len(s)]
    BY <1>3, <1>4 DEF Range
  <2>1. i = 1 \/ i = 2 \/ i = 3
    OBVIOUS
  <2>2. Len(s) - 2 + 1 - 1 = Len(s) - 2 /\ Len(s) - 2 + 2 - 1 = Len(s) - 1
        /\ Len(s) - 2 + 3 - 1 = Len(s)
    BY <1>1
  <2> QED
    BY <1>3, <2>1, <2>2
<1> QED
  BY <1>5 DEF Repeats, RepeatThreshold, w

(* Two failing calls in turn at the end are seen as such.                  *)
LEMMA TurnsSeen ==
  ASSUME NEW s \in Seq(Results), Len(s) >= 4,
         s[Len(s)] = s[Len(s) - 2], s[Len(s) - 1] = s[Len(s) - 3],
         s[Len(s)] # s[Len(s) - 1], ~s[Len(s)].ok, ~s[Len(s) - 1].ok
  PROVE  FailsInTurn(s)
<1> DEFINE w == Last(s, 4)
<1>1. Len(s) \in Nat /\ Most(1, Len(s) - 4 + 1) = Len(s) - 3
  BY DEF Most
<1>2. w = SubSeq(s, Len(s) - 3, Len(s))
  BY <1>1 DEF Last
<1>3. Len(w) = 4 /\ \A i \in 1..4 : w[i] = s[Len(s) - 3 + i - 1]
  BY <1>1, <1>2, SubSeqType, SMTT(30)
<1> HIDE DEF w
<1>4. w[1] = s[Len(s) - 3] /\ w[2] = s[Len(s) - 2] /\ w[3] = s[Len(s) - 1] /\ w[4] = s[Len(s)]
  <2>1. Len(s) - 3 + 1 - 1 = Len(s) - 3 /\ Len(s) - 3 + 2 - 1 = Len(s) - 2
        /\ Len(s) - 3 + 3 - 1 = Len(s) - 1 /\ Len(s) - 3 + 4 - 1 = Len(s)
    BY <1>1
  <2> QED
    BY <1>3, <2>1
<1>5. \A i \in 1..4 : ~w[i].ok
  <2>1. \A i \in 1..4 : i = 1 \/ i = 2 \/ i = 3 \/ i = 4
    OBVIOUS
  <2> QED
    BY <1>4, <2>1
<1> QED
  BY <1>3, <1>4, <1>5 DEF FailsInTurn, w

(* The window after one more call.                                         *)
LEMMA RecordType ==
  ASSUME seen \in Seq(Results), Len(seen) <= GuardHistory, NEW r \in Results
  PROVE  /\ Record(r) \in Seq(Results)
         /\ Len(Record(r)) = Least(Len(seen) + 1, GuardHistory)
         /\ Record(r)[Len(Record(r))] = r
         /\ \A n \in Nat \ {0} : n < Len(Record(r)) =>
              n <= Len(seen) /\ Record(r)[Len(Record(r)) - n] = seen[Len(seen) + 1 - n]
<1> DEFINE s == Append(seen, r)
           start == Most(1, Len(s) - GuardHistory + 1)
<1>1. Len(seen) \in Nat /\ Len(seen) <= 8
  BY DEF GuardHistory
<1>2. s \in Seq(Results) /\ Len(s) = Len(seen) + 1 /\ s[Len(seen) + 1] = r
      /\ \A i \in 1..Len(seen) : s[i] = seen[i]
  OBVIOUS
<1> HIDE DEF s
<1>3. start \in 1..Len(s) /\ start \in Nat \ {0} /\ Len(s) \in 0..Len(s)
  BY <1>1, <1>2, SMTT(30) DEF Most, GuardHistory
<1>4. Len(s) - start + 1 = Least(Len(seen) + 1, GuardHistory)
  <2>1. Len(s) = Len(seen) + 1
    BY <1>2
  <2>2. ASSUME NEW k \in Nat, k <= 8, NEW n, n = k + 1
        PROVE  n - Most(1, n - 8 + 1) + 1 = Least(k + 1, 8)
    BY <2>2 DEF Most, Least
  <2> QED
    BY <1>1, <2>1, <2>2, Zenon DEF GuardHistory
<1> HIDE DEF start
<1>5. /\ SubSeq(s, start, Len(s)) \in Seq(Results)
      /\ Len(SubSeq(s, start, Len(s))) = Len(s) - start + 1
      /\ \A i \in 1..(Len(s) - start + 1) : SubSeq(s, start, Len(s))[i] = s[start + i - 1]
  BY <1>2, <1>3, SubSeqType
<1>6. Record(r) = SubSeq(s, start, Len(s))
  BY DEF Record, Last, s, start
<1> DEFINE w == Record(r)
<1>7. w \in Seq(Results) /\ Len(w) = Len(s) - start + 1 /\ \A i \in 1..(Len(s) - start + 1) : w[i] = s[start + i - 1]
  BY <1>5, <1>6
<1> HIDE DEF w
<1>8. w[Len(w)] = r
  <2>1. Len(w) \in 1..(Len(s) - start + 1) /\ start + Len(w) - 1 = Len(seen) + 1
    BY <1>1, <1>2, <1>3, <1>7
  <2> QED
    BY <1>2, <1>7, <2>1
<1>9. ASSUME NEW n \in Nat \ {0}, n < Len(w)
      PROVE  n <= Len(seen) /\ w[Len(w) - n] = seen[Len(seen) + 1 - n]
  <2>1. Len(w) - n \in 1..(Len(s) - start + 1)
        /\ start + (Len(w) - n) - 1 = Len(seen) + 1 - n
        /\ Len(seen) + 1 - n \in 1..Len(seen) /\ n <= Len(seen)
    BY <1>1, <1>2, <1>3, <1>7, <1>9
  <2> QED
    BY <1>2, <1>7, <2>1
<1> QED
  BY <1>4, <1>7, <1>8, <1>9 DEF w

-----------------------------------------------------------------------------
(* The steps between two calls of the model.                               *)

Running == Units /\ Summary /\ Building /\ Sent /\ Window /\ NoProgressIsStopped

(* The first messages are those of the thread and the user's.              *)
LEMMA InitInv == Init => IInv
<1> SUFFICES ASSUME Init PROVE IInv
  OBVIOUS
<1>1. PICK h \in Histories, u \in UserTokens :
        /\ messages = Append(Said(h), Plain("user", u))
        /\ history = Len(h)
  BY DEF Init
<1>2. h \in Seq(Nat) /\ u \in Nat
  BY AgentLoopAssumption
<1>3. Said(h) \in Seq(Message) /\ Len(Said(h)) = Len(h)
  <2>1. ASSUME NEW i \in DOMAIN h
        PROVE  Plain(IF i % 2 = 1 THEN "user" ELSE "assistant", h[i]) \in Message
    BY <1>2 DEF Plain, Message
  <2>2. DOMAIN h = 1..Len(h) /\ Len(h) \in Nat
    BY <1>2
  <2> QED
    BY <2>1, <2>2 DEF Said
<1>4. Plain("user", u) \in Message
  BY <1>2 DEF Plain, Message
<1>5. /\ messages \in Seq(Message) /\ Len(messages) = Len(h) + 1
      /\ messages[Current] = Plain("user", u)
      /\ \A i \in 1..Len(h) : messages[i] = Said(h)[i]
  BY <1>1, <1>2, <1>3, <1>4 DEF Current
<1>6. ASSUME NEW i \in DOMAIN messages
      PROVE  messages[i].role # "tool" /\ messages[i].calls = {}
  <2>1. CASE i = Current
    BY <1>5, <2>1 DEF Plain
  <2>2. CASE i # Current
    <3>1. i \in 1..Len(h)
      BY <1>1, <1>2, <1>5, <2>2 DEF Current
    <3>2. i \in DOMAIN h /\ messages[i] = Said(h)[i]
      BY <1>2, <1>5, <3>1
    <3>3. Said(h)[i] = Plain(IF i % 2 = 1 THEN "user" ELSE "assistant", h[i])
      BY <3>2 DEF Said
    <3> QED
      BY <3>2, <3>3 DEF Plain
  <2> QED
    BY <2>1, <2>2
<1>7. Tools = {}
  BY <1>6 DEF Tools
<1>8. Types
  <2>1. thread \in Nat /\ compaction \in Compaction /\ seen \in Seq(Results)
    BY AgentLoopAssumption DEF Init, NoCompaction, Compaction
  <2>2. through \in 0..Len(messages) /\ history \in Nat
    BY <1>1, <1>2, <1>5 DEF Init
  <2> QED
    BY <1>5, <2>1, <2>2 DEF Types, Init
<1>9. Units
  <2>1. Current \in DOMAIN messages
    BY <1>1, <1>2, <1>5 DEF Current
  <2>2. messages[Current].role = "user" /\ messages[Current].calls = {}
    BY <1>5 DEF Plain
  <2> QED
    BY <1>6, <1>7, <2>1, <2>2 DEF Units, Init
<1>10. Summary
  <2>1. 1..through = {} /\ summarised = {}
    BY DEF Init
  <2> QED
    BY <1>6, <2>1 DEF Summary, Between
<1>11. Building /\ Sent
  BY DEF Building, Sent, Init
<1>12. Window /\ NoProgressIsStopped
  <2>1. Len(seen) = 0
    BY DEF Init
  <2> QED
    BY <1>7, <2>1 DEF Window, NoProgressIsStopped, Tools, GuardHistory
<1> QED
  BY <1>8, <1>9, <1>10, <1>11, <1>12 DEF IInv

(* Without a new message what holds of them goes on to hold.               *)
LEMMA SameMessages ==
  ASSUME Types, Running, pc \notin {"tools", "done"}, pc' # "tools",
         UNCHANGED <<messages, history, calls, seen>>
  PROVE  Units' /\ Window' /\ NoProgressIsStopped'
<1>1. Units'
  BY DEF Units, Tools, Current, Running
<1>2. Window'
  BY DEF Window, Rank, Tools, Running
<1>3. NoProgressIsStopped'
  BY DEF NoProgressIsStopped, Running
<1> QED
  BY <1>1, <1>2, <1>3

(* The summary stands for what it stood for.                               *)
LEMMA SameSummary ==
  ASSUME Types, Running, UNCHANGED <<messages, history, through, summarised>>
  PROVE  Summary'
BY DEF Running, Summary, Between, Current

(* A request that is sent has the active messages and is short enough.     *)
LEMMA SendStep ==
  ASSUME Types, Units, NEW from \in Nat \ {0}, NEW aggressive \in BOOLEAN, NEW runtime \in Nat,
         NEW pruned, pruned = {} \/ pruned = Prunable(Active(from), aggressive)
  PROVE  LET r == Project(Active(from), pruned, runtime)
         IN  /\ r.messages = Active(from) /\ r.pruned \subseteq Active(from)
             /\ Replayable(r.pruned) /\ r.tokens \in Int
<1>1. Active(from) \subseteq DOMAIN messages
  BY ActiveType
<1>2. Prunable(Active(from), aggressive) \subseteq Active(from)
      /\ Replayable(Prunable(Active(from), aggressive))
  BY <1>1, PrunableType
<1>3. pruned \subseteq Active(from) /\ Replayable(pruned)
  BY <1>2 DEF Replayable
<1> HIDE DEF Project
<1>4. /\ Project(Active(from), pruned, runtime).messages = Active(from)
      /\ Project(Active(from), pruned, runtime).pruned = pruned
      /\ Project(Active(from), pruned, runtime).tokens \in Nat
  BY <1>1, <1>3, ProjectType
<1> QED
  BY <1>3, <1>4

(* The run fails, or the request is rebuilt.                               *)
LEMMA NoCapacityStep ==
  ASSUME Types, Running, pc \in {"prepare", "compact", "rebuild", "send"},
         pc' \in {"prepare", "failed"}, hardRecall' \in BOOLEAN,
         UNCHANGED <<messages, history, thread, contextVars, step, calls, seen, compaction>>
  PROVE  IInv'
<1>1. Types'
  BY DEF Types, contextVars
<1>2. Units' /\ Window' /\ NoProgressIsStopped'
  BY SameMessages
<1>3. Summary'
  BY SameSummary DEF contextVars
<1>4. Building' /\ Sent'
  BY DEF Building, Sent
<1> QED
  BY <1>1, <1>2, <1>3, <1>4 DEF IInv

(* Pressures are shares of the capacity.                                   *)
LEMMA Shares ==
  /\ Capacity \in Nat /\ SoftPressure <= Capacity /\ CompactionPressure <= Capacity
  /\ SoftPressure \in Nat /\ CompactionPressure \in Nat
  /\ RecentTailTokens \in Nat /\ HardTailTokens \in Nat /\ CheckpointTokens \in Nat
<1>1. Capacity \in Nat /\ Kibi \in Nat
  BY AgentLoopAssumption
<1>2. SoftPressure \in Nat /\ SoftPressure <= Capacity
  BY <1>1 DEF SoftPressure
<1>3. CompactionPressure \in Nat /\ CompactionPressure <= Capacity
  BY <1>1 DEF CompactionPressure
<1>4. RecentTailTokens \in Nat
  <2>1. (Capacity * 20) \div 100 \in Nat /\ 128 * Kibi \in Nat
    BY <1>1
  <2> QED
    BY <2>1 DEF RecentTailTokens, Least
<1>5. HardTailTokens \in Nat
  <2>1. RecentTailTokens \div 2 \in Nat /\ 64 * Kibi \in Nat
    BY <1>1, <1>4
  <2> QED
    BY <2>1 DEF HardTailTokens, Least
<1>6. CheckpointTokens \in Nat
  <2>1. (Capacity * 4) \div 100 \in Nat /\ 16 * Kibi \in Nat
    BY <1>1
  <2> QED
    BY <2>1 DEF CheckpointTokens, Least
<1> QED
  BY <1>1, <1>2, <1>3, <1>4, <1>5, <1>6

(* prepare: it is sent, or its older part is compacted, or it fails.       *)
LEMMA PrepareStep == ASSUME Types, Running, Prepare PROVE IInv'
<1> DEFINE active == Active(through + 1)
           whole == Project(active, {}, checkpoint)
           pruned == Project(active, Prunable(active, Forced), checkpoint)
           tail == RecentTailStart(IF Forced THEN HardTailTokens ELSE RecentTailTokens)
           enough == ~Forced /\ (whole.tokens <= SoftPressure \/ pruned.tokens <= CompactionPressure)
<1>1. pc = "prepare" /\ UNCHANGED <<messages, history, thread, contextVars, step, calls, seen>>
  BY DEF Prepare
<1>2. through + 1 \in Nat \ {0} /\ checkpoint \in Nat /\ Forced \in BOOLEAN
  BY DEF Types, Forced
<1>3. /\ whole.messages = active /\ whole.pruned \subseteq active
      /\ Replayable(whole.pruned) /\ whole.tokens \in Int
  BY <1>2, SendStep DEF Running
<1>4. /\ pruned.messages = active /\ pruned.pruned \subseteq active
      /\ Replayable(pruned.pruned) /\ pruned.tokens \in Int
  BY <1>2, SendStep DEF Running
<1> HIDE DEF whole, pruned
<1>5. ASSUME NEW r \in {whole, pruned}, Send(r), r.tokens <= Capacity, UNCHANGED <<hardRecall, compaction>>
      PROVE  IInv'
  <2>1. pc' = "send" /\ request' = r
    BY <1>5 DEF Send
  <2>2. Types'
    BY <1>1, <1>5, <2>1 DEF Types, contextVars
  <2>3. Units' /\ Window' /\ NoProgressIsStopped'
    BY <1>1, <2>1, SameMessages
  <2>4. Summary'
    BY <1>1, SameSummary DEF contextVars
  <2>5. Building'
    BY <2>1 DEF Building
  <2>6. Sent'
    <3>1. request'.messages = active /\ request'.pruned \subseteq active
          /\ Replayable(request'.pruned) /\ request'.tokens \in Int /\ request'.tokens <= Capacity
      BY <1>3, <1>4, <1>5, <2>1
    <3>2. Active(through + 1)' = active
      BY <1>1 DEF Active, Current, contextVars
    <3>3. Replayable(request.pruned)'
      BY <1>1, <3>1 DEF Replayable, Tools
    <3> HIDE DEF active
    <3> QED
      BY <3>1, <3>2, <3>3 DEF Sent
  <2> QED
    BY <2>2, <2>3, <2>4, <2>5, <2>6 DEF IInv
<1>6. CASE enough /\ Send(IF whole.tokens <= SoftPressure THEN whole ELSE pruned)
           /\ UNCHANGED <<mode, hardRecall, compaction>>
  <2> DEFINE r == IF whole.tokens <= SoftPressure THEN whole ELSE pruned
  <2>1. r \in {whole, pruned} /\ r.tokens <= Capacity
    BY <1>3, <1>4, <1>6, Shares
  <2> QED
    BY <1>5, <1>6, <2>1
<1>7. CASE pruned.tokens <= Capacity /\ Send(pruned) /\ UNCHANGED <<mode, hardRecall, compaction>>
  BY <1>5, <1>7
<1>8. CASE NoCapacity /\ UNCHANGED <<compaction, request>>
  <2>1. pc' \in {"prepare", "failed"} /\ hardRecall' \in BOOLEAN
    BY <1>8 DEF NoCapacity, Fails, Types
  <2> QED
    BY <1>1, <1>8, <2>1, NoCapacityStep
<1>9. CASE ~enough /\ tail > through + 1 /\ StartCompaction(tail, pruned.tokens)
           /\ UNCHANGED <<mode, hardRecall, request>>
  <2>1. tail \in (through + 2)..Len(messages) /\ Between(tail)
    <3>1. calls = 0 /\ Between(through + 1) /\ Units
      BY <1>1 DEF Running, Units, Summary
    <3>2. (IF Forced THEN HardTailTokens ELSE RecentTailTokens) \in Nat
      BY Shares
    <3> QED
      BY <1>9, <3>1, <3>2, TailStartsAUnit
  <2> HIDE DEF tail
  <2> DEFINE older == Older(tail)
             bare == Prunable(older, TRUE)
             left == Most(1, Size(older \ bare) + PrunedTokens * Cardinality(bare))
  <2>2. messages \in Seq(Message) /\ through \in Nat /\ tail \in Nat
    BY <2>1 DEF Types
  <2>3. left \in Int
    <3>1. older \subseteq DOMAIN messages
      BY <2>1, <2>2 DEF Older
    <3>2. bare \subseteq older
      BY <3>1, PrunableType
    <3> HIDE DEF older, bare
    <3>3. Size(older \ bare) \in Nat
      BY <2>2, <3>1, SizeType
    <3>4. Cardinality(bare) \in Nat
      BY <2>2, <3>1, <3>2, PositionsCount
    <3> QED
      BY <3>3, <3>4 DEF Most, PrunedTokens
  <2> HIDE DEF left
  <2>4. compaction' = [tail |-> tail, before |-> pruned.tokens, retried |-> FALSE,
                       left |-> left, text |-> checkpoint] /\ pc' = "compact"
    BY <1>9 DEF StartCompaction, left
  <2>5. compaction' \in Compaction /\ compaction'.tail = tail /\ ~compaction'.retried
    BY <1>2, <1>4, <2>2, <2>3, <2>4 DEF Compaction
  <2>6. Types'
    BY <1>1, <1>9, <2>4, <2>5 DEF Types, contextVars
  <2>7. Units' /\ Window' /\ NoProgressIsStopped'
    BY <1>1, <2>4, SameMessages
  <2>8. Summary'
    BY <1>1, SameSummary DEF contextVars
  <2>9. Building' /\ Sent'
    BY <1>1, <2>1, <2>4, <2>5 DEF Building, Between, Sent, contextVars
  <2> QED
    BY <2>6, <2>7, <2>8, <2>9 DEF IInv
<1>10. \/ enough /\ Send(IF whole.tokens <= SoftPressure THEN whole ELSE pruned)
              /\ UNCHANGED <<mode, hardRecall, compaction>>
       \/ pruned.tokens <= Capacity /\ Send(pruned) /\ UNCHANGED <<mode, hardRecall, compaction>>
       \/ NoCapacity /\ UNCHANGED <<compaction, request>>
       \/ ~enough /\ tail > through + 1 /\ StartCompaction(tail, pruned.tokens)
          /\ UNCHANGED <<mode, hardRecall, request>>
  BY DEF Prepare, whole, pruned
<1> QED
  BY <1>6, <1>7, <1>8, <1>9, <1>10

-----------------------------------------------------------------------------
(* A piece more, or a second try of it with half as much.                  *)
LEMMA CompactFragmentStep == ASSUME Types, Running, CompactFragment PROVE IInv'
<1>1. /\ pc = "compact" /\ FragmentBudget > 0
      /\ UNCHANGED <<messages, history, thread, contextVars, step, calls, seen, request>>
  BY DEF CompactFragment
<1>2. compaction \in Compaction /\ CheckpointTokens \in Nat
  BY Shares DEF Types
<1>3. compaction.tail \in (through + 2)..Len(messages) /\ Between(compaction.tail)
  BY <1>1 DEF Running, Building
<1> DEFINE budget == Least((Capacity * 60) \div 100, Capacity - WrapperTokens - compaction.text)
<1>4. budget \in Int
  BY <1>2, AgentLoopAssumption, SMTT(30) DEF Least, Compaction
<1>5. FragmentSize \in Int
  <2>1. compaction.left \in Int
    BY <1>2 DEF Compaction
  <2>2. budget \div 2 \in Int
    BY <1>4
  <2> HIDE DEF budget
  <2>3. FragmentBudget \in Int
    BY <1>4, <2>2 DEF FragmentBudget, Most, budget
  <2> QED
    BY <2>1, <2>3 DEF FragmentSize, Least
<1>6. ASSUME compaction' \in Compaction, compaction'.tail = compaction.tail,
             pc' \in {"compact", "rebuild"}, UNCHANGED <<mode, hardRecall>>,
             compaction'.retried => compaction'.text = compaction.text /\ budget > 0
      PROVE  IInv'
  <2>1. Types'
    BY <1>1, <1>6 DEF Types, contextVars
  <2>2. Units' /\ Window' /\ NoProgressIsStopped'
    BY <1>1, <1>6, SameMessages
  <2>3. Summary'
    BY <1>1, SameSummary DEF contextVars
  <2>4. Building'
    <3>1. Between(compaction.tail)'
      BY <1>1, <1>3, <1>6 DEF Between
    <3> QED
      BY <1>1, <1>3, <1>4, <1>6, <3>1 DEF Building, contextVars
  <2>5. Sent'
    BY <1>6 DEF Sent
  <2> QED
    BY <2>1, <2>2, <2>3, <2>4, <2>5 DEF IInv
<1>7. ASSUME NEW text \in 1..CheckpointTokens,
             compaction' = [compaction EXCEPT !.left = @ - FragmentSize, !.retried = FALSE, !.text = text],
             pc' = IF compaction'.left = 0 THEN "rebuild" ELSE "compact",
             UNCHANGED <<mode, hardRecall>>
      PROVE  IInv'
  <2>1. text \in Nat /\ compaction.left - FragmentSize \in Int
    BY <1>2, <1>5 DEF Compaction
  <2>2. compaction' \in Compaction /\ compaction'.tail = compaction.tail /\ ~compaction'.retried
    BY <1>2, <1>7, <2>1 DEF Compaction
  <2> QED
    BY <1>6, <1>7, <2>2
<1>8. ASSUME ~compaction.retried, compaction' = [compaction EXCEPT !.retried = TRUE],
             UNCHANGED <<pc, mode, hardRecall>>
      PROVE  IInv'
  <2>1. compaction' \in Compaction /\ compaction'.tail = compaction.tail
        /\ compaction'.text = compaction.text
    BY <1>2, <1>8 DEF Compaction
  <2>2. budget > 0
    BY <1>1, <1>8 DEF FragmentBudget
  <2> QED
    BY <1>1, <1>6, <1>8, <2>1, <2>2
<1>9. CASE Fails /\ UNCHANGED compaction
  <2>1. hardRecall' \in BOOLEAN /\ pc' \in {"prepare", "failed"}
    BY <1>9 DEF Fails, Types
  <2> QED
    BY <1>1, <1>9, <2>1, NoCapacityStep
<1> QED
  BY <1>7, <1>8, <1>9 DEF CompactFragment

(* The model answers nothing, or there is no room for a piece.             *)
LEMMA CompactNothingStep == ASSUME Types, Running, CompactNothing PROVE IInv'
<1>1. /\ pc = "compact" /\ pc' \in {"prepare", "failed"} /\ hardRecall' \in BOOLEAN
      /\ UNCHANGED <<messages, history, thread, contextVars, step, calls, seen, compaction>>
  BY DEF CompactNothing, NoCapacity, Fails, Types
<1> QED
  BY <1>1, NoCapacityStep

(* The checkpoint takes the place of the messages before the tail.         *)
LEMMA RebuildStep == ASSUME Types, Running, Rebuild PROVE IInv'
<1> DEFINE active == Active(compaction.tail)
           rebuilt == Project(active, Prunable(active, Forced), compaction.text)
<1>1. pc = "rebuild" /\ UNCHANGED <<messages, history, thread, step, calls, seen, compaction>>
  BY DEF Rebuild
<1>2. compaction.tail \in (through + 2)..Len(messages) /\ Between(compaction.tail)
  BY <1>1 DEF Running, Building
<1>3. messages \in Seq(Message) /\ through \in Nat /\ compaction.tail \in Nat \ {0}
      /\ compaction.text \in Nat /\ Forced \in BOOLEAN
  BY <1>2 DEF Types, Compaction, Forced
<1>4. /\ rebuilt.messages = active /\ rebuilt.pruned \subseteq active
      /\ Replayable(rebuilt.pruned) /\ rebuilt.tokens \in Int
  BY <1>3, SendStep DEF Running
<1> HIDE DEF rebuilt
<1>5. CASE /\ rebuilt.tokens <= Capacity /\ checkpoint' = compaction.text
           /\ summarised' = summarised \cup Older(compaction.tail)
           /\ through' = compaction.tail - 1
           /\ Send(rebuilt) /\ UNCHANGED <<mode, hardRecall>>
  <2>1. pc' = "send" /\ request' = rebuilt
    BY <1>5 DEF Send
  <2>2. through' \in 0..Len(messages) /\ through' + 1 = compaction.tail
    BY <1>2, <1>3, <1>5
  <2>3. Types'
    BY <1>1, <1>3, <1>5, <2>1, <2>2 DEF Types
  <2>4. Units' /\ Window' /\ NoProgressIsStopped'
    BY <1>1, <2>1, SameMessages
  <2>5. Summary'
    <3>1. summarised = (1..through) \ {Current} /\ Current' = Current
      BY <1>1 DEF Running, Summary, Current
    <3>2. summarised' = (1..through') \ {Current}
      BY <1>2, <1>3, <1>5, <3>1 DEF Older
    <3>3. Between(through + 1)'
      BY <1>1, <1>2, <2>2 DEF Between
    <3> QED
      BY <3>1, <3>2, <3>3 DEF Summary
  <2>6. Building'
    BY <2>1 DEF Building
  <2>7. Sent'
    <3>1. request'.messages = active /\ request'.pruned \subseteq active
          /\ Replayable(request'.pruned) /\ request'.tokens \in Int /\ request'.tokens <= Capacity
      BY <1>4, <1>5, <2>1
    <3>2. Active(through + 1)' = active
      BY <1>1, <2>2 DEF Active, Current
    <3>3. Replayable(request.pruned)'
      BY <1>1, <3>1 DEF Replayable, Tools
    <3> HIDE DEF active
    <3> QED
      BY <3>1, <3>2, <3>3 DEF Sent
  <2> QED
    BY <2>3, <2>4, <2>5, <2>6, <2>7 DEF IInv
<1>6. CASE NoCapacity /\ UNCHANGED <<contextVars, request>>
  <2>1. pc' \in {"prepare", "failed"} /\ hardRecall' \in BOOLEAN
    BY <1>6 DEF NoCapacity, Fails, Types
  <2> QED
    BY <1>1, <1>6, <2>1, NoCapacityStep
<1>7. \/ /\ rebuilt.tokens <= Capacity /\ checkpoint' = compaction.text
         /\ summarised' = summarised \cup Older(compaction.tail)
         /\ through' = compaction.tail - 1
         /\ Send(rebuilt) /\ UNCHANGED <<mode, hardRecall>>
      \/ NoCapacity /\ UNCHANGED <<contextVars, request>>
  BY DEF Rebuild, rebuilt
<1> QED
  BY <1>5, <1>6, <1>7

(* The provider refuses what was sent.                                     *)
LEMMA RefusedStep == ASSUME Types, Running, Overflow \/ ProviderFails PROVE IInv'
<1>1. /\ pc = "send" /\ pc' \in {"prepare", "failed"} /\ hardRecall' \in BOOLEAN
      /\ UNCHANGED <<messages, history, thread, contextVars, step, calls, seen, compaction>>
  BY DEF Overflow, ProviderFails, Fails, Types
<1> QED
  BY <1>1, NoCapacityStep

-----------------------------------------------------------------------------
(* An answer, and the calls it asks for.                                   *)

(* The answer begins a unit, of which nothing has run.                     *)
LEMMA AnswerStep == ASSUME Types, Running, Answer PROVE IInv'
<1>1. pc = "send" /\ calls = 0
  BY DEF Answer, Running, Units
<1>2. PICK n \in 0..MaxCalls :
        /\ messages' = Append(messages, Asking(n)) /\ calls' = n
        /\ pc' = IF n = 0 THEN "done" ELSE "tools"
  BY DEF Answer
<1>3. UNCHANGED <<history, thread, contextVars, mode, hardRecall, step, compaction, request, seen>>
  BY DEF Answer
<1> DEFINE m == Asking(n)
           last == Len(messages)
<1>4. n \in Nat /\ last \in Nat /\ messages \in Seq(Message)
  BY AgentLoopAssumption DEF Types
<1>5. m \in Message /\ m.role = "assistant" /\ m.calls = (last + 2)..(last + 1 + n)
  <2>1. AnswerTokens \in Nat
    BY AgentLoopAssumption
  <2>2. (last + 2)..(last + 1 + n) \in SUBSET Nat
    BY <1>4
  <2> HIDE DEF last
  <2>3. m = [role |-> "assistant", size |-> AnswerTokens, calls |-> (last + 2)..(last + 1 + n),
             answers |-> 0, result |-> "none"]
    BY DEF Asking, Plain, last
  <2> QED
    BY <2>1, <2>2, <2>3 DEF Message
<1> HIDE DEF m
<1>6. /\ messages' \in Seq(Message) /\ Len(messages') = last + 1
      /\ DOMAIN messages' = 1..(last + 1) /\ DOMAIN messages = 1..last
      /\ \A i \in 1..last : messages'[i] = messages[i]
      /\ messages'[last + 1] = m
  BY <1>2, <1>4, <1>5, Appended DEF m
<1>7. Types'
  <2>1. through' \in 0..Len(messages')
    BY <1>3, <1>4, <1>6 DEF Types, contextVars
  <2> QED
    BY <1>2, <1>3, <1>4, <1>6, <2>1 DEF Types, contextVars
<1>8. Tools' = Tools
  BY <1>4, <1>5, <1>6 DEF Tools
<1>9. Units /\ Current' = Current /\ history \in Nat
  BY <1>3 DEF Running, Current, Types
<1>10. CASE pc' # "done"
  <2>1. Units'
    <3>1. Current' \in DOMAIN messages' /\ messages'[Current'] = messages[Current]
      BY <1>4, <1>6, <1>9 DEF Units
    <3>2. \A i \in Tools' : messages'[i].answers = i /\ messages'[i].result \in Results
      BY <1>6, <1>8, <1>9 DEF Units, Tools
    <3>3. ASSUME NEW i \in DOMAIN messages', NEW c \in messages'[i].calls
          PROVE  /\ i < c /\ c <= Len(messages') + calls'
                 /\ (i + 1)..c \subseteq messages'[i].calls
                 /\ ((i + 1)..c) \cap DOMAIN messages' \subseteq Tools'
      <4>1. CASE i = last + 1
        <5>1. c \in (last + 2)..(last + 1 + n) /\ messages'[i].calls = (last + 2)..(last + 1 + n)
          BY <1>5, <1>6, <3>3, <4>1
        <5>2. i < c /\ c <= Len(messages') + calls'
          BY <1>2, <1>4, <1>6, <4>1, <5>1
        <5>3. (i + 1)..c \subseteq messages'[i].calls
          BY <1>4, <4>1, <5>1
        <5>4. \A k \in (i + 1)..c : k \notin 1..(last + 1)
          BY <1>4, <4>1, <5>1
        <5> QED
          BY <1>6, <5>2, <5>3, <5>4
      <4>2. CASE i # last + 1
        <5>1. i \in 1..last /\ messages'[i] = messages[i] /\ i \in DOMAIN messages
          BY <1>4, <1>6, <3>3, <4>2
        <5>2. /\ i < c /\ c <= last + 0
              /\ (i + 1)..c \subseteq messages[i].calls
              /\ ((i + 1)..c) \cap DOMAIN messages \subseteq Tools
          BY <1>1, <1>9, <3>3, <5>1 DEF Units
        <5>3. c \in Nat
          BY <1>4, <3>3, <5>1, MessageType
        <5>4. c <= Len(messages') + calls'
          BY <1>2, <1>4, <1>6, <5>2, <5>3
        <5>5. \A k \in (i + 1)..c : k \in 1..last
          BY <1>4, <5>1, <5>2, <5>3
        <5> QED
          BY <1>6, <1>8, <5>1, <5>2, <5>4, <5>5
      <4> QED
        BY <4>1, <4>2
    <3>4. IF pc' = "tools" THEN calls' > 0 ELSE calls' = 0
      BY <1>2, <1>4, <1>10
    <3> QED
      BY <1>9, <3>1, <3>2, <3>3, <3>4 DEF Units
  <2>2. Summary'
    <3>1. Between(through + 1)'
      <4> SUFFICES ASSUME NEW i \in DOMAIN messages', i < through + 1, NEW c \in messages'[i].calls
                   PROVE  c < through + 1
        BY <1>3 DEF Between, contextVars
      <4>1. i \in DOMAIN messages /\ messages'[i] = messages[i]
        BY <1>4, <1>6 DEF Types
      <4> QED
        BY <4>1 DEF Running, Summary, Between
    <3> QED
      BY <1>3, <1>9, <3>1 DEF Running, Summary, contextVars
  <2>3. Building' /\ Sent'
    BY <1>2, <1>10 DEF Building, Sent
  <2>4. Window'
    <3>1. \A i \in Tools : messages'[i] = messages[i] /\ Rank(i)' = Rank(i)
      BY <1>6, <1>8 DEF Tools, Rank
    <3> QED
      BY <1>3, <1>8, <3>1 DEF Running, Window
  <2>5. NoProgressIsStopped'
    <3>1. \A i \in Tools : messages'[i] = messages[i]
      BY <1>6 DEF Tools
    <3>2. pc # "done" /\ NoProgressIsStopped
      BY <1>1 DEF Running
    <3>3. {i \in DOMAIN messages' : messages'[i].role = "tool"} = {i \in DOMAIN messages : messages[i].role = "tool"}
      BY <1>8 DEF Tools
    <3> QED
      BY <3>1, <3>2, <3>3 DEF NoProgressIsStopped, Tools
  <2> QED
    BY <1>7, <2>1, <2>2, <2>3, <2>4, <2>5 DEF IInv
<1> QED
  BY <1>7, <1>10 DEF IInv

(* A result more counts for every one before it.                           *)
LEMMA CountGrows ==
  ASSUME NEW n \in Nat, NEW T, T \subseteq 1..n
  PROVE  /\ Count(T \cup {n + 1}, n + 1) = 1
         /\ \A i \in T : /\ Count(T, i) \in Nat /\ Count(T, i) > 0
                         /\ Count(T \cup {n + 1}, i) = Count(T, i) + 1
<1>0. \A k \in T : k \in Nat /\ k <= n
  OBVIOUS
<1>1. {j \in T \cup {n + 1} : n + 1 <= j} = {n + 1}
  <2>1. n + 1 <= n + 1 /\ \A j \in T : ~(n + 1 <= j)
    BY <1>0
  <2> QED
    BY <2>1, Zenon
<1>2. Count(T \cup {n + 1}, n + 1) = 1
  BY <1>1, FS_Singleton DEF Count
<1>3. ASSUME NEW i \in T
      PROVE  /\ Count(T, i) \in Nat /\ Count(T, i) > 0
             /\ Count(T \cup {n + 1}, i) = Count(T, i) + 1
  <2> DEFINE S == {j \in T : i <= j}
  <2>1. IsFiniteSet(S) /\ Cardinality(S) \in Nat
    <3>1. S \subseteq 1..n
      OBVIOUS
    <3> HIDE DEF S
    <3>2. IsFiniteSet(S)
      BY <3>1, PositionsCount
    <3> QED
      BY <3>2, FS_CardinalityType
  <2>2. {j \in T \cup {n + 1} : i <= j} = S \cup {n + 1} /\ n + 1 \notin S /\ i \in S
    BY <1>0
  <2> HIDE DEF S
  <2>3. Cardinality(S \cup {n + 1}) = Cardinality(S) + 1
    BY <2>1, <2>2, FS_AddElement
  <2>4. Cardinality(S) # 0
    BY <2>1, <2>2, FS_EmptySet
  <2>5. Count(T, i) = Cardinality(S) /\ Count(T \cup {n + 1}, i) = Cardinality(S \cup {n + 1})
    BY <2>2 DEF Count, S
  <2> QED
    BY <2>1, <2>3, <2>4, <2>5
<1> QED
  BY <1>2, <1>3

(* Of two in a row the earlier counts one more.                            *)
LEMMA CountInARow ==
  ASSUME NEW n \in Nat, NEW T, T \subseteq 1..n, NEW i \in T, NEW j \in T,
         i < j, \A k \in T : ~(i < k /\ k < j)
  PROVE  Count(T, i) = Count(T, j) + 1
<1> DEFINE S == {k \in T : j <= k}
<1>1. IsFiniteSet(S)
  BY PositionsCount
<1>0. \A k \in T : k \in Nat
  OBVIOUS
<1>2. {k \in T : i <= k} = S \cup {i} /\ i \notin S
  <2>1. i \notin S /\ i <= i
    BY <1>0
  <2>2. \A k \in T : i <= k <=> k = i \/ j <= k
    BY <1>0
  <2> QED
    BY <2>1, <2>2, Zenon
<1> HIDE DEF S
<1>3. Cardinality(S \cup {i}) = Cardinality(S) + 1
  BY <1>1, <1>2, FS_AddElement
<1> QED
  BY <1>2, <1>3 DEF Count, S

-----------------------------------------------------------------------------
(* The result of a call.                                                   *)

(* Of some positions of a sequence of messages: two are next to each other, *)
(* and no results among them repeat or fail in turn.                       *)
NextTo(T, i, j) == i < j /\ \A k \in T : ~(i < k /\ k < j)

Progress(T, s) ==
  /\ \A i, j, k \in T :
       NextTo(T, i, j) /\ NextTo(T, j, k)
       => ~(s[i].result = s[j].result /\ s[j].result = s[k].result)
  /\ \A i, j, k, l \in T :
       /\ NextTo(T, i, j) /\ NextTo(T, j, k) /\ NextTo(T, k, l)
       /\ s[i].result = s[k].result /\ s[j].result = s[l].result
       /\ ~s[i].result.ok /\ ~s[j].result.ok
       => s[i].result = s[j].result

(* The result is the last message.                                         *)
ResultTold(r) ==
  /\ messages' \in Seq(Message) /\ Len(messages') = Len(messages) + 1
  /\ \A i \in 1..Len(messages) : messages'[i] = messages[i]
  /\ messages'[Len(messages) + 1] = Answering(Len(messages) + 1, r)

(* The window is the end of the trace after one more call, too; and if the *)
(* guard lets it pass the trace has no repetition and no turns.            *)
LEMMA GuardStep ==
  ASSUME Types, Window, pc # "done", NoProgressIsStopped, NEW r \in Results,
         ResultTold(r), seen' = Record(r), ~Repeats(Record(r)), ~FailsInTurn(Record(r))
  PROVE  Tools' = Tools \cup {Len(messages) + 1} /\ Window' /\ NoProgressIsStopped'
<1> DEFINE last == Len(messages)
           w == Record(r)
           T == Tools \cup {last + 1}
           Told(i) == messages'[i].result
<1>1. last \in Nat /\ Tools \subseteq 1..last /\ seen \in Seq(Results) /\ Len(seen) \in Nat
  BY DEF Types, Tools
<1>2. messages'[last + 1].role = "tool" /\ Told(last + 1) = r
  BY DEF ResultTold, Answering, Plain
<1>3. Tools' = T
  BY <1>1, <1>2 DEF Tools, ResultTold
<1>4. w \in Seq(Results) /\ Len(w) = Least(Len(seen) + 1, GuardHistory) /\ w[Len(w)] = r
  BY <1>1, RecordType DEF Window
<1>5. \A n \in Nat \ {0} : n < Len(w) =>
         n <= Len(seen) /\ w[Len(w) - n] = seen[Len(seen) + 1 - n]
  BY <1>1, RecordType DEF Window
<1>6. Len(seen) \in Nat
  BY <1>1
<1>7. Len(w) \in Nat /\ 1 <= Len(w) /\ Len(w) <= 8
      /\ Len(w) = IF Len(seen) + 1 < 8 THEN Len(seen) + 1 ELSE 8
  BY <1>1, <1>4 DEF Least, GuardHistory
<1> HIDE DEF w, last
<1>8. Count(T, last + 1) = 1
      /\ \A i \in Tools : Count(Tools, i) \in Nat /\ Count(Tools, i) > 0
                          /\ Count(T, i) = Count(Tools, i) + 1
  BY <1>1, CountGrows
<1>9. ASSUME NEW i \in T
      PROVE  IF Count(T, i) <= Len(w) THEN w[Len(w) + 1 - Count(T, i)] = Told(i) ELSE Len(w) = 8
  <2>1. CASE i = last + 1
    <3>1. Len(w) + 1 - 1 = Len(w)
      BY <1>7
    <3> QED
      BY <1>2, <1>4, <1>7, <1>8, <2>1, <3>1
  <2>2. CASE i \in Tools
    <3>1. PICK n \in Nat \ {0} : n = Count(Tools, i)
      BY <1>8, <2>2
    <3>2. n > 0 /\ Count(T, i) = n + 1
      BY <1>8, <2>2, <3>1
    <3>3. IF n <= Len(seen) THEN seen[Len(seen) + 1 - n] = messages[i].result ELSE Len(seen) = 8
      BY <2>2, <3>1 DEF Window, Rank, GuardHistory
    <3>4. Told(i) = messages[i].result
      BY <1>1, <2>2 DEF last, ResultTold
    <3> HIDE DEF T, Told
    <3>5. CASE n + 1 <= Len(w)
      <4>1. n < Len(w) /\ Len(w) + 1 - (n + 1) = Len(w) - n
        <5>1. \A m, k \in Nat : m + 1 <= k => m < k /\ k + 1 - (m + 1) = k - m
          OBVIOUS
        <5> QED
          BY <1>7, <3>5, <5>1, Zenon
      <4>2. n <= Len(seen) /\ w[Len(w) - n] = seen[Len(seen) + 1 - n]
        BY <1>5, <4>1
      <4> QED
        BY <3>2, <3>3, <3>4, <3>5, <4>1, <4>2
    <3>6. CASE n + 1 > Len(w)
      <4>1. \A m, k, l \in Nat : m + 1 > k /\ k = (IF l + 1 < 8 THEN l + 1 ELSE 8) =>
              k = 8 \/ (~(m <= l) /\ l # 8)
        OBVIOUS
      <4>2. n \in Nat
        OBVIOUS
      <4>3. Len(w) = 8
        BY <1>7, <1>6, <3>3, <3>6, <4>1, <4>2, Zenon
      <4> QED
        BY <3>2, <3>6, <4>3
    <3> QED
      BY <1>7, <3>5, <3>6
  <2> QED
    BY <2>1, <2>2
<1>10. Window'
  <2>1. seen' = w /\ GuardHistory = 8
    BY DEF w, GuardHistory
  <2>2. \A i \in Tools' : Rank(i)' = Count(T, i)
    BY <1>3 DEF Rank
  <2>3. \A i \in Tools' : IF Rank(i)' <= Len(seen')
                        THEN seen'[Len(seen') + 1 - Rank(i)'] = messages'[i].result
                        ELSE Len(seen') = GuardHistory'
    <3> SUFFICES ASSUME NEW i \in T
                 PROVE  IF Count(T, i) <= Len(w) THEN w[Len(w) + 1 - Count(T, i)] = Told(i)
                        ELSE Len(w) = 8
      BY <1>3, <2>1, <2>2 DEF GuardHistory
    <3> QED
      BY <1>9
  <2>4. Len(seen') <= GuardHistory'
    <3>1. Len(seen') <= 8
      BY <1>7, <2>1
    <3> QED
      BY <3>1 DEF GuardHistory
  <2> QED
    BY <2>3, <2>4 DEF Window
<1>11. T \subseteq 1..(last + 1) /\ last + 1 \in Nat
  <2>1. \A k \in Tools : k \in 1..(last + 1)
    BY <1>1
  <2> QED
    BY <1>1, <2>1
<1>12. ASSUME NEW i \in T, NEW j \in T, NextTo(T, i, j)
       PROVE  Count(T, i) = Count(T, j) + 1
  BY <1>11, <1>12, CountInARow DEF NextTo
<1>13. ASSUME NEW k \in T, k # last + 1
       PROVE  k \in Tools /\ k \in Nat /\ k < last + 1 /\ Told(k) = messages[k].result
  BY <1>1, <1>13 DEF last, ResultTold
<1>14. \A k \in T : k \in Nat
  BY <1>11
<1> HIDE DEF T, Told
<1>15. Progress(Tools, messages)
  BY DEF NoProgressIsStopped, Progress, NextTo, Tools
<1>16. ASSUME NEW i \in Tools, NEW j \in Tools, NextTo(T, i, j)
       PROVE  NextTo(Tools, i, j)
  BY <1>16 DEF NextTo, T
<1>17. ASSUME NEW i \in T, NEW j \in T, NEW k \in T, NextTo(T, i, j), NextTo(T, j, k)
       PROVE  ~(Told(i) = Told(j) /\ Told(j) = Told(k))
  <2> SUFFICES ASSUME Told(i) = Told(j), Told(j) = Told(k) PROVE FALSE
    OBVIOUS
  <2>1. CASE k = last + 1
    <3>1. Count(T, k) = 1 /\ Count(T, j) = 2 /\ Count(T, i) = 3
      BY <1>8, <1>12, <1>17, <2>1
    <3>2. 3 <= Len(w)
      BY <1>7, <1>9, <3>1
    <3>3. w[Len(w) + 1 - 1] = Told(k) /\ w[Len(w) + 1 - 2] = Told(j) /\ w[Len(w) + 1 - 3] = Told(i)
      BY <1>7, <1>9, <3>1, <3>2
    <3>4. Len(w) + 1 - 1 = Len(w) /\ Len(w) + 1 - 2 = Len(w) - 1 /\ Len(w) + 1 - 3 = Len(w) - 2
      BY <1>7
    <3>5. Repeats(w)
      BY <1>4, <3>2, <3>3, <3>4, RepetitionSeen
    <3> QED
      BY <3>5 DEF w
  <2>2. CASE k # last + 1
    <3>1. k \in Tools /\ i # last + 1 /\ j # last + 1
      BY <1>1, <1>13, <1>14, <1>17, <2>2 DEF NextTo
    <3>2. i \in Tools /\ j \in Tools
      BY <1>13, <3>1
    <3>3. Told(i) = messages[i].result /\ Told(j) = messages[j].result /\ Told(k) = messages[k].result
      BY <1>13, <2>2, <3>1
    <3>4. NextTo(Tools, i, j) /\ NextTo(Tools, j, k)
      BY <1>16, <1>17, <3>1, <3>2
    <3>5. messages[i].result = messages[j].result /\ messages[j].result = messages[k].result
      BY <3>3
    <3> QED
      BY <1>15, <3>1, <3>2, <3>4, <3>5, ZenonT(60) DEF Progress
  <2> QED
    BY <2>1, <2>2
<1>18. ASSUME NEW i \in T, NEW j \in T, NEW k \in T, NEW l \in T,
              NextTo(T, i, j), NextTo(T, j, k), NextTo(T, k, l),
              Told(i) = Told(k), Told(j) = Told(l), ~Told(i).ok, ~Told(j).ok
       PROVE  Told(i) = Told(j)
  <2> SUFFICES ASSUME Told(i) # Told(j) PROVE FALSE
    OBVIOUS
  <2>1. CASE l = last + 1
    <3>1. Count(T, l) = 1 /\ Count(T, k) = 2 /\ Count(T, j) = 3 /\ Count(T, i) = 4
      BY <1>8, <1>12, <1>18, <2>1
    <3>2. 4 <= Len(w)
      BY <1>7, <1>9, <3>1
    <3>3. /\ w[Len(w) + 1 - 1] = Told(l) /\ w[Len(w) + 1 - 2] = Told(k)
          /\ w[Len(w) + 1 - 3] = Told(j) /\ w[Len(w) + 1 - 4] = Told(i)
      BY <1>7, <1>9, <3>1, <3>2
    <3>4. /\ Len(w) + 1 - 1 = Len(w) /\ Len(w) + 1 - 2 = Len(w) - 1
          /\ Len(w) + 1 - 3 = Len(w) - 2 /\ Len(w) + 1 - 4 = Len(w) - 3
      BY <1>7
    <3>5. FailsInTurn(w)
      BY <1>4, <1>18, <3>2, <3>3, <3>4, TurnsSeen
    <3> QED
      BY <3>5 DEF w
  <2>2. CASE l # last + 1
    <3>1. l \in Tools /\ i # last + 1 /\ j # last + 1 /\ k # last + 1
      BY <1>1, <1>13, <1>14, <1>18, <2>2 DEF NextTo
    <3>2. i \in Tools /\ j \in Tools /\ k \in Tools
      BY <1>13, <3>1
    <3>3. /\ Told(i) = messages[i].result /\ Told(j) = messages[j].result
          /\ Told(k) = messages[k].result /\ Told(l) = messages[l].result
      BY <1>13, <2>2, <3>1
    <3>4. NextTo(Tools, i, j) /\ NextTo(Tools, j, k) /\ NextTo(Tools, k, l)
      BY <1>18, <1>16, <3>1, <3>2
    <3>5. /\ messages[i].result = messages[k].result /\ messages[j].result = messages[l].result
          /\ ~messages[i].result.ok /\ ~messages[j].result.ok
          /\ messages[i].result # messages[j].result
      BY <1>18, <3>3
    <3> QED
      BY <1>15, <3>1, <3>2, <3>4, <3>5, ZenonT(60) DEF Progress
  <2> QED
    BY <2>1, <2>2
<1>19. NoProgressIsStopped'
  <2>1. {i \in DOMAIN messages' : messages'[i].role = "tool"} = T
    BY <1>3 DEF Tools
  <2>2. Progress(T, messages')
    BY <1>17, <1>18 DEF Progress, Told
  <2> HIDE DEF T
  <2> QED
    BY <2>1, <2>2 DEF NoProgressIsStopped, Progress, NextTo
<1> QED
  BY <1>3, <1>10, <1>19 DEF T, last

(* A result is a message.                                                  *)
LEMMA AnsweringType ==
  ASSUME NEW n \in Nat, NEW r \in Results
  PROVE  Answering(n, r) \in Message
<1>1. r.size \in Nat
  BY AgentLoopAssumption
<1>2. [role |-> "tool", size |-> r.size, calls |-> {}, answers |-> n, result |-> r] \in Message
  BY <1>1 DEF Message
<1> DEFINE size == r.size
<1>3. Answering(n, r) = [Plain("tool", size) EXCEPT !.answers = n, !.result = r]
  BY DEF Answering
<1> HIDE DEF size
<1>4. Answering(n, r) = [role |-> "tool", size |-> size, calls |-> {}, answers |-> n, result |-> r]
  BY <1>3 DEF Plain
<1> QED
  BY <1>2, <1>4 DEF size

(* A call has run: its result is the last message, unless the run ends     *)
(* with a notice after it.                                                 *)
LEMMA RunToolStep == ASSUME Types, Running, RunTool PROVE IInv'
<1> DEFINE last == Len(messages)
<1>1. PICK r \in Results :
        LET told == Append(messages, Answering(Len(messages) + 1, r))
            blocked == Repeats(Record(r)) \/ FailsInTurn(Record(r))
            over == calls = 1 /\ step = MaxSteps
        IN /\ seen' = Record(r)
           /\ messages' = IF blocked \/ over THEN Append(told, Notice) ELSE told
           /\ pc' = IF blocked \/ over THEN "done" ELSE IF calls > 1 THEN "tools" ELSE "prepare"
           /\ step' = IF pc' = "prepare" THEN step + 1 ELSE step
  BY DEF RunTool
<1> DEFINE told == Append(messages, Answering(Len(messages) + 1, r))
           over == calls = 1 /\ step = MaxSteps
           ends == Repeats(Record(r)) \/ FailsInTurn(Record(r)) \/ over
<1>2. /\ seen' = Record(r)
      /\ messages' = IF ends THEN Append(told, Notice) ELSE told
      /\ pc' = IF ends THEN "done" ELSE IF calls > 1 THEN "tools" ELSE "prepare"
      /\ step' = IF pc' = "prepare" THEN step + 1 ELSE step
  BY <1>1
<1>3. pc = "tools" /\ calls' = calls - 1
      /\ UNCHANGED <<history, thread, contextVars, hardRecall, compaction, request>>
  BY DEF RunTool
<1>4. calls \in Nat /\ calls > 0 /\ last \in Nat /\ messages \in Seq(Message) /\ Units
  BY <1>3 DEF Running, Units, Types
<1>5. Answering(last + 1, r) \in Message /\ Notice \in Message
  <2>1. Notice \in Message
    BY DEF Notice, Plain, Message
  <2> QED
    BY <1>4, <2>1, AnsweringType
<1>6. /\ told \in Seq(Message) /\ Len(told) = last + 1
      /\ \A i \in 1..last : told[i] = messages[i]
      /\ told[last + 1] = Answering(last + 1, r)
  BY <1>4, <1>5, Appended
<1> HIDE DEF told, ends
<1>7. messages' \in Seq(Message) /\ Len(messages') >= last + 1
  <2>1. Append(told, Notice) \in Seq(Message) /\ Len(Append(told, Notice)) = last + 2
    BY <1>4, <1>5, <1>6
  <2> QED
    BY <1>2, <1>4, <1>6, <2>1
<1>8. Types'
  <2>1. seen' \in Seq(Results)
    BY <1>2, <1>3, RecordType DEF Running, Window, Types
  <2>2. through' \in 0..Len(messages')
    BY <1>3, <1>4, <1>7 DEF Types, contextVars
  <2>3. step' \in Nat /\ calls' \in Nat
    BY <1>2, <1>3, <1>4 DEF Types
  <2>4. pc' \in {"prepare", "tools", "done"}
    BY <1>2
  <2> QED
    BY <1>3, <1>7, <2>1, <2>2, <2>3, <2>4 DEF Types, contextVars
<1>9. CASE ~ends
  <2>1. messages' = told /\ pc' = IF calls > 1 THEN "tools" ELSE "prepare"
    BY <1>2, <1>9
  <2>2. ResultTold(r)
    BY <1>6, <2>1 DEF ResultTold
  <2>3. Tools' = Tools \cup {last + 1} /\ Window' /\ NoProgressIsStopped'
    BY <1>2, <1>3, <1>9, <2>2, GuardStep DEF Running, ends
  <2>4. /\ DOMAIN messages' = 1..(last + 1) /\ Len(messages') = last + 1
        /\ \A i \in DOMAIN messages : i \in DOMAIN messages' /\ messages'[i] = messages[i]
        /\ \A i \in DOMAIN messages' : i = last + 1 \/ i \in DOMAIN messages
    BY <1>4, <1>6, <1>7, <2>1
  <2>5. /\ messages'[last + 1].answers = last + 1 /\ messages'[last + 1].result = r
        /\ messages'[last + 1].calls = {}
    BY <1>6, <2>1 DEF Answering, Plain
  <2>6. Current' = Current /\ Current \in DOMAIN messages
    BY <1>3, <1>4 DEF Current, Units
  <2>7. Units'
    <3>1. Current' \in DOMAIN messages' /\ messages'[Current'] = messages[Current]
      BY <2>4, <2>6
    <3>2. \A i \in Tools' : messages'[i].answers = i /\ messages'[i].result \in Results
      BY <1>4, <2>3, <2>4, <2>5 DEF Units, Tools
    <3>3. ASSUME NEW i \in DOMAIN messages', NEW c \in messages'[i].calls
          PROVE  /\ i < c /\ c <= Len(messages') + calls'
                 /\ (i + 1)..c \subseteq messages'[i].calls
                 /\ ((i + 1)..c) \cap DOMAIN messages' \subseteq Tools'
      <4>1. i \in DOMAIN messages /\ messages'[i] = messages[i]
        BY <2>4, <2>5, <3>3
      <4>2. /\ i < c /\ c <= last + calls
            /\ (i + 1)..c \subseteq messages[i].calls
            /\ ((i + 1)..c) \cap DOMAIN messages \subseteq Tools
        BY <1>4, <3>3, <4>1 DEF Units
      <4>3. c \in Nat
        BY <1>4, <3>3, <4>1, MessageType
      <4>4. c <= Len(messages') + calls'
        BY <1>3, <1>4, <2>4, <4>2, <4>3
      <4>5. ASSUME NEW k \in ((i + 1)..c) \cap DOMAIN messages' PROVE k \in Tools'
        BY <2>3, <2>4, <4>2
      <4> QED
        BY <4>1, <4>2, <4>4, <4>5
    <3>4. IF pc' = "tools" THEN calls' > 0 ELSE calls' = 0
      BY <1>3, <1>4, <2>1
    <3> QED
      BY <1>4, <2>6, <3>1, <3>2, <3>3, <3>4 DEF Units
  <2>8. Summary'
    <3>1. Between(through + 1)'
      <4> SUFFICES ASSUME NEW i \in DOMAIN messages', i < through + 1, NEW c \in messages'[i].calls
                   PROVE  c < through + 1
        BY <1>3 DEF Between, contextVars
      <4>1. i \in DOMAIN messages /\ messages'[i] = messages[i]
        BY <2>4, <2>5
      <4> QED
        BY <4>1 DEF Running, Summary, Between
    <3> QED
      BY <1>3, <2>6, <3>1 DEF Running, Summary, contextVars
  <2>9. Building' /\ Sent'
    BY <2>1 DEF Building, Sent
  <2> QED
    BY <1>8, <2>3, <2>7, <2>8, <2>9 DEF IInv, NoProgressIsStopped
<1>10. CASE ends
  BY <1>2, <1>8, <1>10 DEF IInv
<1> QED
  BY <1>9, <1>10

-----------------------------------------------------------------------------
(* The theorems.                                                           *)

(* Every step keeps the invariant.                                         *)
LEMMA StepInv == IInv /\ [Next]_vars => IInv'
<1> SUFFICES ASSUME IInv, [Next]_vars PROVE IInv'
  OBVIOUS
<1>1. Types /\ (pc # "done" => Running)
  BY DEF IInv, Running
<1>2. CASE UNCHANGED vars
  <2>1. UNCHANGED <<messages, history, thread, checkpoint, through, summarised, pc, mode,
                    hardRecall, step, calls, seen, compaction, request>>
    BY <1>2 DEF vars, contextVars, loopVars
  <2> QED
    BY <2>1 DEF IInv, Types, Units, Summary, Building, Sent, Window, NoProgressIsStopped,
                Between, Replayable, Tools, Rank, Active, Current
<1>3. CASE Prepare
  BY <1>1, <1>3, PrepareStep DEF Prepare
<1>4. CASE CompactFragment
  BY <1>1, <1>4, CompactFragmentStep DEF CompactFragment
<1>5. CASE CompactNothing
  BY <1>1, <1>5, CompactNothingStep DEF CompactNothing
<1>6. CASE Rebuild
  BY <1>1, <1>6, RebuildStep DEF Rebuild
<1>7. CASE Answer
  BY <1>1, <1>7, AnswerStep DEF Answer
<1>8. CASE Overflow \/ ProviderFails
  BY <1>1, <1>8, RefusedStep DEF Overflow, ProviderFails
<1>9. CASE RunTool
  BY <1>1, <1>9, RunToolStep DEF RunTool
<1> QED
  BY <1>2, <1>3, <1>4, <1>5, <1>6, <1>7, <1>8, <1>9 DEF Next, Finished

(* The invariant holds of every state.                                     *)
THEOREM Invariance == Spec => []IInv
BY InitInv, StepInv, PTL DEF Spec

(* No request, and no piece of a compaction, is longer than the model      *)
(* takes (RequestContextManager.prepare, _build_runtime_checkpoint).       *)
THEOREM RequestsFit == Spec => []RequestFits
<1>1. IInv => RequestFits
  <2> SUFFICES ASSUME IInv PROVE RequestFits
    OBVIOUS
  <2>1. pc = "send" => request.tokens <= Capacity
    BY DEF IInv, Sent
  <2>2. ASSUME pc = "compact", FragmentBudget > 0
        PROVE  WrapperTokens + compaction.text + FragmentSize <= Capacity
    <3> DEFINE budget == Least((Capacity * 60) \div 100, Capacity - WrapperTokens - compaction.text)
    <3>1. compaction.text \in Nat /\ compaction.left \in Int /\ compaction.retried \in BOOLEAN
      BY DEF IInv, Types, Compaction
    <3>2. Capacity \in Nat /\ WrapperTokens \in Nat
      BY AgentLoopAssumption
    <3>3. budget \in Int /\ budget <= Capacity - WrapperTokens - compaction.text
      BY <3>1, <3>2 DEF Least
    <3>4. compaction.retried => budget > 0
      BY <2>2 DEF IInv, Building
    <3> HIDE DEF budget
    <3>5. FragmentBudget \in Int /\ FragmentBudget <= budget
      <4>1. FragmentBudget = IF compaction.retried THEN Most(1, budget \div 2) ELSE budget
        BY DEF FragmentBudget, budget
      <4>2. budget \div 2 \in Int /\ (budget > 0 => budget \div 2 <= budget)
        BY <3>3
      <4> QED
        BY <3>1, <3>3, <3>4, <4>1, <4>2 DEF Most
    <3>6. FragmentSize \in Int /\ FragmentSize <= FragmentBudget
      BY <3>1, <3>5 DEF FragmentSize, Least
    <3> QED
      BY <3>1, <3>2, <3>3, <3>5, <3>6
  <2> QED
    BY <2>1, <2>2 DEF RequestFits
<1> QED
  BY <1>1, Invariance, PTL

(* What is sent has the user's input, every other message or the           *)
(* checkpoint that stands for it, and no result without its call           *)
(* (_recent_tail_start, _project_request_messages).                        *)
THEOREM RequestsAreWhole == Spec => []RequestIsWhole
<1>1. IInv => RequestIsWhole
  <2> SUFFICES ASSUME IInv, pc = "send" PROVE RequestIsWhole
    BY DEF RequestIsWhole
  <2>1. Types /\ Units /\ Summary /\ Sent /\ calls = 0
    BY DEF IInv, Units
  <2>2. messages \in Seq(Message) /\ through \in 0..Len(messages) /\ history \in Nat
    BY <2>1 DEF Types
  <2>3. request.messages = ((through + 1)..Len(messages)) \cup {Current}
    BY <2>1 DEF Sent, Active
  <2>4. summarised = (1..through) \ {Current} /\ Between(through + 1)
    BY <2>1 DEF Summary
  <2>5. Current \in 1..Len(messages) /\ messages[Current].role = "user"
        /\ messages[Current].calls = {}
    BY <2>1, <2>2 DEF Units
  <2>6. request.messages \cup summarised = 1..Len(messages)
        /\ request.messages \cap summarised = {}
    BY <2>2, <2>3, <2>4, <2>5
  <2>7. \A i \in request.pruned : i \in Tools /\ messages[i].result.replayable
    BY <2>1 DEF Sent, Replayable
  <2>8. Current \in request.messages \ request.pruned
    BY <2>3, <2>5, <2>7 DEF Tools
  <2>9. ASSUME NEW i \in DOMAIN messages, NEW c \in messages[i].calls
        PROVE  i \in request.messages <=> c \in request.messages
    <3>1. i < c /\ c <= Len(messages) + 0 /\ (i + 1)..c \subseteq messages[i].calls
          /\ ((i + 1)..c) \cap DOMAIN messages \subseteq Tools
      BY <2>1, <2>9 DEF Units
    <3>2. i \in Nat /\ c \in Nat /\ i \in 1..Len(messages)
      BY <2>2, <2>9, MessageType
    <3>3. i # Current
      BY <2>5, <2>9
    <3>4. c \in (i + 1)..c /\ c \in DOMAIN messages
      BY <2>2, <3>1, <3>2
    <3>5. c # Current
      BY <2>5, <3>1, <3>4 DEF Tools
    <3>6. i < through + 1 => c < through + 1
      BY <2>4, <2>9 DEF Between
    <3> QED
      BY <2>2, <2>3, <3>1, <3>2, <3>3, <3>5, <3>6
  <2> QED
    BY <2>6, <2>7, <2>8, <2>9 DEF RequestIsWhole
<1> QED
  BY <1>1, Invariance, PTL

(* A run that goes on has no three equal calls in a row, and no two        *)
(* failing ones in turn (ProgressGuard.record).                            *)
THEOREM RunsWithoutProgressAreStopped == Spec => []NoProgressIsStopped
<1>1. IInv => NoProgressIsStopped
  BY DEF IInv, NoProgressIsStopped
<1> QED
  BY <1>1, Invariance, PTL
=============================================================================
